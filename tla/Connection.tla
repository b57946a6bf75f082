----------------------------- MODULE Connection -----------------------------
(***************************************************************************)
(* The life of an established connection (internal/sshclient/client.go):   *)
(* the keepalive loop that Dial leaves running, the goroutine each ping    *)
(* sends its request on, and Close, which the loop and any number of       *)
(* callers may run at once.  What happens before the connection exists is  *)
(* in module Dial.                                                         *)
(***************************************************************************)
CONSTANTS
    Callers, \* goroutines that own the client and call Close: a view, a command
    Loop,    \* the goroutine running keepAlive
    NoOne,   \* the holder of closeMu when it is free
    Ops      \* sessions, transfers and listings waiting on the connection

Closers == Callers \union {Loop}

ASSUME NamesAssumption ==
    /\ Loop \notin Callers
    /\ NoOne \notin Closers

VARIABLES
    peer,     \* whether the far end still answers
    conn,     \* the transport: open, reset by the far end, or closed by us
    closeMu,  \* the holder of the mutex of the same name
    stopped,  \* Client.stopped
    done,     \* the channel Client.done; closing it twice panics
    onClose,  \* Client.onClose: still set, or run and cleared
    pc,       \* where each closer is inside Close
    loop,     \* where keepAlive is
    ping,     \* the keepalive request of the ping in hand, or of the last one
    op        \* what each operation on the connection is doing

teardown == <<closeMu, stopped, done, onClose>>
\* close(c) on a channel.
CloseChannel(c) == IF c = "open" THEN "closed" ELSE "panic"

vars == <<peer, conn, closeMu, stopped, done, onClose, pc, loop, ping, op>>

TypeOK ==
    /\ peer \in {"answering", "silent"}
    /\ conn \in {"open", "reset", "closed"}
    /\ closeMu \in Closers \union {NoOne}
    /\ stopped \in BOOLEAN
    /\ done \in {"open", "closed", "panic"}
    /\ onClose \in {"set", "ran"}
    /\ pc \in [Closers -> {"outside", "locking", "stopping", "closing",
                           "releasing", "returned"}]
    /\ loop \in {"select", "waiting", "closing", "ended"}
    /\ ping \in {"none", "pending", "answered", "failed"}
    /\ op \in [Ops -> {"idle", "blocked", "failed"}]

Init ==
    /\ peer = "answering"
    /\ conn = "open"
    /\ closeMu = NoOne
    /\ stopped = FALSE
    /\ done = "open"
    /\ onClose = "set"
    /\ pc = [c \in Closers |-> "outside"]
    /\ loop = "select"
    /\ ping = "none"
    /\ op = [o \in Ops |-> "idle"]

-----------------------------------------------------------------------------
(* The far end and the network between.                                    *)

\* A NAT drops the mapping: from now on nothing is answered, and nothing says so.
GoesSilent ==
    /\ peer = "answering"
    /\ peer' = "silent"
    /\ UNCHANGED <<conn, teardown, pc, loop, ping, op>>

\* The far end, or a router, resets the connection: every request fails.
Resets ==
    /\ conn = "open"
    /\ conn' = "reset"
    /\ UNCHANGED <<peer, teardown, pc, loop, ping, op>>

-----------------------------------------------------------------------------
(* Operations on the connection: each blocks until the far end answers or  *)
(* the connection ends.                                                    *)

OpStarts(o) ==
    /\ op[o] = "idle"
    /\ op' = [op EXCEPT ![o] = "blocked"]
    /\ UNCHANGED <<peer, conn, teardown, pc, loop, ping>>

OpAnswered(o) ==
    /\ op[o] = "blocked"
    /\ peer = "answering" /\ conn = "open"
    /\ op' = [op EXCEPT ![o] = "idle"]
    /\ UNCHANGED <<peer, conn, teardown, pc, loop, ping>>

OpFails(o) ==
    /\ op[o] = "blocked"
    /\ conn # "open"
    /\ op' = [op EXCEPT ![o] = "failed"]
    /\ UNCHANGED <<peer, conn, teardown, pc, loop, ping>>

-----------------------------------------------------------------------------
(* keepAlive and ping.                                                     *)

\* select, the ticker's arm: ping starts the goroutine that calls SendRequest.
Tick ==
    /\ loop = "select"
    /\ loop' = "waiting"
    /\ ping' = "pending"
    /\ UNCHANGED <<peer, conn, teardown, pc, op>>

\* select, the arm of c.done.  With both ready either may be taken.
SeesDone ==
    /\ loop = "select"
    /\ done = "closed"
    /\ loop' = "ended"
    /\ UNCHANGED <<peer, conn, teardown, pc, ping, op>>

\* Fault: replied has no buffer, so only a ping still waiting can be told.
PingFailsUnbuffered ==
    /\ ping = "pending" /\ loop = "waiting"
    /\ conn # "open"
    /\ ping' = "failed"
    /\ UNCHANGED <<peer, conn, teardown, pc, loop, op>>

\* SendRequest returns because the far end answered, whatever it answered ...
PingAnswered ==
    /\ ping = "pending"
    /\ peer = "answering" /\ conn = "open"
    /\ ping' = "answered"
    /\ UNCHANGED <<peer, conn, teardown, pc, loop, op>>

\* ... or because the connection is gone.  An abandoned request ends here too.
PingFails ==
    /\ ping = "pending"
    /\ conn # "open"
    /\ ping' = "failed"
    /\ UNCHANGED <<peer, conn, teardown, pc, loop, op>>

\* ping read a nil error: the loop goes round again.
PingReturnsTrue ==
    /\ loop = "waiting"
    /\ ping = "answered"
    /\ loop' = "select"
    /\ UNCHANGED <<peer, conn, teardown, pc, ping, op>>

\* Fault: ping has no timer, so only an error from SendRequest is a miss.
PingMissedUntimed ==
    /\ loop = "waiting" /\ ping = "failed"
    /\ loop' = "closing"
    /\ pc' = [pc EXCEPT ![Loop] = "locking"]
    /\ UNCHANGED <<peer, conn, teardown, ping, op>>

\* ping read an error, or its timer fired (also when an answer has just
\* arrived): it calls Close.
PingMissed ==
    /\ loop = "waiting"
    /\ loop' = "closing"
    /\ pc' = [pc EXCEPT ![Loop] = "locking"]
    /\ UNCHANGED <<peer, conn, teardown, ping, op>>

-----------------------------------------------------------------------------
(* Close.                                                                  *)

\* Fault: a second Close sees stopped and returns without taking the lock.
CallCloseSkipsLock(c) ==
    /\ c # Loop
    /\ pc[c] \in {"outside", "returned"}
    /\ pc' = [pc EXCEPT ![c] = IF stopped THEN "returned" ELSE "locking"]
    /\ UNCHANGED <<peer, conn, teardown, loop, ping, op>>

\* An owner may call Close again after it returned.
CallClose(c) ==
    /\ c # Loop
    /\ pc[c] \in {"outside", "returned"}
    /\ pc' = [pc EXCEPT ![c] = "locking"]
    /\ UNCHANGED <<peer, conn, teardown, loop, ping, op>>

Lock(c) ==
    /\ pc[c] = "locking"
    /\ closeMu = NoOne
    /\ closeMu' = c
    /\ pc' = [pc EXCEPT ![c] = "stopping"]
    /\ UNCHANGED <<peer, conn, stopped, done, onClose, loop, ping, op>>

\* Fault: done is closed by every Close.
StopLoopUnguarded(c) ==
    /\ pc[c] = "stopping"
    /\ stopped' = TRUE
    /\ done' = CloseChannel(done)
    /\ pc' = [pc EXCEPT ![c] = "closing"]
    /\ UNCHANGED <<peer, conn, closeMu, onClose, loop, ping, op>>

\* if !c.stopped { c.stopped = true; close(c.done) }
StopLoop(c) ==
    /\ pc[c] = "stopping"
    /\ stopped' = TRUE
    /\ done' = IF stopped THEN done ELSE CloseChannel(done)
    /\ pc' = [pc EXCEPT ![c] = "closing"]
    /\ UNCHANGED <<peer, conn, closeMu, onClose, loop, ping, op>>

\* c.Client.Close(); closing it again is an error nobody reads.
CloseConn(c) ==
    /\ pc[c] = "closing"
    /\ conn' = "closed"
    /\ pc' = [pc EXCEPT ![c] = "releasing"]
    /\ UNCHANGED <<peer, teardown, loop, ping, op>>

\* Fault: the loop's goroutine is counted as a closer that returned.
ReleaseMixed(c) ==
    /\ pc[c] = "releasing"
    /\ onClose' = "ran"
    /\ closeMu' = NoOne
    /\ pc' = [pc EXCEPT ![c] = "returned"]
    /\ loop' = IF c = Loop THEN "returned" ELSE loop
    /\ UNCHANGED <<peer, conn, stopped, done, ping, op>>

\* onClose runs if it is still set and is cleared; the deferred Unlock; return.
\* In the loop's goroutine, ping then returns false and keepAlive returns.
Release(c) ==
    /\ pc[c] = "releasing"
    /\ onClose' = "ran"
    /\ closeMu' = NoOne
    /\ pc' = [pc EXCEPT ![c] = "returned"]
    /\ loop' = IF c = Loop THEN "ended" ELSE loop
    /\ UNCHANGED <<peer, conn, stopped, done, ping, op>>

-----------------------------------------------------------------------------
LoopStep == Tick \/ SeesDone \/ PingReturnsTrue \/ PingMissed

Next ==
    \/ GoesSilent \/ Resets
    \/ \E o \in Ops : OpStarts(o) \/ OpAnswered(o) \/ OpFails(o)
    \/ LoopStep \/ PingAnswered \/ PingFails
    \/ \E c \in Closers :
          CallClose(c) \/ Lock(c) \/ StopLoop(c) \/ CloseConn(c) \/ Release(c)

(***************************************************************************)
(* The ticker and the timer fire, goroutines that can run do run, and a    *)
(* goroutine that keeps asking for closeMu gets it: a Go mutex hands over  *)
(* to a waiter it has kept waiting.  Nothing is assumed of the far end, of *)
(* the owners' calls to Close, or of an answer arriving.                   *)
(***************************************************************************)
Fairness ==
    /\ WF_vars(Tick \/ SeesDone)
    /\ WF_vars(PingReturnsTrue \/ PingMissed)
    /\ WF_vars(PingFails)
    /\ \A o \in Ops : WF_vars(OpFails(o))
    /\ \A c \in Closers :
          /\ SF_vars(Lock(c))
          /\ WF_vars(StopLoop(c) \/ CloseConn(c) \/ Release(c))

Spec == Init /\ [][Next]_vars
FairSpec == Spec /\ Fairness

-----------------------------------------------------------------------------
\* Whichever Close arrives first, and however many race it: the loop is told
\* to stop, then the connection goes, then what the transport opened behind it
\* is released; and done is never closed twice, which would panic
\* (client.go:84-93).
TornDownInOrder ==
    /\ done # "panic"
    /\ onClose = "ran" => conn = "closed"
    /\ conn = "closed" => done = "closed"

\* A caller whose Close has returned finds the connection down and the proxy
\* and agent released, also when the teardown was done by someone else and was
\* still going on when it called (client.go:97-121).
CloseMeansReleased ==
    \A c \in Callers : pc[c] = "returned" => conn = "closed" /\ onClose = "ran"

\* What the invariants above rest on: closeMu is held exactly inside the
\* teardown, stopped records that done was closed, and each stage of a teardown
\* finds the earlier ones done.  The loop is inside Close only from a missed ping.
TeardownInv ==
    /\ \A c \in Closers :
          /\ closeMu = c <=> pc[c] \in {"stopping", "closing", "releasing"}
          /\ pc[c] \in {"closing", "releasing"} => stopped
          /\ pc[c] = "releasing" => conn = "closed"
          /\ pc[c] = "returned" => onClose = "ran"
    /\ done = IF stopped THEN "closed" ELSE "open"
    /\ conn = "closed" => stopped
    /\ onClose = "ran" => conn = "closed"
    /\ loop = "ended" => stopped
    /\ loop \in {"select", "waiting"} => pc[Loop] = "outside"

\* An operation blocked on a far end that has gone silent is failed, without
\* any help from the far end or the user (client.go:156-160).
NothingHangs ==
    \A o \in Ops : (op[o] = "blocked" /\ peer = "silent") ~> (op[o] = "failed")

\* Once a Close has begun, the loop ends, and so does the goroutine of a ping
\* that was abandoned (client.go:160-162).
GoroutinesEnd == stopped ~> (loop = "ended" /\ ping # "pending")

=============================================================================

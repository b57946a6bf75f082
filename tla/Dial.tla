-------------------------------- MODULE Dial --------------------------------
(***************************************************************************)
(* One call of Dial (internal/sshclient/client.go): the target's auth      *)
(* chain, then each bastion of a ProxyJump chain, then the target through  *)
(* the last of them, with every resource opened on the way, the goroutine  *)
(* behind hopDial and handshake, and the unwinding when a step fails or    *)
(* when the finished connection is closed.                                 *)
(*                                                                         *)
(* Leg k is reached through leg k-1; the last leg is the target.  Leg 1 is *)
(* a TCP connection or the pipes of a ProxyCommand, whose close ends a     *)
(* blocked read at once.  A later leg is a channel of the leg before it:   *)
(* closing it sends a request, and a read blocked on it ends when the far  *)
(* end of that leg confirms, or when the leg before it has ended.          *)
(***************************************************************************)
EXTENDS Naturals, Sequences, SequencesExt

CONSTANT MaxHops \* the longest ProxyJump chain

HopsAssumption == MaxHops \in Nat

VARIABLES
    hops,        \* bastions in the chain: 0 for a direct dial or a ProxyCommand
    pc,          \* where Dial is
    leg,         \* the leg being built
    open,        \* agent sockets and transports that are open
    established, \* legs whose handshake succeeded
    closers,     \* what unwinding releases, last first
    helper,      \* the goroutine behind hopDial or handshake
    silent,      \* legs whose far end accepts and then says nothing
    result       \* what Dial returned: nothing yet, ok, error; or closed

vars == <<hops, pc, leg, open, established, closers, helper, silent, result>>
config == <<hops, silent>>

Target == hops + 1
Legs == 1 .. MaxHops + 1
Agent(k) == <<"agent", k>>
Conn(k) == <<"conn", k>>
Resources == {"agent", "conn"} \X Legs

Responsive(k) == \A i \in 1 .. k : i \notin silent

\* A read on leg k has an end: some leg under it was closed, and the close took
\* effect here or was confirmed by the far end before it.
Ended(k) == \E j \in 1 .. k : Conn(j) \notin open /\ (j = 1 \/ Responsive(j - 1))

TypeOK ==
    /\ hops \in 0 .. MaxHops
    /\ pc \in {"config", "checks", "dial", "dialing", "abortDial", "handshake",
               "handshaking", "abortHandshake", "unwinding", "returned"}
    /\ leg \in 1 .. Target
    /\ open \subseteq Resources
    /\ established \subseteq Legs
    /\ closers \in Seq(Resources)
    /\ helper \in {"none", "dialing", "handshaking", "ok", "error"}
    /\ silent \subseteq Legs
    /\ result \in {"pending", "ok", "error", "closed"}

Init ==
    /\ hops \in 0 .. MaxHops
    /\ pc = "config"
    /\ leg = Target
    /\ open = {}
    /\ established = {}
    /\ closers = <<>>
    /\ helper = "none"
    /\ silent = {}
    /\ result = "pending"

\* A host stops answering, before or after it was connected to.
GoesSilent(k) ==
    /\ k \in 1 .. Target /\ k \notin silent
    /\ result = "pending"
    /\ silent' = silent \union {k}
    /\ UNCHANGED <<hops, pc, leg, open, established, closers, helper, result>>

Fail ==
    /\ pc' = "unwinding"
    /\ result' = "error"

-----------------------------------------------------------------------------
(* buildSSHConfig, for the target first and then for each bastion in turn. *)

\* buildAuthChain dials the agent, when there is one.
OpenAgent ==
    /\ pc = "config"
    /\ pc' = "checks"
    /\ open' \in {open, open \union {Agent(leg)}}
    /\ UNCHANGED <<config, leg, established, closers, helper, result>>

\* Fault: release reads the named result, which the return has already cleared.
ConfigFailsUnreleased ==
    /\ pc = "checks"
    /\ Fail
    /\ UNCHANGED <<config, leg, open, established, closers, helper>>

\* No methods, or known_hosts that cannot be located or read: the deferred
\* release closes the agent, which nobody else knows of.
ConfigFails ==
    /\ pc = "checks"
    /\ open' = open \ {Agent(leg)}
    /\ Fail
    /\ UNCHANGED <<config, leg, established, closers, helper>>

\* The cleanup is registered before anything that can fail runs.
ConfigBuilt ==
    /\ pc = "checks"
    /\ closers' = Append(closers, Agent(leg))
    /\ IF leg = Target
          THEN leg' = 1 /\ pc' = IF hops = 0 THEN "dial" ELSE "config"
          ELSE leg' = leg /\ pc' = "dial"
    /\ UNCHANGED <<config, open, established, helper, result>>

-----------------------------------------------------------------------------
(* The transport of a leg.                                                 *)

\* net.Dialer with its own timeout and context, or the start of a proxy command.
FirstLegDialed ==
    /\ pc = "dial" /\ leg = 1
    /\ \/ open' = open \union {Conn(1)} /\ pc' = "handshake" /\ UNCHANGED result
       \/ Fail /\ UNCHANGED open
    /\ UNCHANGED <<config, leg, established, closers, helper>>

\* hopDial puts client.Dial on a goroutine.
HopDialStarts ==
    /\ pc = "dial" /\ leg > 1
    /\ pc' = "dialing"
    /\ helper' = "dialing"
    /\ UNCHANGED <<config, leg, open, established, closers, result>>

\* client.Dial returns: the bastion opened the channel or refused it ...
HopAnswers ==
    /\ helper = "dialing"
    /\ Responsive(leg - 1) /\ ~Ended(leg - 1)
    /\ helper' \in {"ok", "error"}
    /\ open' = IF helper' = "ok" THEN open \union {Conn(leg)} ELSE open
    /\ UNCHANGED <<config, pc, leg, established, closers, result>>

\* ... or the mux dropped the request with everything else it was holding.
HopDropped ==
    /\ helper = "dialing"
    /\ Ended(leg - 1)
    /\ helper' = "error"
    /\ UNCHANGED <<config, pc, leg, open, established, closers, result>>

HopDialReturns ==
    /\ pc = "dialing" /\ helper \in {"ok", "error"}
    /\ helper' = "none"
    /\ IF helper = "ok" THEN pc' = "handshake" /\ UNCHANGED result ELSE Fail
    /\ UNCHANGED <<config, leg, open, established, closers>>

\* The timer or the context: the bastion's client is closed, which takes the
\* channel being opened with it, and the goroutine is waited for.
HopDialAborts ==
    /\ pc = "dialing"
    /\ pc' = "abortDial"
    /\ open' = open \ {Conn(leg - 1), Conn(leg)}
    /\ UNCHANGED <<config, leg, established, closers, helper, result>>

HopDialAborted ==
    /\ pc = "abortDial" /\ helper \in {"ok", "error"}
    /\ helper' = "none"
    /\ Fail
    /\ UNCHANGED <<config, leg, open, established, closers>>

-----------------------------------------------------------------------------
(* The handshake of a leg.                                                 *)

HandshakeStarts ==
    /\ pc = "handshake"
    /\ pc' = "handshaking"
    /\ helper' = "handshaking"
    /\ UNCHANGED <<config, leg, open, established, closers, result>>

\* ssh.NewClientConn returns: the far end answered, and accepted us or not ...
HandshakeAnswered ==
    /\ helper = "handshaking"
    /\ Responsive(leg) /\ ~Ended(leg)
    /\ helper' \in {"ok", "error"}
    /\ UNCHANGED <<config, pc, leg, open, established, closers, result>>

\* ... or its read on the transport failed.
HandshakeBroken ==
    /\ helper = "handshaking"
    /\ Ended(leg)
    /\ helper' = "error"
    /\ UNCHANGED <<config, pc, leg, open, established, closers, result>>

\* Fault: the target is taken for one more bastion.
HandshakeSucceedsPastTarget ==
    /\ pc = "handshaking" /\ helper = "ok"
    /\ helper' = "none"
    /\ established' = established \union {leg}
    /\ closers' = Append(closers, Conn(leg))
    /\ leg' = leg + 1
    /\ pc' = IF leg + 1 = Target THEN "dial" ELSE "config"
    /\ UNCHANGED <<config, open, result>>

\* A bastion's close is registered and the next leg begins; the target's client
\* is what Dial returns.
HandshakeSucceeds ==
    /\ pc = "handshaking" /\ helper = "ok"
    /\ helper' = "none"
    /\ established' = established \union {leg}
    /\ IF leg = Target
          THEN /\ pc' = "returned" /\ result' = "ok"
               /\ UNCHANGED <<leg, closers>>
          ELSE /\ closers' = Append(closers, Conn(leg))
               /\ leg' = leg + 1
               /\ pc' = IF leg + 1 = Target THEN "dial" ELSE "config"
               /\ UNCHANGED result
    /\ UNCHANGED <<config, open>>

\* handshake's caller closes the transport itself.
HandshakeFails ==
    /\ pc = "handshaking" /\ helper = "error"
    /\ helper' = "none"
    /\ open' = open \ {Conn(leg)}
    /\ Fail
    /\ UNCHANGED <<config, leg, established, closers>>

\* Fault: the handshake is abandoned without closing the transport.
HandshakeAbortsOpen ==
    /\ pc = "handshaking"
    /\ pc' = "abortHandshake"
    /\ UNCHANGED <<config, leg, open, established, closers, helper, result>>

\* The timer or the context: conn.Close, and the goroutine is waited for.
HandshakeAborts ==
    /\ pc = "handshaking"
    /\ pc' = "abortHandshake"
    /\ open' = open \ {Conn(leg)}
    /\ UNCHANGED <<config, leg, established, closers, helper, result>>

HandshakeAborted ==
    /\ pc = "abortHandshake" /\ helper \in {"ok", "error"}
    /\ helper' = "none"
    /\ Fail
    /\ UNCHANGED <<config, leg, open, established, closers>>

-----------------------------------------------------------------------------
(* Release: closer() and authCleanup() after a failure, onClose after a    *)
(* success.  The bastions' closers run backwards, the target's agent last. *)

\* Fault: closeAll ranges over closers forwards.
UnwindForwards ==
    /\ pc = "unwinding"
    /\ IF closers = <<>>
          THEN pc' = "returned" /\ UNCHANGED <<open, closers>>
          ELSE /\ open' = open \ {Head(closers)}
               /\ closers' = Tail(closers)
               /\ UNCHANGED pc
    /\ UNCHANGED <<config, leg, established, helper, result>>

Unwind ==
    /\ pc = "unwinding"
    /\ IF closers = <<>>
          THEN pc' = "returned" /\ UNCHANGED <<open, closers>>
          ELSE /\ open' = open \ {Last(closers)}
               /\ closers' = Front(closers)
               /\ UNCHANGED pc
    /\ UNCHANGED <<config, leg, established, helper, result>>

\* Client.Close by the owner: the connection, then onClose.
CloseClient ==
    /\ pc = "returned" /\ result = "ok"
    /\ open' = open \ {Conn(Target)}
    /\ result' = "closed"
    /\ pc' = "unwinding"
    /\ UNCHANGED <<config, leg, established, closers, helper>>

DialStep ==
    \/ OpenAgent \/ ConfigFails \/ ConfigBuilt
    \/ FirstLegDialed \/ HopDialStarts
    \/ HopDialReturns \/ HopDialAborts \/ HopDialAborted
    \/ HandshakeStarts \/ HandshakeSucceeds \/ HandshakeFails
    \/ HandshakeAborts \/ HandshakeAborted
    \/ Unwind

Next ==
    \/ DialStep \/ CloseClient
    \/ HopAnswers \/ HopDropped \/ HandshakeAnswered \/ HandshakeBroken
    \/ \E k \in Legs : GoesSilent(k)

(***************************************************************************)
(* Dial's own steps are taken, its timers firing included, and a call      *)
(* blocked on a transport that has ended returns.  Nothing is assumed of   *)
(* the far ends, nor that the owner ever closes the connection.            *)
(***************************************************************************)
Spec == Init /\ [][Next]_vars
FairSpec == Spec /\ WF_vars(DialStep) /\ WF_vars(HopDropped \/ HandshakeBroken)

-----------------------------------------------------------------------------
\* Nothing outlives its owner (client.go:219-238, 314-316, 463-466).  A Dial that
\* failed at any step, and a connection that was closed, have left no agent socket,
\* transport, bastion or goroutine behind; while a connection is up, all it holds
\* is the target's transport and what its own Close will release.
NothingOutlivesItsOwner ==
    /\ pc = "returned" /\ result # "ok" => open = {} /\ helper = "none"
    /\ result = "ok" => /\ open \subseteq ToSet(closers) \union {Conn(Target)}
                        /\ \A k \in 1 .. Target : Conn(k) \in open

\* No leg is closed under a leg that runs through it, and no agent before the
\* leg whose signers it serves (client.go:463-467).
ReleaseOrder ==
    [][\A r \in open \ open' :
          IF r[1] = "agent" THEN Conn(r[2]) \notin open'
                            ELSE \A k \in r[2] + 1 .. Target : Conn(k) \notin open']_vars

\* Dial returns, whatever a host that never completed its handshake does, as
\* long as the bastions already crossed go on answering (client.go:244-260); and
\* opening a channel through the first bastion is bounded even when that bastion
\* has stopped answering (client.go:506-525).
DialReturns ==
    /\ [](silent \intersect established = {}) => <>(pc = "returned")
    /\ (pc = "dialing" /\ leg = 2) ~> (pc \notin {"dialing", "abortDial"})

\* The claim of client.go:287-290, that closing conn lets a stuck handshake
\* return.  It fails when conn is a channel of a bastion that stalled after it
\* opened it: the close is a request that bastion has to answer.
HandshakeBounded ==
    pc = "handshaking" ~> (pc \notin {"handshaking", "abortHandshake"})

=============================================================================

------------------------------- MODULE MCDial -------------------------------
(***************************************************************************)
(* The opening of a connection for TLC: Dial, leg by leg, and what becomes *)
(* of the key a host presents in the handshake of one (HostKeys).  A dial  *)
(* asks of a key only whether it is accepted, so that each runs with the   *)
(* other at rest, and the instance has the sum of their states.            *)
(***************************************************************************)
EXTENDS Dial

CONSTANTS Processes, Handshakes, ProcessOf, Hosts, Preference, MaxKeys, NoOne, NoKey

VARIABLES
    part, \* which of the two runs
    server, known, mu, handshake

\* Values a cfg cannot write.
Order == <<"ed25519", "rsa">>
OneProcess == [d \in Handshakes |-> "p"]

Trust == INSTANCE HostKeys WITH Connections <- Handshakes, conn <- handshake

ASSUME DialsAssumption == HopsAssumption /\ Trust!HostKeysAssumption

trustVars == <<server, known, mu, handshake>>
allVars == <<part, vars, trustVars>>

AllInit ==
    /\ part \in {"dial", "trust"}
    /\ Init /\ (part # "dial" => hops = 0)
    /\ Trust!Init
    /\ part # "trust" => known = {} /\ \A h \in Hosts, t \in Trust!Types : server[h][t] = 1

AllNext ==
    /\ UNCHANGED part
    /\ \/ part = "dial" /\ Next /\ UNCHANGED trustVars
       \/ part = "trust" /\ Trust!Next /\ UNCHANGED vars

\* As in Dial.  The callback of a handshake runs, and the mutex goes to a goroutine
\* that keeps waiting.
AllFairness ==
    /\ WF_vars(part = "dial" /\ DialStep)
    /\ WF_vars(part = "dial" /\ (HopDropped \/ HandshakeBroken))
    /\ \A d \in Handshakes :
          /\ WF_trustVars(part = "trust" /\ Trust!Dial(d))
          /\ SF_trustVars(part = "trust" /\ Trust!Lock(d))

AllSpec == AllInit /\ [][AllNext]_allVars /\ AllFairness

-----------------------------------------------------------------------------
\* A dial over hosts that answer comes to an end, and one that nobody answers does
\* when its time is up (client.go:243-254); a handshake gets its answer from the
\* callback, whatever it meets in known_hosts (knownhosts.go:34-70).
DialsReturn == (part = "dial" => DialReturns) /\ Trust!CallbackReturns

\* Whatever ssh left in known_hosts, a host is trusted over a recorded key alone, or as a
\* new one that is recorded, and refused over a changed one alone, unless the second read
\* of the file failed (knownhosts.go:34-70, 144-198).
KeysAreVerified == []Trust!HostKeysTypeOK /\ Trust!KeysAreVerified

=============================================================================

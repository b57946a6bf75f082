----------------------------- MODULE DialProofs -----------------------------
(***************************************************************************)
(* What a dial opens is released, and in order, for chains of any number   *)
(* of bastions.  The argument is one of accounting: at every step what is  *)
(* open is on the list that unwinding goes through, or is the one thing    *)
(* the step has in hand; and the list is a stack in which no leg lies      *)
(* under a leg it runs through.  And trust on first use, for any number of *)
(* handshakes of one process, of hosts and of types of keys: TrustInv is   *)
(* inductive given the types, and with it every verdict is the one         *)
(* KeysAreVerified asks for.                                               *)
(***************************************************************************)
EXTENDS MCDial, TLAPS

\* What is open and not on the list yet: an agent until its config is built, the leg
\* that is being connected, the target once Dial has returned it.
InHand ==
    (IF pc = "checks" THEN {Agent(leg)} ELSE {})
    \union (IF pc \in {"dialing", "handshake", "handshaking"} THEN {Conn(leg)} ELSE {})
    \union (IF result = "ok" THEN {Conn(Target)} ELSE {})

Accounted == open \subseteq ToSet(closers) \union InHand

\* How far Dial is, from what it has built.
Phases ==
    /\ result = "pending" <=> pc \notin {"unwinding", "returned"}
    /\ result = "ok" => pc = "returned"
    /\ pc = "returned" /\ result # "ok" => closers = <<>>
    /\ pc \in {"dialing", "abortDial"} => leg > 1
    /\ pc \in {"config", "checks"} => (leg = Target <=> closers = <<>>)
    /\ pc \in {"dial", "dialing", "abortDial", "handshake", "handshaking", "abortHandshake"}
          => closers # <<>>
    /\ helper # "none" <=> pc \in {"dialing", "abortDial", "handshaking", "abortHandshake"}
    /\ helper = "dialing" => pc \in {"dialing", "abortDial"}
    /\ helper = "handshaking" => pc \in {"handshaking", "abortHandshake"}

\* The legs under the one being built are up; a bastion that was given up on is not.
Upright ==
    /\ pc \in {"config", "checks", "dial", "dialing", "handshake", "handshaking"}
          /\ closers # <<>> => \A k \in 1 .. leg - 1 : Conn(k) \in open
    /\ pc \in {"handshake", "handshaking"} => Conn(leg) \in open
    /\ pc = "dialing" => (Conn(leg) \in open <=> helper = "ok")
    /\ pc = "abortDial" => Conn(leg - 1) \notin open
    /\ result = "ok" => \A k \in 1 .. Target : Conn(k) \in open

\* s may be released while r is still open.
Before(s, r) ==
    IF s[1] = "agent" THEN r # Conn(s[2]) ELSE ~(r[1] = "conn" /\ r[2] > s[2])

\* The list is released from its end, and each entry may be released before those it
\* lies on; the legs on it are below the one being built.
Stacked ==
    /\ \A i, j \in DOMAIN closers : i < j => Before(closers[j], closers[i])
    /\ result = "pending" =>
          \A i \in DOMAIN closers : closers[i][1] = "conn" => closers[i][2] < leg

DialInv == TypeOK /\ Accounted /\ Phases /\ Upright /\ Stacked

-----------------------------------------------------------------------------
\* A list with one entry more.
LEMMA Pushed ==
    ASSUME NEW s \in Seq(Resources), NEW r \in Resources
    PROVE  /\ Append(s, r) \in Seq(Resources) /\ Append(s, r) # <<>>
           /\ ToSet(Append(s, r)) = ToSet(s) \union {r}
           /\ DOMAIN Append(s, r) = DOMAIN s \union {Len(s) + 1}
           /\ \A i \in DOMAIN s : Append(s, r)[i] = s[i] /\ i < Len(s) + 1
           /\ Append(s, r)[Len(s) + 1] = r
  BY DEF ToSet

\* A list with one entry less.
LEMMA Popped ==
    ASSUME NEW s \in Seq(Resources), s # <<>>
    PROVE  /\ Front(s) \in Seq(Resources) /\ Last(s) \in Resources
           /\ ToSet(s) = ToSet(Front(s)) \union {Last(s)}
           /\ Len(s) \in DOMAIN s /\ s[Len(s)] = Last(s)
           /\ \A i \in DOMAIN Front(s) : i \in DOMAIN s /\ Front(s)[i] = s[i] /\ i < Len(s)
           /\ ToSet(Front(s)) = {s[i] : i \in 1 .. Len(s) - 1}
<1>1. /\ Len(s) \in Nat \ {0} /\ DOMAIN s = 1 .. Len(s)
      /\ Front(s) = [i \in 1 .. Len(s) - 1 |-> s[i]] /\ Last(s) = s[Len(s)]
  BY DEF Front, Last
<1>2. Front(s) \in Seq(Resources) /\ DOMAIN Front(s) = 1 .. Len(s) - 1
  BY <1>1
<1>3. QED
  BY <1>1, <1>2 DEF ToSet

\* Of resources, two are the same only if they are of one kind and one leg.
LEMMA Distinct ==
    \A j, k \in Legs : /\ Agent(j) \in Resources /\ Conn(j) \in Resources
                       /\ Agent(j) # Conn(k)
                       /\ Conn(j) = Conn(k) => j = k
                       /\ Agent(j)[1] = "agent" /\ Agent(j)[2] = j
                       /\ Conn(j)[1] = "conn" /\ Conn(j)[2] = j
  BY DEF Agent, Conn, Resources

-----------------------------------------------------------------------------
\* Where Dial begins.
LEMMA Begins == ASSUME HopsAssumption, Init PROVE DialInv
<1>1. TypeOK
  BY DEF Init, TypeOK, HopsAssumption, Target
<1>2. QED
  BY <1>1 DEF Init, DialInv, Accounted, Phases, Upright, Stacked, Target

\* What every step starts from.
LEMMA Facts ==
    ASSUME HopsAssumption, DialInv
    PROVE  /\ leg \in Legs /\ leg \in Nat /\ hops \in Nat /\ Target \in Legs /\ leg <= Target
           /\ \A k \in 1 .. Target : k \in Legs
           /\ Agent(leg) \in Resources /\ Conn(leg) \in Resources
           /\ closers \in Seq(Resources) /\ open \subseteq Resources
  BY DEF DialInv, TypeOK, Target, Legs, HopsAssumption, Agent, Conn, Resources

\* Every step keeps the accounts.
LEMMA Kept == ASSUME HopsAssumption, DialInv, [Next]_vars PROVE DialInv'
<1>0. /\ leg \in Legs /\ leg \in Nat /\ hops \in Nat /\ Target \in Legs /\ leg <= Target
      /\ \A k \in 1 .. Target : k \in Legs
      /\ Agent(leg) \in Resources /\ Conn(leg) \in Resources
      /\ closers \in Seq(Resources) /\ open \subseteq Resources
      /\ TypeOK /\ Accounted /\ Phases /\ Upright /\ Stacked
  BY Facts DEF DialInv
<1> USE DEF DialInv, config
<1>1. CASE OpenAgent
  <2>1. TypeOK'
    BY <1>0, <1>1 DEF OpenAgent, TypeOK, Target
  <2>2. Accounted'
    BY <1>0, <1>1 DEF OpenAgent, Accounted, InHand, Phases
  <2>3. Phases' /\ Upright' /\ Stacked'
    BY <1>0, <1>1 DEF OpenAgent, Phases, Upright, Stacked, Target
  <2>4. QED
    BY <2>1, <2>2, <2>3
<1>2. CASE ConfigFails
  <2>1. TypeOK'
    BY <1>0, <1>2 DEF ConfigFails, Fail, TypeOK, Target
  <2>2. Accounted'
    BY <1>0, <1>2 DEF ConfigFails, Fail, Accounted, InHand, Phases
  <2>3. Phases' /\ Upright' /\ Stacked'
    BY <1>0, <1>2 DEF ConfigFails, Fail, Phases, Upright, Stacked, Target
  <2>4. QED
    BY <2>1, <2>2, <2>3
<1>3. CASE ConfigBuilt
  <2>0. pc = "checks" /\ closers' = Append(closers, Agent(leg)) /\ UNCHANGED <<config, open, result, helper, established>>
    BY <1>3 DEF ConfigBuilt
  <2>1. /\ leg' = IF leg = Target THEN 1 ELSE leg
        /\ pc' = IF leg = Target /\ hops > 0 THEN "config" ELSE "dial"
    BY <1>0, <1>3 DEF ConfigBuilt
  <2>2. TypeOK'
    BY <1>0, <2>0, <2>1, Pushed DEF TypeOK, Target
  <2>3. Accounted'
    BY <1>0, <2>0, <2>1, Pushed DEF Accounted, InHand, Phases
  <2>4. Phases'
    BY <1>0, <2>0, <2>1, Pushed DEF Phases, Target
  <2>5. Upright'
    BY <1>0, <2>0, <2>1, Pushed DEF Phases, Upright, Target
  <2>6. Stacked'
    <3>1. \A i \in DOMAIN closers : Before(Agent(leg), closers[i])
      BY <1>0, <2>0, Distinct DEF Stacked, Before, Phases
    <3>2. \A i \in DOMAIN closers' : closers'[i][1] = "conn" => closers'[i][2] < leg'
      BY <1>0, <2>0, <2>1, Pushed, Distinct DEF Stacked, Phases
    <3>3. QED
      BY <1>0, <2>0, <3>1, <3>2, Pushed DEF Stacked
  <2>7. QED
    BY <2>2, <2>3, <2>4, <2>5, <2>6
<1>4. CASE FirstLegDialed
  <2>1. TypeOK'
    BY <1>0, <1>4 DEF FirstLegDialed, Fail, TypeOK, Target
  <2>2. Accounted'
    BY <1>0, <1>4 DEF FirstLegDialed, Fail, Accounted, InHand, Phases
  <2>3. Phases' /\ Upright' /\ Stacked'
    BY <1>0, <1>4 DEF FirstLegDialed, Fail, Phases, Upright, Stacked, Target
  <2>4. QED
    BY <2>1, <2>2, <2>3
<1>5. CASE HopDialStarts
  <2>1. TypeOK'
    BY <1>0, <1>5 DEF HopDialStarts, TypeOK, Target
  <2>2. Accounted'
    BY <1>0, <1>5 DEF HopDialStarts, Accounted, InHand, Phases
  <2>3. Conn(leg) \notin open
    <3>1. Conn(leg) \notin ToSet(closers)
      BY <1>0, <1>5, Distinct DEF HopDialStarts, Phases, Stacked, ToSet
    <3>2. QED
      BY <1>0, <1>5, <3>1 DEF HopDialStarts, Phases, Accounted, InHand
  <2>4. Phases' /\ Upright' /\ Stacked'
    BY <1>0, <1>5, <2>3 DEF HopDialStarts, Phases, Upright, Stacked, Target
  <2>5. QED
    BY <2>1, <2>2, <2>4
<1>6. CASE HopAnswers
  <2>1. pc = "dialing"
    <3>1. CASE pc = "abortDial"
      <4>1. leg - 1 \in 1 .. leg - 1 /\ Conn(leg - 1) \notin open
        BY <1>0, <3>1 DEF Phases, Upright
      <4>2. leg - 1 = 1 \/ Responsive(leg - 1 - 1)
        BY <1>0, <1>6, <4>1 DEF HopAnswers, Responsive
      <4>3. QED
        BY <1>6, <4>1, <4>2 DEF HopAnswers, Ended
    <3>2. QED
      BY <1>0, <1>6, <3>1 DEF HopAnswers, Phases
  <2>2. TypeOK'
    BY <1>0, <1>6 DEF HopAnswers, TypeOK, Target
  <2>3. Accounted'
    BY <1>0, <1>6, <2>1 DEF HopAnswers, Accounted, InHand, Phases
  <2>4. Phases' /\ Upright' /\ Stacked'
    BY <1>0, <1>6, <2>1 DEF HopAnswers, Phases, Upright, Stacked, Target
  <2>5. QED
    BY <2>2, <2>3, <2>4
<1>7. CASE HopDropped \/ HandshakeAnswered \/ HandshakeBroken
  <2>1. helper' \in {"ok", "error"} /\ UNCHANGED <<config, pc, leg, open, established, closers, result>>
    BY <1>7 DEF HopDropped, HandshakeAnswered, HandshakeBroken
  <2>2. helper' = "ok" => helper = "handshaking"
    BY <1>7 DEF HopDropped, HandshakeAnswered, HandshakeBroken
  <2>3. helper \in {"dialing", "handshaking"}
    BY <1>7 DEF HopDropped, HandshakeAnswered, HandshakeBroken
  <2>4. TypeOK' /\ Accounted'
    BY <1>0, <2>1 DEF TypeOK, Target, Accounted, InHand
  <2>5. Phases' /\ Upright' /\ Stacked'
    BY <1>0, <2>1, <2>2, <2>3 DEF Phases, Upright, Stacked, Target
  <2>6. QED
    BY <2>4, <2>5
<1>8. CASE HopDialReturns
  <2>1. TypeOK'
    BY <1>0, <1>8 DEF HopDialReturns, Fail, TypeOK, Target
  <2>2. Accounted'
    <3>1. helper = "error" => Conn(leg) \notin open
      BY <1>0, <1>8 DEF HopDialReturns, Upright
    <3>2. QED
      BY <1>0, <1>8, <3>1 DEF HopDialReturns, Fail, Accounted, InHand, Phases
  <2>3. Phases' /\ Upright' /\ Stacked'
    BY <1>0, <1>8 DEF HopDialReturns, Fail, Phases, Upright, Stacked, Target
  <2>4. QED
    BY <2>1, <2>2, <2>3
<1>9. CASE HopDialAborts
  <2>1. TypeOK'
    BY <1>0, <1>9 DEF HopDialAborts, TypeOK, Target
  <2>2. Accounted'
    BY <1>0, <1>9 DEF HopDialAborts, Accounted, InHand, Phases
  <2>3. Phases' /\ Upright' /\ Stacked'
    BY <1>0, <1>9 DEF HopDialAborts, Phases, Upright, Stacked, Target
  <2>4. QED
    BY <2>1, <2>2, <2>3
<1>10. CASE HopDialAborted \/ HandshakeAborted
  <2>1. TypeOK'
    BY <1>0, <1>10 DEF HopDialAborted, HandshakeAborted, Fail, TypeOK, Target
  <2>2. Accounted'
    BY <1>0, <1>10 DEF HopDialAborted, HandshakeAborted, Fail, Accounted, InHand, Phases
  <2>3. Phases' /\ Upright' /\ Stacked'
    BY <1>0, <1>10 DEF HopDialAborted, HandshakeAborted, Fail, Phases, Upright, Stacked,
                       Target
  <2>4. QED
    BY <2>1, <2>2, <2>3
<1>11. CASE HandshakeStarts
  <2>1. TypeOK'
    BY <1>0, <1>11 DEF HandshakeStarts, TypeOK, Target
  <2>2. Accounted'
    BY <1>0, <1>11 DEF HandshakeStarts, Accounted, InHand, Phases
  <2>3. Phases' /\ Upright' /\ Stacked'
    BY <1>0, <1>11 DEF HandshakeStarts, Phases, Upright, Stacked, Target
  <2>4. QED
    BY <2>1, <2>2, <2>3
<1>12. CASE HandshakeSucceeds
  <2>1. pc = "handshaking" /\ helper' = "none" /\ UNCHANGED <<config, open>>
        /\ established' = established \union {leg}
    BY <1>12 DEF HandshakeSucceeds
  <2>2. CASE leg = Target
    <3>1. pc' = "returned" /\ result' = "ok" /\ UNCHANGED <<leg, closers>>
      BY <1>12, <2>2 DEF HandshakeSucceeds
    <3>2. TypeOK'
      BY <1>0, <2>1, <3>1 DEF TypeOK, Target
    <3>3. Accounted'
      BY <1>0, <2>1, <2>2, <3>1 DEF Accounted, InHand, Target
    <3>4. Phases' /\ Stacked'
      BY <1>0, <2>1, <3>1 DEF Phases, Stacked
    <3>5. Upright'
      BY <1>0, <2>1, <2>2, <3>1 DEF Upright, Phases, Target
    <3>6. QED
      BY <3>2, <3>3, <3>4, <3>5
  <2>3. CASE leg # Target
    <3>1. /\ closers' = Append(closers, Conn(leg)) /\ leg' = leg + 1 /\ result' = result
          /\ pc' = IF leg + 1 = Target THEN "dial" ELSE "config"
      BY <1>12, <2>3 DEF HandshakeSucceeds
    <3>2. TypeOK'
      BY <1>0, <2>1, <2>3, <3>1, Pushed DEF TypeOK, Target
    <3>3. Accounted'
      BY <1>0, <2>1, <3>1, Pushed DEF Accounted, InHand, Phases
    <3>4. Phases'
      BY <1>0, <2>1, <3>1, Pushed DEF Phases, Target
    <3>5. Upright'
      BY <1>0, <2>1, <3>1 DEF Upright, Phases, Target
    <3>6. Stacked'
      <4>1. \A i \in DOMAIN closers : Before(Conn(leg), closers[i])
        BY <1>0, <2>1, Distinct DEF Stacked, Before, Phases, TypeOK, Resources, Legs
      <4>2. \A i \in DOMAIN closers' : closers'[i][1] = "conn" => closers'[i][2] < leg'
        <5>1. \A i \in DOMAIN closers : closers[i][2] \in Nat
          BY <1>0 DEF Resources, Legs
        <5>2. \A i \in DOMAIN closers : closers[i][1] = "conn" => closers[i][2] < leg
          BY <1>0, <2>1 DEF Stacked, Phases
        <5>3. QED
          BY <1>0, <3>1, <5>1, <5>2, Pushed, Distinct
      <4>3. QED
        BY <1>0, <3>1, <4>1, <4>2, Pushed DEF Stacked
    <3>7. QED
      BY <3>2, <3>3, <3>4, <3>5, <3>6
  <2>4. QED
    BY <2>2, <2>3
<1>13. CASE HandshakeFails
  <2>1. TypeOK'
    BY <1>0, <1>13 DEF HandshakeFails, Fail, TypeOK, Target
  <2>2. Accounted'
    BY <1>0, <1>13 DEF HandshakeFails, Fail, Accounted, InHand, Phases
  <2>3. Phases' /\ Upright' /\ Stacked'
    BY <1>0, <1>13 DEF HandshakeFails, Fail, Phases, Upright, Stacked, Target
  <2>4. QED
    BY <2>1, <2>2, <2>3
<1>14. CASE HandshakeAborts
  <2>1. TypeOK'
    BY <1>0, <1>14 DEF HandshakeAborts, TypeOK, Target
  <2>2. Accounted'
    BY <1>0, <1>14 DEF HandshakeAborts, Accounted, InHand, Phases
  <2>3. Phases' /\ Upright' /\ Stacked'
    BY <1>0, <1>14 DEF HandshakeAborts, Phases, Upright, Stacked, Target
  <2>4. QED
    BY <2>1, <2>2, <2>3
<1>15. CASE Unwind
  <2>1. result \in {"error", "closed"} /\ UNCHANGED <<config, leg, established, helper, result>>
        /\ pc = "unwinding"
    BY <1>0, <1>15 DEF Unwind, Phases, TypeOK
  <2>2. CASE closers = <<>>
    <3>1. pc' = "returned" /\ UNCHANGED <<open, closers>>
      BY <1>15, <2>2 DEF Unwind
    <3>2. TypeOK' /\ Accounted'
      BY <1>0, <2>1, <3>1 DEF TypeOK, Target, Accounted, InHand
    <3>3. Phases' /\ Upright' /\ Stacked'
      BY <1>0, <2>1, <2>2, <3>1 DEF Phases, Upright, Stacked
    <3>4. QED
      BY <3>2, <3>3
  <2>3. CASE closers # <<>>
    <3>1. pc' = pc /\ open' = open \ {Last(closers)} /\ closers' = Front(closers)
      BY <1>15, <2>3 DEF Unwind
    <3>2. TypeOK'
      BY <1>0, <2>1, <2>3, <3>1, Popped DEF TypeOK, Target
    <3>3. Accounted'
      BY <1>0, <2>1, <2>3, <3>1, Popped DEF Accounted, InHand
    <3>4. Phases' /\ Upright'
      BY <1>0, <2>1, <3>1 DEF Phases, Upright
    <3>5. Stacked'
      BY <1>0, <2>1, <2>3, <3>1, Popped DEF Stacked
    <3>6. QED
      BY <3>2, <3>3, <3>4, <3>5
  <2>4. QED
    BY <2>2, <2>3
<1>16. CASE CloseClient
  <2>1. TypeOK'
    BY <1>0, <1>16 DEF CloseClient, TypeOK, Target
  <2>2. Accounted'
    BY <1>0, <1>16 DEF CloseClient, Accounted, InHand, Target
  <2>3. Phases' /\ Upright' /\ Stacked'
    BY <1>0, <1>16 DEF CloseClient, Phases, Upright, Stacked, Target
  <2>4. QED
    BY <2>1, <2>2, <2>3
<1>17. ASSUME NEW k \in Legs, GoesSilent(k) PROVE DialInv'
  <2>1. TypeOK' /\ Accounted'
    BY <1>0, <1>17 DEF GoesSilent, TypeOK, Target, Accounted, InHand
  <2>2. Phases' /\ Upright' /\ Stacked'
    BY <1>0, <1>17 DEF GoesSilent, Phases, Upright, Stacked, Target
  <2>3. QED
    BY <2>1, <2>2
<1>18. CASE UNCHANGED vars
  <2>1. TypeOK' /\ Accounted'
    BY <1>0, <1>18 DEF vars, TypeOK, Target, Accounted, InHand
  <2>2. Phases' /\ Upright' /\ Stacked'
    BY <1>0, <1>18 DEF vars, Phases, Upright, Stacked, Target
  <2>3. QED
    BY <2>1, <2>2
<1>19. QED
  BY <1>1, <1>2, <1>3, <1>4, <1>5, <1>6, <1>7, <1>8, <1>9, <1>10, <1>11, <1>12, <1>13, <1>14,
     <1>15, <1>16, <1>17, <1>18
  DEF Next, DialStep

\* The types, and the accounts.
THEOREM Books == HopsAssumption => (Spec => []DialInv)
<1> SUFFICES ASSUME HopsAssumption PROVE Spec => []DialInv
  OBVIOUS
<1>1. Init => DialInv
  BY Begins
<1>2. DialInv /\ [Next]_vars => DialInv'
  BY Kept
<1>3. QED
  BY <1>1, <1>2, PTL DEF Spec

\* A dial is well typed: it never goes on to a leg past the target (client.go:448-480).
THEOREM Typing == HopsAssumption => (Spec => []TypeOK)
<1> SUFFICES ASSUME HopsAssumption PROVE Spec => []TypeOK
  OBVIOUS
<1>1. DialInv => TypeOK
  BY DEF DialInv
<1>2. QED
  BY <1>1, Books, PTL

\* Nothing outlives its owner: a Dial that failed at any step, and a connection that was
\* closed, have left nothing open and no goroutine; a connection that is up holds its
\* legs, and what is open is what its Close will release (client.go:219-238, 463-466).
THEOREM NothingLeft == HopsAssumption => (Spec => []NothingOutlivesItsOwner)
<1> SUFFICES ASSUME HopsAssumption PROVE Spec => []NothingOutlivesItsOwner
  OBVIOUS
<1>1. DialInv => NothingOutlivesItsOwner
  <2> SUFFICES ASSUME DialInv PROVE NothingOutlivesItsOwner
    OBVIOUS
  <2>1. ToSet(<<>>) = {}
    BY DEF ToSet
  <2>2. pc = "returned" /\ result # "ok" => open = {} /\ helper = "none"
    BY <2>1 DEF DialInv, Accounted, InHand, Phases
  <2>3. result = "ok" => open \subseteq ToSet(closers) \union {Conn(Target)}
    BY DEF DialInv, Accounted, InHand, Phases
  <2>4. result = "ok" => \A k \in 1 .. Target : Conn(k) \in open
    BY DEF DialInv, Upright
  <2>5. QED
    BY <2>2, <2>3, <2>4 DEF NothingOutlivesItsOwner
<1>2. QED
  BY <1>1, Books, PTL

\* What is released is never under something that is open: no leg before the legs
\* that run through it, and no agent before the leg whose signers it serves
\* (client.go:463-467).
THEOREM InOrder == HopsAssumption => (Spec => ReleaseOrder)
<1> SUFFICES ASSUME HopsAssumption PROVE Spec => ReleaseOrder
  OBVIOUS
<1> DEFINE Safely(r) == IF r[1] = "agent" THEN Conn(r[2]) \notin open'
                        ELSE \A k \in r[2] + 1 .. Target : Conn(k) \notin open'
           Ordered == \A r \in open \ open' : Safely(r)
<1>1. DialInv /\ [Next]_vars => [Ordered]_vars
  <2> SUFFICES ASSUME DialInv, [Next]_vars PROVE Ordered
    OBVIOUS
  <2>0. /\ leg \in Legs /\ leg \in Nat /\ hops \in Nat /\ Target \in Legs /\ leg <= Target
        /\ \A k \in 1 .. Target : k \in Legs
        /\ closers \in Seq(Resources) /\ open \subseteq Resources
        /\ Accounted /\ Phases /\ Upright /\ Stacked
    BY Facts DEF DialInv
  <2>1. \A k \in Legs : Conn(k) \in ToSet(closers) /\ result = "pending" => k < leg
    <3>1. SUFFICES ASSUME NEW k \in Legs, Conn(k) \in ToSet(closers), result = "pending"
                   PROVE  k < leg
      OBVIOUS
    <3>2. PICK i \in DOMAIN closers : closers[i] = Conn(k)
      BY <3>1 DEF ToSet
    <3>3. closers[i][1] = "conn" /\ closers[i][2] = k
      BY <3>2, Distinct
    <3>4. QED
      BY <2>0, <3>1, <3>3 DEF Stacked
  <2>2. CASE open \subseteq open'
    BY <2>2
  <2>3. CASE ConfigFails
    <3>1. \A r \in open \ open' : r = Agent(leg)
      BY <2>3 DEF ConfigFails
    <3>2. Conn(leg) \notin open
      BY <2>0, <2>1, <2>3, Distinct DEF ConfigFails, Accounted, InHand, Phases
    <3>3. QED
      BY <2>0, <2>3, <3>1, <3>2, Distinct DEF ConfigFails
  <2>4. CASE HopDialAborts
    <3>1. /\ pc = "dialing" /\ result = "pending" /\ open' = open \ {Conn(leg - 1), Conn(leg)}
          /\ leg - 1 \in Legs
      BY <2>0, <2>4 DEF HopDialAborts, Phases, Legs
    <3>2. \A k \in Legs : Conn(k) \in open => k <= leg
      BY <2>0, <2>1, <3>1, Distinct DEF Accounted, InHand
    <3>3. \A k \in Legs : k >= leg => Conn(k) \notin open'
      BY <2>0, <3>1, <3>2, Distinct DEF Legs
    <3>4. \A r \in open \ open' : r[1] = "conn" /\ r[2] \in {leg - 1, leg}
      BY <2>0, <3>1, Distinct
    <3>5. QED
      BY <2>0, <3>3, <3>4 DEF Legs
  <2>5. CASE HandshakeFails \/ HandshakeAborts
    <3>1. /\ pc = "handshaking" /\ result = "pending" /\ open' = open \ {Conn(leg)}
      BY <2>0, <2>5 DEF HandshakeFails, HandshakeAborts, Phases
    <3>2. \A k \in Legs : Conn(k) \in open => k <= leg
      BY <2>0, <2>1, <3>1, Distinct DEF Accounted, InHand
    <3>3. \A r \in open \ open' : r[1] = "conn" /\ r[2] = leg
      BY <2>0, <3>1, Distinct
    <3>4. \A k \in leg + 1 .. Target : Conn(k) \notin open'
      BY <2>0, <3>1, <3>2
    <3>5. QED
      BY <3>3, <3>4
  <2>6. CASE Unwind /\ closers # <<>>
    <3>1. /\ open' = open \ {Last(closers)} /\ result # "pending" /\ result # "ok"
          /\ pc = "unwinding"
      BY <2>0, <2>6 DEF Unwind, Phases
    <3>2. open \subseteq ToSet(closers)
      BY <2>0, <3>1 DEF Accounted, InHand
    <3>3. \A q \in open' : \E i \in 1 .. Len(closers) - 1 : q = closers[i]
      BY <2>0, <2>6, <3>1, <3>2, Popped
    <3>4. \A q \in open' : Before(Last(closers), q)
      BY <2>0, <2>6, <3>3, Popped DEF Stacked
    <3>5. Last(closers) \in Resources
      BY <2>0, <2>6, Popped
    <3>6. Safely(Last(closers))
      BY <2>0, <3>4, <3>5, Distinct DEF Before, Resources, Legs
    <3>7. QED
      BY <3>1, <3>6
  <2>7. CASE CloseClient
    <3>1. \A r \in open \ open' : r = Conn(Target)
      BY <2>7 DEF CloseClient
    <3>2. QED
      BY <2>0, <3>1, Distinct
  <2>8. QED
    BY <2>2, <2>3, <2>4, <2>5, <2>6, <2>7
    DEF Next, DialStep, vars, OpenAgent, ConfigBuilt, FirstLegDialed, HopDialStarts,
        HopDialReturns,
        HopDialAborted, HandshakeStarts, HandshakeSucceeds, HandshakeAborted, Unwind, HopAnswers,
        HopDropped, HandshakeAnswered, HandshakeBroken, GoesSilent
<1>2. QED
  BY <1>1, Books, PTL DEF Spec, ReleaseOrder

-----------------------------------------------------------------------------
\* All connections share the mutex.
SharedMutex == \A c, d \in Handshakes : ProcessOf[c] = ProcessOf[d]

\* A host has one type that it prefers.
LEMMA ForemostIsOne ==
    ASSUME Trust!HostKeysAssumption, NEW keys, NEW s \in Trust!Foremost(keys),
           NEW t \in Trust!Foremost(keys)
    PROVE  s = t
<1>1. DOMAIN Preference \subseteq Nat
  BY DEF Trust!HostKeysAssumption
<1>2. PICK k \in Trust!Had(keys) : s = Preference[k] /\ \A n \in Trust!Had(keys) : k <= n
  BY DEF Trust!Foremost
<1>3. PICK m \in Trust!Had(keys) : t = Preference[m] /\ \A n \in Trust!Had(keys) : m <= n
  BY DEF Trust!Foremost
<1>4. k \in Nat /\ m \in Nat /\ k <= m /\ m <= k
  BY <1>1, <1>2, <1>3 DEF Trust!Had
<1>5. QED
  BY <1>2, <1>3, <1>4

\* A host presents a key it has, of a type asked for or of the one it gives to all.
LEMMA Presented ==
    ASSUME Trust!HostKeysAssumption, Trust!HostKeysTypeOK, NEW c \in Handshakes, Trust!Present(c),
           handshake'[c].pc # "failed"
    PROVE  \E key \in Trust!Keys :
              /\ handshake' = [handshake EXCEPT ![c].pc = "presented", ![c].key = key]
              /\ key.type \in IF handshake[c].algos = {}
                              THEN Trust!Foremost(server[handshake[c].host])
                              ELSE handshake[c].algos
<1> DEFINE h == handshake[c].host
           common == IF handshake[c].algos = {} THEN Trust!Foremost(server[h])
                     ELSE {type \in handshake[c].algos : server[h][type] # 0}
<1>1. ~ Trust!Goto(c, "failed")
  BY DEF Trust!Goto, Trust!HostKeysTypeOK, Trust!Dials
<1>2. PICK type \in common :
         handshake' = [handshake EXCEPT ![c].pc = "presented", ![c].key = Trust!KeyOf(h, type)]
  BY <1>1 DEF Trust!Present
<1>3. h \in Hosts /\ handshake[c].algos \subseteq Trust!Types
  BY DEF Trust!HostKeysTypeOK, Trust!Dials
<1>4. type \in Trust!Types /\ server[h][type] # 0
  <2>1. CASE handshake[c].algos = {}
    <3>1. PICK k \in Trust!Had(server[h]) : type = Preference[k]
      BY <1>2, <2>1 DEF Trust!Foremost
    <3>2. QED
      BY <3>1 DEF Trust!Had, Trust!Types
  <2>2. CASE handshake[c].algos # {}
    BY <1>2, <1>3, <2>2
  <2>3. QED
    BY <2>1, <2>2
<1>5. server[h][type] \in 1..MaxKeys
  <2>1. server[h][type] \in 0..MaxKeys
    BY <1>3, <1>4 DEF Trust!HostKeysTypeOK
  <2> HIDE DEF h
  <2>2. QED
    BY <2>1, <1>4 DEF Trust!HostKeysAssumption
<1>6. Trust!KeyOf(h, type) \in Trust!Keys /\ Trust!KeyOf(h, type).type = type
  BY <1>4, <1>5 DEF Trust!KeyOf, Trust!Keys
<1>7. type \in IF handshake[c].algos = {} THEN Trust!Foremost(server[h]) ELSE handshake[c].algos
  BY <1>2
<1>8. QED
  BY <1>2, <1>6, <1>7

\* A step to another stage is one of the same Dial.
LEMMA GotoStep ==
    ASSUME Trust!HostKeysTypeOK, NEW c \in Handshakes, NEW stage \in Trust!Stages, Trust!Goto(c, stage)
    PROVE  /\ handshake' \in [Handshakes -> Trust!Dials]
           /\ handshake'[c] = [handshake[c] EXCEPT !.pc = stage]
           /\ \A d \in Handshakes \ {c} : handshake'[d] = handshake[d]
  BY DEF Trust!HostKeysTypeOK, Trust!Goto, Trust!Dials

LEMMA VerdictIsAStage ==
    ASSUME NEW S, NEW h, NEW key
    PROVE  Trust!Verdict(S, h, key) # "unknown" => Trust!Verdict(S, h, key) \in Trust!Stages
  BY DEF Trust!Verdict, Trust!Stages

\* Every variable keeps its type.
LEMMA TypeStep ==
    ASSUME Trust!HostKeysAssumption, Trust!HostKeysTypeOK, Trust!KeyIsOfAType, [Trust!Next]_(Trust!vars)
    PROVE  Trust!HostKeysTypeOK'
<1>1. ASSUME NEW h \in Hosts, NEW type \in Trust!Types, Trust!HostRekeys(h, type)
      PROVE  Trust!HostKeysTypeOK'
  <2>1. server' \in [Hosts -> [Trust!Types -> 0..MaxKeys]]
    BY <1>1 DEF Trust!HostRekeys, Trust!HostKeysAssumption, Trust!HostKeysTypeOK
  <2>2. QED
    BY <1>1, <2>1 DEF Trust!HostRekeys, Trust!HostKeysTypeOK
<1>2. ASSUME NEW c \in Handshakes, Trust!TakeSnapshot(c)
      PROVE  Trust!HostKeysTypeOK'
  <2>1. handshake[c] \in Trust!Dials /\ known \in SUBSET Trust!Entries
    BY DEF Trust!HostKeysTypeOK
  <2>2. CASE Trust!Goto(c, "failed")
    BY <1>2, <2>2, GotoStep DEF Trust!TakeSnapshot, Trust!HostKeysTypeOK, Trust!Stages
  <2>3. CASE handshake' = [handshake EXCEPT ![c].pc = "snapshot", ![c].seen = known]
    <3>1. [handshake[c] EXCEPT !.pc = "snapshot", !.seen = known] \in Trust!Dials
      BY <2>1 DEF Trust!Dials, Trust!Stages
    <3>2. handshake' = [handshake EXCEPT ![c] = [handshake[c] EXCEPT !.pc = "snapshot", !.seen = known]]
      BY <2>1, <2>3 DEF Trust!HostKeysTypeOK, Trust!Dials
    <3>3. handshake' \in [Handshakes -> Trust!Dials]
      BY <3>1, <3>2 DEF Trust!HostKeysTypeOK
    <3>4. QED
      BY <1>2, <3>3 DEF Trust!TakeSnapshot, Trust!HostKeysTypeOK
  <2>4. QED
    BY <1>2, <2>2, <2>3 DEF Trust!TakeSnapshot
<1>3. ASSUME NEW c \in Handshakes, Trust!ReadAlgorithms(c)
      PROVE  Trust!HostKeysTypeOK'
  <2>1. {e.key.type : e \in {f \in known : f.host = handshake[c].host}} \in SUBSET Trust!Types
    BY DEF Trust!Entries, Trust!Keys, Trust!HostKeysTypeOK
  <2>2. PICK types \in SUBSET Trust!Types :
           handshake' = [handshake EXCEPT ![c].pc = "dialing", ![c].algos = types]
    BY <1>3, <2>1 DEF Trust!ReadAlgorithms
  <2>3. handshake[c] \in Trust!Dials
    BY DEF Trust!HostKeysTypeOK
  <2>4. handshake' = [handshake EXCEPT ![c] = [handshake[c] EXCEPT !.pc = "dialing", !.algos = types]]
    BY <2>2, <2>3 DEF Trust!HostKeysTypeOK, Trust!Dials
  <2>5. [handshake[c] EXCEPT !.pc = "dialing", !.algos = types] \in Trust!Dials
    BY <2>3 DEF Trust!Dials, Trust!Stages
  <2>6. handshake' \in [Handshakes -> Trust!Dials]
    BY <2>4, <2>5 DEF Trust!HostKeysTypeOK
  <2>7. QED
    BY <1>3, <2>6 DEF Trust!ReadAlgorithms, Trust!HostKeysTypeOK
<1>4. ASSUME NEW c \in Handshakes, Trust!Present(c)
      PROVE  Trust!HostKeysTypeOK'
  <2>1. CASE handshake'[c].pc = "failed"
    <3>1. Trust!Goto(c, "failed")
      BY <1>4, <2>1 DEF Trust!Present, Trust!Goto, Trust!HostKeysTypeOK, Trust!Dials
    <3>2. QED
      BY <1>4, <3>1, GotoStep DEF Trust!Present, Trust!HostKeysTypeOK, Trust!Stages
  <2>2. CASE handshake'[c].pc # "failed"
    <3>1. PICK key \in Trust!Keys : handshake' = [handshake EXCEPT ![c].pc = "presented", ![c].key = key]
      BY <1>4, <2>2, Presented
    <3>2. handshake' \in [Handshakes -> Trust!Dials]
      <4>1. handshake[c] \in Trust!Dials
        BY DEF Trust!HostKeysTypeOK
      <4>2. [handshake[c] EXCEPT !.pc = "presented", !.key = key] \in Trust!Dials
        BY <4>1 DEF Trust!Dials, Trust!Stages
      <4>3. handshake' = [handshake EXCEPT ![c] = [handshake[c] EXCEPT !.pc = "presented", !.key = key]]
        BY <3>1, <4>1 DEF Trust!HostKeysTypeOK, Trust!Dials
      <4>4. QED
        BY <4>2, <4>3 DEF Trust!HostKeysTypeOK
    <3>3. QED
      BY <1>4, <3>2 DEF Trust!Present, Trust!HostKeysTypeOK
  <2>3. QED
    BY <2>1, <2>2
<1>5. ASSUME NEW c \in Handshakes, Trust!VerifySnapshot(c)
      PROVE  Trust!HostKeysTypeOK'
  <2>1. PICK stage \in Trust!Stages : Trust!Goto(c, stage)
    BY <1>5, VerdictIsAStage DEF Trust!VerifySnapshot, Trust!Stages
  <2>2. QED
    BY <1>5, <2>1, GotoStep DEF Trust!VerifySnapshot, Trust!HostKeysTypeOK
<1>6. ASSUME NEW c \in Handshakes, Trust!Lock(c)
      PROVE  Trust!HostKeysTypeOK'
  <2>1. mu' \in [Processes -> Handshakes \union {NoOne}]
    BY <1>6 DEF Trust!Lock, Trust!HostKeysTypeOK
  <2>2. QED
    BY <1>6, <2>1, GotoStep DEF Trust!Lock, Trust!HostKeysTypeOK, Trust!Stages
<1>7. ASSUME NEW c \in Handshakes, Trust!Reread(c)
      PROVE  Trust!HostKeysTypeOK'
  <2>1. PICK stage \in Trust!Stages : Trust!Goto(c, stage)
    BY <1>7, VerdictIsAStage DEF Trust!Reread, Trust!Stages
  <2>2. mu' \in [Processes -> Handshakes \union {NoOne}]
    BY <1>7 DEF Trust!Reread, Trust!Unlock, Trust!HostKeysTypeOK
  <2>3. QED
    BY <1>7, <2>1, <2>2, GotoStep DEF Trust!Reread, Trust!HostKeysTypeOK
<1>8. ASSUME NEW c \in Handshakes, Trust!Record(c)
      PROVE  Trust!HostKeysTypeOK'
  <2>1. [host |-> handshake[c].host, key |-> handshake[c].key] \in Trust!Entries
    BY <1>8 DEF Trust!Record, Trust!KeyIsOfAType, Trust!KeyIsRight, Trust!UnderWay,
                Trust!HostKeysTypeOK, Trust!Dials, Trust!Entries
  <2>2. known' \subseteq Trust!Entries
    BY <1>8, <2>1 DEF Trust!Record, Trust!HostKeysTypeOK
  <2>3. mu' \in [Processes -> Handshakes \union {NoOne}]
    BY <1>8 DEF Trust!Record, Trust!Unlock, Trust!HostKeysTypeOK
  <2>4. PICK stage \in Trust!Stages : Trust!Goto(c, stage)
    BY <1>8 DEF Trust!Record, Trust!Stages
  <2>5. QED
    BY <1>8, <2>2, <2>3, <2>4, GotoStep DEF Trust!Record, Trust!HostKeysTypeOK
<1>9. CASE UNCHANGED Trust!vars
  BY <1>9 DEF Trust!vars, Trust!HostKeysTypeOK
<1>10. QED
  BY <1>1, <1>2, <1>3, <1>4, <1>5, <1>6, <1>7, <1>8, <1>9 DEF Trust!Next, Trust!Dial

\* A Dial that goes on to its next stage, or ends, with nothing written.
LEMMA StageStep ==
    ASSUME Trust!HostKeysTypeOK, Trust!TrustInv, NEW c \in Handshakes, NEW stage \in Trust!Stages,
           Trust!Goto(c, stage), UNCHANGED <<server, known>>,
           stage \in Trust!UnderWay => handshake[c].pc \in Trust!UnderWay \ {"snapshot", "dialing"},
           stage = "accepted" => [host |-> handshake[c].host, key |-> handshake[c].key] \in known
    PROVE  /\ Trust!SnapshotsAreWhole' /\ Trust!RecordsAreForemost' /\ Trust!AsksForRecorded'
           /\ Trust!KeyIsOfAType' /\ Trust!AcceptedIsRecorded'
<1>1. /\ \A d \in Handshakes \ {c} : handshake'[d] = handshake[d]
      /\ handshake[c] \in Trust!Dials /\ handshake'[c] = [handshake[c] EXCEPT !.pc = stage]
  BY GotoStep DEF Trust!HostKeysTypeOK
<1>2. /\ handshake'[c].pc = stage
      /\ \A d \in Handshakes :
            /\ handshake'[d].host = handshake[d].host /\ handshake'[d].key = handshake[d].key
            /\ handshake'[d].seen = handshake[d].seen /\ handshake'[d].algos = handshake[d].algos
  BY <1>1 DEF Trust!Dials
<1>3. Trust!SnapshotsAreWhole' /\ Trust!AsksForRecorded'
  BY <1>2 DEF Trust!TrustInv, Trust!SnapshotsAreWhole, Trust!AsksForRecorded, Trust!OnRecord
<1>4. Trust!RecordsAreForemost'
  <2>1. \A d \in Handshakes : handshake'[d].pc \in Trust!UnderWay => handshake[d].pc \in Trust!UnderWay
    BY <1>1, <1>2
  <2>2. QED
    BY <1>2, <2>1 DEF Trust!TrustInv, Trust!RecordsAreForemost, Trust!OnRecord
<1>5. Trust!KeyIsOfAType'
  <2> SUFFICES ASSUME NEW d \in Handshakes, handshake'[d].pc \in Trust!UnderWay \ {"snapshot", "dialing"}
               PROVE  Trust!KeyIsRight(d)'
    BY DEF Trust!KeyIsOfAType
  <2>1. handshake[d].pc \in Trust!UnderWay \ {"snapshot", "dialing"}
    BY <1>1, <1>2
  <2>2. QED
    BY <1>2, <2>1 DEF Trust!TrustInv, Trust!KeyIsOfAType, Trust!KeyIsRight
<1>6. Trust!AcceptedIsRecorded'
  BY <1>1, <1>2 DEF Trust!TrustInv, Trust!AcceptedIsRecorded
<1>7. QED
  BY <1>3, <1>4, <1>5, <1>6

\* Only one connection at a time is past the mutex.
LEMMA MutexStep ==
    ASSUME Trust!HostKeysAssumption, SharedMutex, Trust!HostKeysTypeOK, Trust!MutexHeld,
           NEW c \in Handshakes, NEW stage \in Trust!Stages, Trust!Goto(c, stage), UNCHANGED known,
           \/ /\ stage \notin {"locked", "recording"}
              /\ mu' = mu \/ (Trust!Unlock(c) /\ handshake[c].pc \in {"locked", "recording"})
           \/ /\ stage = "locked" /\ mu[ProcessOf[c]] = NoOne
              /\ mu' = [mu EXCEPT ![ProcessOf[c]] = c]
           \/ /\ stage = "recording" /\ handshake[c].pc = "locked" /\ mu' = mu
              /\ Trust!OnRecord(known, handshake[c].host) = {}
    PROVE  Trust!MutexHeld'
<1>1. /\ \A d \in Handshakes \ {c} : handshake'[d] = handshake[d]
      /\ handshake[c] \in Trust!Dials /\ handshake'[c] = [handshake[c] EXCEPT !.pc = stage]
  BY GotoStep DEF Trust!HostKeysTypeOK
<1>2. handshake'[c].pc = stage /\ handshake'[c].host = handshake[c].host
  BY <1>1 DEF Trust!Dials
<1>3. \A d \in Handshakes : ProcessOf[d] \in Processes /\ ProcessOf[d] = ProcessOf[c]
  BY DEF Trust!HostKeysAssumption, SharedMutex
<1>4. \A d \in Handshakes : handshake[d].pc \in {"locked", "recording"} => mu[ProcessOf[c]] = d
  BY <1>3 DEF Trust!MutexHeld
<1>5. \A d \in Handshakes :
         handshake'[d].pc \in {"locked", "recording"} => mu'[ProcessOf[c]] = d
  <2>1. \A d \in Handshakes \ {c} :
           handshake'[d].pc \in {"locked", "recording"} => mu[ProcessOf[c]] = d
    BY <1>1, <1>4
  <2>2. NoOne \notin Handshakes
    BY DEF Trust!HostKeysAssumption
  <2>3. CASE stage \notin {"locked", "recording"} /\ mu' = mu
    BY <1>2, <2>1, <2>3
  <2>4. CASE stage \notin {"locked", "recording"} /\ handshake[c].pc \in {"locked", "recording"}
    BY <1>2, <1>4, <2>1, <2>4
  <2>5. CASE stage = "locked" /\ mu[ProcessOf[c]] = NoOne /\ mu' = [mu EXCEPT ![ProcessOf[c]] = c]
    <3>1. mu'[ProcessOf[c]] = c
      BY <1>3, <2>5 DEF Trust!HostKeysTypeOK
    <3>2. QED
      BY <2>1, <2>2, <2>5, <3>1
  <2>6. CASE stage = "recording" /\ handshake[c].pc = "locked" /\ mu' = mu
    BY <1>4, <2>1, <2>6
  <2>7. QED
    BY <2>3, <2>4, <2>5, <2>6
<1>6. ASSUME NEW d \in Handshakes, handshake'[d].pc = "recording"
      PROVE  Trust!OnRecord(known', handshake'[d].host) = {}
  <2>1. CASE d = c
    BY <1>2, <1>6, <2>1 DEF Trust!MutexHeld
  <2>2. CASE d # c
    BY <1>1, <1>6, <2>2 DEF Trust!MutexHeld
  <2>3. QED
    BY <2>1, <2>2
<1>7. QED
  <2> SUFFICES ASSUME NEW d \in Handshakes
               PROVE  /\ handshake'[d].pc \in {"locked", "recording"} => mu'[ProcessOf[d]] = d
                      /\ handshake'[d].pc = "recording" =>
                            Trust!OnRecord(known', handshake'[d].host) = {}
    BY DEF Trust!MutexHeld
  <2>1. QED
    BY <1>3, <1>5, <1>6

\* Reading known_hosts for the first time (knownhosts.go:37-43).
LEMMA SnapshotStep ==
    ASSUME Trust!HostKeysTypeOK, Trust!TrustInv, NEW c \in Handshakes, Trust!TakeSnapshot(c),
           ~ Trust!Goto(c, "failed")
    PROVE  Trust!TrustInv'
<1>1. /\ \A d \in Handshakes \ {c} : handshake'[d] = handshake[d]
      /\ handshake'[c].pc = "snapshot" /\ handshake'[c].seen = known
      /\ handshake'[c].host = handshake[c].host /\ handshake'[c].algos = handshake[c].algos
      /\ mu' = mu /\ known' = known /\ server' = server
  BY DEF Trust!TakeSnapshot, Trust!HostKeysTypeOK, Trust!Dials
<1>2. Trust!SnapshotsAreWhole'
  BY <1>1 DEF Trust!TrustInv, Trust!SnapshotsAreWhole, Trust!OnRecord
<1>3. Trust!RecordsAreForemost'
  <2> SUFFICES ASSUME NEW d \in Handshakes, handshake'[d].pc \in Trust!UnderWay,
                      Trust!OnRecord(handshake'[d].seen, handshake'[d].host) = {},
                      NEW e \in Trust!OnRecord(known', handshake'[d].host)
               PROVE  e.key.type \in Trust!Foremost(server'[handshake'[d].host])
    BY DEF Trust!RecordsAreForemost
  <2>1. d # c
    BY <1>1
  <2>2. QED
    BY <1>1, <2>1 DEF Trust!TrustInv, Trust!RecordsAreForemost
<1>4. Trust!MutexHeld'
  BY <1>1 DEF Trust!TrustInv, Trust!MutexHeld
<1>5. Trust!AsksForRecorded'
  BY <1>1 DEF Trust!TrustInv, Trust!AsksForRecorded
<1>6. Trust!KeyIsOfAType'
  BY <1>1 DEF Trust!TrustInv, Trust!KeyIsOfAType, Trust!KeyIsRight
<1>7. Trust!AcceptedIsRecorded'
  BY <1>1 DEF Trust!TrustInv, Trust!AcceptedIsRecorded
<1>8. QED
  BY <1>2, <1>3, <1>4, <1>5, <1>6, <1>7 DEF Trust!TrustInv

\* Reading it for the types to ask for, or failing to, which asks for none
\* (knownhosts.go:130-198).
LEMMA AlgorithmsStep ==
    ASSUME Trust!HostKeysTypeOK, Trust!TrustInv, NEW c \in Handshakes, Trust!ReadAlgorithms(c)
    PROVE  Trust!TrustInv'
<1>1. PICK types \in {{}, {e.key.type : e \in {f \in known : f.host = handshake[c].host}}} :
         handshake' = [handshake EXCEPT ![c].pc = "dialing", ![c].algos = types]
  BY DEF Trust!ReadAlgorithms
<1>2. /\ \A d \in Handshakes \ {c} : handshake'[d] = handshake[d]
      /\ handshake'[c].pc = "dialing" /\ handshake'[c].algos = types
      /\ handshake'[c].seen = handshake[c].seen /\ handshake'[c].host = handshake[c].host
      /\ mu' = mu /\ known' = known /\ server' = server
      /\ handshake[c].pc = "snapshot"
  BY <1>1 DEF Trust!ReadAlgorithms, Trust!HostKeysTypeOK, Trust!Dials
<1>3. \A t \in types : \E e \in Trust!OnRecord(known, handshake[c].host) : e.key.type = t
  BY DEF Trust!OnRecord
<1>4. Trust!SnapshotsAreWhole'
  BY <1>2 DEF Trust!TrustInv, Trust!SnapshotsAreWhole
<1>5. Trust!RecordsAreForemost'
  <2>1. \A d \in Handshakes : /\ handshake'[d].pc \in Trust!UnderWay => handshake[d].pc \in Trust!UnderWay
                              /\ handshake'[d].seen = handshake[d].seen
                              /\ handshake'[d].host = handshake[d].host
    BY <1>2 DEF Trust!UnderWay
  <2>2. QED
    BY <1>2, <2>1 DEF Trust!TrustInv, Trust!RecordsAreForemost
<1>6. Trust!MutexHeld'
  BY <1>2 DEF Trust!TrustInv, Trust!MutexHeld
<1>7. Trust!AsksForRecorded'
  BY <1>2, <1>3 DEF Trust!TrustInv, Trust!AsksForRecorded
<1>8. Trust!KeyIsOfAType'
  BY <1>2 DEF Trust!TrustInv, Trust!KeyIsOfAType, Trust!KeyIsRight
<1>9. Trust!AcceptedIsRecorded'
  BY <1>2 DEF Trust!TrustInv, Trust!AcceptedIsRecorded
<1>10. QED
  BY <1>4, <1>5, <1>6, <1>7, <1>8, <1>9 DEF Trust!TrustInv

\* The host presents its key (client.go:353-382).
LEMMA PresentStep ==
    ASSUME Trust!HostKeysAssumption, Trust!HostKeysTypeOK, Trust!TrustInv, NEW c \in Handshakes, Trust!Present(c),
           handshake'[c].pc # "failed"
    PROVE  Trust!TrustInv'
<1>1. PICK key \in Trust!Keys :
         /\ handshake' = [handshake EXCEPT ![c].pc = "presented", ![c].key = key]
         /\ key.type \in IF handshake[c].algos = {}
                         THEN Trust!Foremost(server[handshake[c].host])
                         ELSE handshake[c].algos
  BY Presented
<1>2. /\ \A d \in Handshakes \ {c} : handshake'[d] = handshake[d]
      /\ handshake'[c].pc = "presented" /\ handshake'[c].key = key
      /\ \A d \in Handshakes :
            /\ handshake'[d].host = handshake[d].host /\ handshake'[d].seen = handshake[d].seen
            /\ handshake'[d].algos = handshake[d].algos
      /\ mu' = mu /\ known' = known /\ server' = server
      /\ handshake[c].pc = "dialing"
  <2>1. mu' = mu /\ known' = known /\ server' = server /\ handshake[c].pc = "dialing"
    BY DEF Trust!Present
  <2>2. handshake \in [Handshakes -> Trust!Dials]
    BY DEF Trust!HostKeysTypeOK
  <2>3. QED
    BY <1>1, <2>1, <2>2 DEF Trust!Dials
<1>3. Trust!SnapshotsAreWhole' /\ Trust!AsksForRecorded'
  BY <1>2 DEF Trust!TrustInv, Trust!SnapshotsAreWhole, Trust!AsksForRecorded
<1>4. Trust!RecordsAreForemost'
  <2>1. \A d \in Handshakes : handshake'[d].pc \in Trust!UnderWay => handshake[d].pc \in Trust!UnderWay
    BY <1>2 DEF Trust!UnderWay
  <2>2. QED
    BY <1>2, <2>1 DEF Trust!TrustInv, Trust!RecordsAreForemost
<1>5. Trust!MutexHeld'
  BY <1>2 DEF Trust!TrustInv, Trust!MutexHeld
<1>6. Trust!KeyIsOfAType'
  <2> SUFFICES ASSUME NEW d \in Handshakes, handshake'[d].pc \in Trust!UnderWay \ {"snapshot", "dialing"}
               PROVE  Trust!KeyIsRight(d)'
    BY DEF Trust!KeyIsOfAType
  <2>1. CASE d = c
    BY <1>1, <1>2, <2>1 DEF Trust!KeyIsRight
  <2>2. CASE d # c
    BY <1>2, <2>2 DEF Trust!TrustInv, Trust!KeyIsOfAType, Trust!KeyIsRight
  <2>3. QED
    BY <2>1, <2>2
<1>7. Trust!AcceptedIsRecorded'
  BY <1>2 DEF Trust!TrustInv, Trust!AcceptedIsRecorded
<1>8. QED
  BY <1>3, <1>4, <1>5, <1>6, <1>7 DEF Trust!TrustInv

\* What a Dial that ends by a verdict ends over is on record.
LEMMA AcceptedOver ==
    ASSUME NEW S, NEW h, NEW key, S \subseteq known, Trust!HostKeysTypeOK, key \in Trust!Keys,
           Trust!Verdict(S, h, key) = "accepted"
    PROVE  [host |-> h, key |-> key] \in known
<1>1. PICK e \in S : e.host = h /\ e.key = key
  BY DEF Trust!Verdict
<1>2. e = [host |-> e.host, key |-> e.key]
  BY <1>1 DEF Trust!HostKeysTypeOK, Trust!Entries
<1>3. QED
  BY <1>1, <1>2

\* Recording the key, after a second look that found the host new
\* (knownhosts.go:53-70).
LEMMA RecordStep ==
    ASSUME Trust!HostKeysAssumption, SharedMutex, Trust!HostKeysTypeOK, Trust!TrustInv,
           NEW c \in Handshakes, Trust!Record(c)
    PROVE  Trust!TrustInv'
<1> DEFINE h == handshake[c].host
           line == [host |-> h, key |-> handshake[c].key]
<1>1. handshake[c].pc = "recording" /\ server' = server /\ Trust!Unlock(c)
  BY DEF Trust!Record
<1>2. PICK stage \in {"accepted", "failed"} :
         /\ Trust!Goto(c, stage)
         /\ known' = known \union {line} \/ (known' = known /\ stage = "failed")
  BY DEF Trust!Record
<1>3. /\ \A d \in Handshakes \ {c} : handshake'[d] = handshake[d]
      /\ handshake'[c].pc = stage
      /\ \A d \in Handshakes :
            /\ handshake'[d].host = handshake[d].host /\ handshake'[d].key = handshake[d].key
            /\ handshake'[d].seen = handshake[d].seen /\ handshake'[d].algos = handshake[d].algos
  BY <1>2 DEF Trust!Goto, Trust!HostKeysTypeOK, Trust!Dials
<1>4. \A e \in known : e.host # h
  BY <1>1 DEF Trust!TrustInv, Trust!MutexHeld, Trust!OnRecord
<1>5. known \subseteq known' /\ \A e \in known' : e \in known \/ e = line
  BY <1>2
<1>6. line.host = h /\ line.key = handshake[c].key
  OBVIOUS
<1>7. line.key.type \in Trust!Foremost(server[h])
  <2>1. Trust!KeyIsRight(c)
    BY <1>1 DEF Trust!TrustInv, Trust!KeyIsOfAType, Trust!UnderWay
  <2>2. handshake[c].algos = {}
    BY <1>4 DEF Trust!TrustInv, Trust!AsksForRecorded, Trust!OnRecord
  <2>3. QED
    BY <1>6, <2>1, <2>2 DEF Trust!KeyIsRight
<1> HIDE DEF line
<1>8. Trust!SnapshotsAreWhole'
  <2> SUFFICES ASSUME NEW d \in Handshakes
               PROVE  /\ handshake[d].seen \subseteq known'
                      /\ Trust!OnRecord(handshake[d].seen, handshake[d].host) # {} =>
                            Trust!OnRecord(known', handshake[d].host) \subseteq handshake[d].seen
    BY <1>3 DEF Trust!SnapshotsAreWhole
  <2>1. /\ handshake[d].seen \subseteq known
        /\ Trust!OnRecord(handshake[d].seen, handshake[d].host) # {} =>
              Trust!OnRecord(known, handshake[d].host) \subseteq handshake[d].seen
    BY DEF Trust!TrustInv, Trust!SnapshotsAreWhole
  <2>2. CASE handshake[d].host = h
    BY <1>4, <1>5, <2>1, <2>2 DEF Trust!OnRecord
  <2>3. CASE handshake[d].host # h
    BY <1>5, <1>6, <2>1, <2>3 DEF Trust!OnRecord
  <2>4. QED
    BY <2>2, <2>3
<1>9. Trust!RecordsAreForemost'
  <2> SUFFICES ASSUME NEW d \in Handshakes, handshake'[d].pc \in Trust!UnderWay,
                      Trust!OnRecord(handshake[d].seen, handshake[d].host) = {},
                      NEW e \in known', e.host = handshake[d].host
               PROVE  e.key.type \in Trust!Foremost(server[handshake[d].host])
    BY <1>1, <1>3 DEF Trust!RecordsAreForemost, Trust!OnRecord
  <2>1. handshake[d].pc \in Trust!UnderWay
    BY <1>2, <1>3 DEF Trust!UnderWay
  <2>2. CASE e \in known
    BY <2>1, <2>2 DEF Trust!TrustInv, Trust!RecordsAreForemost, Trust!OnRecord
  <2>3. CASE e = line
    BY <1>6, <1>7, <2>3
  <2>4. QED
    BY <1>5, <2>2, <2>3
<1>10. Trust!MutexHeld'
  <2>1. \A d \in Handshakes \ {c} : handshake[d].pc \notin {"locked", "recording"}
    BY <1>1 DEF Trust!TrustInv, Trust!MutexHeld, SharedMutex
  <2>2. QED
    BY <1>2, <1>3, <2>1 DEF Trust!MutexHeld
<1>11. Trust!AsksForRecorded'
  BY <1>3, <1>5 DEF Trust!TrustInv, Trust!AsksForRecorded, Trust!OnRecord
<1>12. Trust!KeyIsOfAType'
  BY <1>1, <1>2, <1>3 DEF Trust!TrustInv, Trust!KeyIsOfAType, Trust!KeyIsRight,
                          Trust!UnderWay
<1>13. Trust!AcceptedIsRecorded'
  <2> SUFFICES ASSUME NEW d \in Handshakes, handshake'[d].pc = "accepted"
               PROVE  [host |-> handshake'[d].host, key |-> handshake'[d].key] \in known'
    BY DEF Trust!AcceptedIsRecorded
  <2>1. CASE d = c
    BY <1>2, <1>3, <2>1 DEF line
  <2>2. CASE d # c
    BY <1>3, <1>5, <2>2 DEF Trust!TrustInv, Trust!AcceptedIsRecorded
  <2>3. QED
    BY <2>1, <2>2
<1>14. QED
  BY <1>8, <1>9, <1>10, <1>11, <1>12, <1>13 DEF Trust!TrustInv

\* A host that is set up anew gives the same types to every Dial that is under way.
LEMMA RekeyStep ==
    ASSUME Trust!HostKeysAssumption, Trust!HostKeysTypeOK, Trust!TrustInv,
           NEW h \in Hosts, NEW type \in Trust!Types, Trust!HostRekeys(h, type)
    PROVE  Trust!TrustInv'
<1>1. known' = known /\ mu' = mu /\ handshake' = handshake
  BY DEF Trust!HostRekeys
<1>2. ASSUME NEW c \in Handshakes, handshake[c].pc \in Trust!UnderWay
      PROVE  Trust!Foremost(server'[handshake[c].host]) = Trust!Foremost(server[handshake[c].host])
  <2> DEFINE g == handshake[c].host
  <2>1. g \in Hosts
    BY DEF Trust!HostKeysTypeOK, Trust!Dials
  <2>2. \A t \in Trust!Types : server'[g][t] = 0 <=> server[g][t] = 0
    <3>1. server[h][type] = 0 => g # h
      BY <1>2 DEF Trust!HostRekeys, Trust!UnderWay
    <3>2. \A t \in Trust!Types : server'[g][t] = IF g = h /\ t = type THEN server[g][t] + 1
                                          ELSE server[g][t]
      BY <2>1 DEF Trust!HostRekeys, Trust!HostKeysTypeOK
    <3>3. \A t \in Trust!Types : server[g][t] \in 0..MaxKeys
      BY <2>1 DEF Trust!HostKeysTypeOK
    <3> HIDE DEF g
    <3>4. QED
      BY <3>1, <3>2, <3>3 DEF Trust!HostKeysAssumption
  <2> HIDE DEF g
  <2>3. Trust!Had(server'[g]) = Trust!Had(server[g])
    BY <2>2 DEF Trust!Had, Trust!Types
  <2>4. Trust!Foremost(server'[g]) = Trust!Foremost(server[g])
    BY <2>3 DEF Trust!Foremost
  <2>5. QED
    BY <2>4 DEF g
<1>3. Trust!SnapshotsAreWhole' /\ Trust!MutexHeld' /\ Trust!AsksForRecorded' /\ Trust!AcceptedIsRecorded'
  BY <1>1 DEF Trust!TrustInv, Trust!SnapshotsAreWhole, Trust!MutexHeld, Trust!AsksForRecorded,
              Trust!AcceptedIsRecorded
<1>4. Trust!RecordsAreForemost'
  BY <1>1, <1>2 DEF Trust!TrustInv, Trust!RecordsAreForemost
<1>5. Trust!KeyIsOfAType'
  BY <1>1, <1>2 DEF Trust!TrustInv, Trust!KeyIsOfAType, Trust!KeyIsRight
<1>6. QED
  BY <1>3, <1>4, <1>5 DEF Trust!TrustInv

\* TrustInv is inductive, given the types.
LEMMA TrustStep ==
    ASSUME Trust!HostKeysAssumption, SharedMutex, Trust!HostKeysTypeOK, Trust!TrustInv, [Trust!Next]_(Trust!vars)
    PROVE  Trust!TrustInv'
<1>1. ASSUME NEW c \in Handshakes, Trust!Goto(c, "failed"), UNCHANGED <<server, known, mu>>
      PROVE  Trust!TrustInv'
  <2>1. Trust!Goto(c, "failed") /\ UNCHANGED <<server, known, mu>>
    BY <1>1
  <2>2. Trust!MutexHeld'
    BY <2>1, MutexStep DEF Trust!TrustInv, Trust!Stages
  <2>3. QED
    BY <2>1, <2>2, StageStep DEF Trust!TrustInv, Trust!Stages, Trust!UnderWay
<1>2. ASSUME NEW c \in Handshakes, Trust!VerifySnapshot(c)
      PROVE  Trust!TrustInv'
  <2> DEFINE verdict == Trust!Verdict(handshake[c].seen, handshake[c].host, handshake[c].key)
  <2>1. PICK stage \in {"locking", "accepted", "refused"} :
           /\ Trust!Goto(c, stage) /\ UNCHANGED <<server, known, mu>>
           /\ stage = "accepted" => verdict = "accepted"
    BY <1>2 DEF Trust!VerifySnapshot, Trust!Verdict
  <2>2. handshake[c].pc \in Trust!UnderWay \ {"snapshot", "dialing"} /\ handshake[c].key \in Trust!Keys
    BY <1>2 DEF Trust!VerifySnapshot, Trust!TrustInv, Trust!KeyIsOfAType,
                Trust!KeyIsRight, Trust!UnderWay
  <2>3. stage = "accepted" => [host |-> handshake[c].host, key |-> handshake[c].key] \in known
    BY <2>1, <2>2, AcceptedOver DEF Trust!TrustInv, Trust!SnapshotsAreWhole
  <2>4. Trust!MutexHeld'
    BY <2>1, MutexStep DEF Trust!TrustInv, Trust!Stages
  <2>5. QED
    BY <2>1, <2>2, <2>3, <2>4, StageStep DEF Trust!TrustInv, Trust!Stages
<1>3. ASSUME NEW c \in Handshakes, Trust!Lock(c)
      PROVE  Trust!TrustInv'
  <2>1. Trust!MutexHeld'
    BY <1>3, MutexStep DEF Trust!Lock, Trust!TrustInv, Trust!Stages
  <2>2. QED
    BY <1>3, <2>1, StageStep DEF Trust!Lock, Trust!TrustInv, Trust!Stages, Trust!UnderWay
<1>4. ASSUME NEW c \in Handshakes, Trust!Reread(c)
      PROVE  Trust!TrustInv'
  <2> DEFINE verdict == Trust!Verdict(known, handshake[c].host, handshake[c].key)
  <2>1. PICK stage \in {"recording", "accepted", "refused", "failed"} :
           /\ Trust!Goto(c, stage) /\ UNCHANGED <<server, known>>
           /\ stage = "accepted" => verdict = "accepted"
           /\ stage = "recording" => verdict = "unknown" /\ mu' = mu
           /\ stage # "recording" => Trust!Unlock(c)
    BY <1>4 DEF Trust!Reread, Trust!Verdict
  <2>2. handshake[c].pc = "locked" /\ handshake[c].key \in Trust!Keys
    BY <1>4 DEF Trust!Reread, Trust!TrustInv, Trust!KeyIsOfAType, Trust!KeyIsRight,
                Trust!UnderWay
  <2>3. stage = "accepted" => [host |-> handshake[c].host, key |-> handshake[c].key] \in known
    BY <2>1, <2>2, AcceptedOver
  <2>4. stage = "recording" => Trust!OnRecord(known, handshake[c].host) = {}
    BY <2>1 DEF Trust!Verdict, Trust!OnRecord
  <2>5. Trust!MutexHeld'
    BY <2>1, <2>2, <2>4, MutexStep DEF Trust!TrustInv, Trust!Stages
  <2>6. QED
    BY <2>1, <2>2, <2>3, <2>5, StageStep DEF Trust!TrustInv, Trust!Stages, Trust!UnderWay
<1>5. CASE UNCHANGED Trust!vars
  BY <1>5 DEF Trust!vars, Trust!TrustInv, Trust!MutexHeld, Trust!SnapshotsAreWhole,
              Trust!RecordsAreForemost, Trust!AsksForRecorded, Trust!KeyIsOfAType,
              Trust!KeyIsRight, Trust!AcceptedIsRecorded
<1>6. ASSUME NEW c \in Handshakes, Trust!Present(c), handshake'[c].pc = "failed"
      PROVE  Trust!TrustInv'
  <2>1. Trust!Goto(c, "failed") /\ UNCHANGED <<server, known, mu>>
    BY <1>6 DEF Trust!Present, Trust!Goto, Trust!HostKeysTypeOK, Trust!Dials
  <2>2. QED
    BY <1>1, <2>1
<1>7. ASSUME NEW c \in Handshakes, Trust!TakeSnapshot(c)
      PROVE  Trust!TrustInv'
  <2>1. UNCHANGED <<server, known, mu>>
    BY <1>7 DEF Trust!TakeSnapshot
  <2>2. QED
    BY <1>1, <1>7, <2>1, SnapshotStep
<1>8. QED
  BY <1>2, <1>3, <1>4, <1>5, <1>6, <1>7, AlgorithmsStep, PresentStep, RecordStep,
     RekeyStep DEF Trust!Next, Trust!Dial

\* At the start no Dial is under way, whatever is on record.
LEMMA TrustInit ==
    ASSUME Trust!HostKeysAssumption, Trust!Init
    PROVE  Trust!HostKeysTypeOK /\ Trust!TrustInv
<1>1. /\ known \subseteq Trust!Entries /\ mu = [q \in Processes |-> NoOne]
      /\ server \in [Hosts -> [Trust!Types -> 0..1]]
      /\ handshake \in [Handshakes ->
                    [pc : {"idle"}, host : Hosts, seen : {{}}, algos : {{}}, key : {NoKey}]]
  BY DEF Trust!Init
<1>2. Trust!HostKeysTypeOK
  <2>1. 0..1 \subseteq 0..MaxKeys
    BY DEF Trust!HostKeysAssumption
  <2>2. server \in [Hosts -> [Trust!Types -> 0..MaxKeys]]
    BY <1>1, <2>1
  <2>3. ASSUME NEW c \in Handshakes
        PROVE  handshake[c] \in Trust!Dials
    BY <1>1 DEF Trust!Dials, Trust!Stages
  <2>4. handshake \in [Handshakes -> Trust!Dials]
    BY <1>1, <2>3
  <2>5. QED
    BY <1>1, <2>2, <2>4 DEF Trust!HostKeysTypeOK
<1>3. \A c \in Handshakes : /\ handshake[c].pc = "idle" /\ handshake[c].seen = {}
                            /\ handshake[c].algos = {}
  BY <1>1
<1>4. Trust!MutexHeld /\ Trust!SnapshotsAreWhole /\ Trust!AsksForRecorded
  BY <1>3 DEF Trust!MutexHeld, Trust!SnapshotsAreWhole, Trust!AsksForRecorded, Trust!OnRecord
<1>5. Trust!RecordsAreForemost /\ Trust!KeyIsOfAType /\ Trust!AcceptedIsRecorded
  BY <1>3 DEF Trust!RecordsAreForemost, Trust!KeyIsOfAType, Trust!AcceptedIsRecorded,
              Trust!UnderWay
<1>6. QED
  BY <1>2, <1>4, <1>5 DEF Trust!TrustInv

\* The types and TrustInv hold throughout, whatever ssh left in known_hosts and whatever
\* connections race to record a host: a snapshot with a key of the host has all that will
\* be on record of it, and what is recorded behind one without is of the type the host
\* presents first, also when the second read of the file fails (knownhosts.go:37-70, 144-198).
THEOREM KeysAreRight ==
    ASSUME Trust!HostKeysAssumption, SharedMutex
    PROVE  Trust!Spec => [](Trust!HostKeysTypeOK /\ Trust!TrustInv)
<1>1. Trust!Init => Trust!HostKeysTypeOK /\ Trust!TrustInv
  BY TrustInit
<1>2. Trust!HostKeysTypeOK /\ Trust!TrustInv /\ [Trust!Next]_(Trust!vars) => (Trust!HostKeysTypeOK /\ Trust!TrustInv)'
  <2> SUFFICES ASSUME Trust!HostKeysTypeOK, Trust!TrustInv, [Trust!Next]_(Trust!vars)
               PROVE  Trust!HostKeysTypeOK' /\ Trust!TrustInv'
    OBVIOUS
  <2>1. Trust!KeyIsOfAType
    BY DEF Trust!TrustInv
  <2>2. QED
    BY <2>1, TypeStep, TrustStep
<1>3. QED
  BY <1>1, <1>2, PTL DEF Trust!Spec

\* A Dial is judged by its snapshot, by the second look, or by its recording.
LEMMA JudgedBy ==
    ASSUME Trust!HostKeysTypeOK, [Trust!Next]_(Trust!vars), NEW c \in Handshakes,
           NEW verdict \in {"accepted", "refused"}, Trust!Judged(c, verdict)
    PROVE  \/ /\ handshake[c].pc = "presented"
              /\ Trust!Verdict(handshake[c].seen, handshake[c].host, handshake[c].key) = verdict
           \/ /\ handshake[c].pc = "locked"
              /\ Trust!Verdict(known, handshake[c].host, handshake[c].key) = verdict
           \/ handshake[c].pc = "recording" /\ verdict = "accepted"
<1>1. handshake'[c].pc = verdict /\ handshake[c].pc # verdict /\ handshake' # handshake
  BY DEF Trust!Judged
<1>2. ASSUME NEW d \in Handshakes, NEW stage, Trust!Goto(d, stage)
      PROVE  d = c /\ stage = verdict
  BY <1>1, <1>2 DEF Trust!Goto, Trust!HostKeysTypeOK, Trust!Dials
<1>3. ASSUME NEW d \in Handshakes, Trust!TakeSnapshot(d) \/ Trust!ReadAlgorithms(d)
      PROVE  FALSE
  <2>1. ~ Trust!Goto(d, "failed")
    BY <1>2
  <2>2. PICK stage \in {"snapshot", "dialing"} :
           handshake'[d].pc = stage /\ handshake' = [handshake EXCEPT ![d] = handshake'[d]]
    <3>1. CASE Trust!TakeSnapshot(d)
      <4>1. handshake' = [handshake EXCEPT ![d].pc = "snapshot", ![d].seen = known]
        BY <2>1, <3>1 DEF Trust!TakeSnapshot
      <4>2. QED
        BY <4>1 DEF Trust!HostKeysTypeOK, Trust!Dials
    <3>2. CASE Trust!ReadAlgorithms(d)
      <4>1. PICK types : handshake' = [handshake EXCEPT ![d].pc = "dialing", ![d].algos = types]
        BY <3>2 DEF Trust!ReadAlgorithms
      <4>2. QED
        BY <4>1 DEF Trust!HostKeysTypeOK, Trust!Dials
    <3>3. QED
      BY <1>3, <3>1, <3>2
  <2>3. \A e \in Handshakes : e # d => handshake'[e] = handshake[e]
    BY <2>2 DEF Trust!HostKeysTypeOK
  <2>4. QED
    BY <1>1, <2>2, <2>3
<1>4. ASSUME NEW d \in Handshakes, Trust!Present(d)
      PROVE  FALSE
  <2>1. ~ Trust!Goto(d, "failed")
    BY <1>2
  <2>2. PICK key : handshake' = [handshake EXCEPT ![d].pc = "presented", ![d].key = key]
    BY <1>4, <2>1 DEF Trust!Present
  <2>3. QED
    BY <1>1, <2>2 DEF Trust!HostKeysTypeOK, Trust!Dials
<1>5. ASSUME NEW d \in Handshakes, Trust!Lock(d)
      PROVE  FALSE
  BY <1>2, <1>5 DEF Trust!Lock
<1>6. ASSUME NEW d \in Handshakes, Trust!VerifySnapshot(d)
      PROVE  /\ d = c /\ handshake[c].pc = "presented"
             /\ Trust!Verdict(handshake[c].seen, handshake[c].host, handshake[c].key) = verdict
  <2> DEFINE found == Trust!Verdict(handshake[d].seen, handshake[d].host, handshake[d].key)
  <2>1. PICK stage : Trust!Goto(d, stage) /\ stage = IF found = "unknown" THEN "locking" ELSE found
    BY <1>6 DEF Trust!VerifySnapshot
  <2>2. d = c /\ stage = verdict
    BY <1>2, <2>1
  <2> HIDE DEF found
  <2>3. found = verdict
    BY <2>1, <2>2
  <2>4. QED
    BY <1>6, <2>2, <2>3 DEF Trust!VerifySnapshot, found
<1>7. ASSUME NEW d \in Handshakes, Trust!Reread(d)
      PROVE  /\ d = c /\ handshake[c].pc = "locked"
             /\ Trust!Verdict(known, handshake[c].host, handshake[c].key) = verdict
  <2> DEFINE found == Trust!Verdict(known, handshake[d].host, handshake[d].key)
  <2>1. PICK stage : Trust!Goto(d, stage) /\ (stage \in {"recording", "failed"} \/ stage = found)
    BY <1>7 DEF Trust!Reread
  <2>2. d = c /\ stage = verdict
    BY <1>2, <2>1
  <2> HIDE DEF found
  <2>3. found = verdict
    BY <2>1, <2>2
  <2>4. QED
    BY <1>7, <2>2, <2>3 DEF Trust!Reread, found
<1>8. ASSUME NEW d \in Handshakes, Trust!Record(d)
      PROVE  d = c /\ handshake[c].pc = "recording" /\ verdict = "accepted"
  <2>1. PICK stage \in {"accepted", "failed"} : Trust!Goto(d, stage)
    BY <1>8 DEF Trust!Record
  <2>2. d = c /\ stage = verdict
    BY <1>2, <2>1
  <2>3. QED
    BY <1>8, <2>2 DEF Trust!Record
<1>9. ~ UNCHANGED Trust!vars /\ \A h \in Hosts, type \in Trust!Types : ~ Trust!HostRekeys(h, type)
  BY <1>1 DEF Trust!vars, Trust!HostRekeys
<1>10. QED
  BY <1>3, <1>4, <1>5, <1>6, <1>7, <1>8, <1>9 DEF Trust!Next, Trust!Dial

\* A key is accepted that an older copy of known_hosts has, or the file has by now, and
\* nothing is ever taken from it; or one of a host that has none, under the lock.
LEMMA AcceptStep ==
    ASSUME Trust!HostKeysTypeOK, Trust!TrustInv, [Trust!Next]_(Trust!vars), NEW c \in Handshakes,
           Trust!Judged(c, "accepted")
    PROVE  \/ [host |-> handshake[c].host, key |-> handshake[c].key] \in known
           \/ Trust!OnRecord(known, handshake[c].host) = {}
<1>1. CASE handshake[c].pc = "recording"
  BY <1>1 DEF Trust!TrustInv, Trust!MutexHeld
<1>2. CASE handshake[c].pc # "recording"
  <2>1. handshake[c].seen \subseteq known
    BY DEF Trust!TrustInv, Trust!SnapshotsAreWhole
  <2>2. PICK S \in {handshake[c].seen, known} :
           /\ Trust!Verdict(S, handshake[c].host, handshake[c].key) = "accepted"
           /\ handshake[c].pc \in {"presented", "locked"}
    BY <1>2, JudgedBy
  <2>3. handshake[c].key \in Trust!Keys
    BY <2>2 DEF Trust!TrustInv, Trust!KeyIsOfAType, Trust!KeyIsRight, Trust!UnderWay
  <2>4. QED
    BY <2>1, <2>2, <2>3, AcceptedOver
<1>3. QED
  BY <1>1, <1>2

\* A refused key is one of a type asked for, which another key on record has, or of the
\* type that the one who recorded the host in between was given.
LEMMA RefuseStep ==
    ASSUME Trust!HostKeysAssumption, Trust!HostKeysTypeOK, Trust!TrustInv, [Trust!Next]_(Trust!vars),
           NEW c \in Handshakes, Trust!Judged(c, "refused")
    PROVE  Trust!KeyChanged(c) \/ Trust!TypesUnread(c)
<1> DEFINE h == handshake[c].host
           key == handshake[c].key
           seen == Trust!OnRecord(handshake[c].seen, h)
<1>1. PICK S \in {handshake[c].seen, known} :
         /\ Trust!Verdict(S, h, key) = "refused"
         /\ handshake[c].pc \in {"presented", "locked"}
  <2>1. \/ handshake[c].pc = "presented" /\ Trust!Verdict(handshake[c].seen, h, key) = "refused"
        \/ handshake[c].pc = "locked" /\ Trust!Verdict(known, h, key) = "refused"
    BY JudgedBy
  <2>2. QED
    BY <2>1
<1>2. /\ \A f \in S : f.host = h => f.key # key
      /\ \E e \in S : e.host = h
  BY <1>1 DEF Trust!Verdict
<1>3. Trust!KeyIsRight(c) /\ handshake[c].pc \in Trust!UnderWay
  BY <1>1 DEF Trust!TrustInv, Trust!KeyIsOfAType, Trust!UnderWay
<1>4. /\ handshake[c].seen \subseteq known
      /\ seen # {} => Trust!OnRecord(known, h) \subseteq handshake[c].seen
  BY DEF Trust!TrustInv, Trust!SnapshotsAreWhole
<1>5. seen = {} => S = known
  BY <1>1, <1>2 DEF Trust!OnRecord
<1>6. Trust!OnRecord(known, h) \subseteq S
  BY <1>1, <1>4, <1>5 DEF Trust!OnRecord
<1>7. \A f \in Trust!OnRecord(known, h) : f.key # key
  BY <1>2, <1>6 DEF Trust!OnRecord
<1>8. CASE handshake[c].algos # {}
  <2>1. key.type \in handshake[c].algos
    BY <1>3, <1>8 DEF Trust!KeyIsRight
  <2>2. PICK f \in Trust!OnRecord(known, h) : f.key.type = key.type
    BY <2>1 DEF Trust!TrustInv, Trust!AsksForRecorded
  <2>3. QED
    BY <1>7, <2>2 DEF Trust!KeyChanged
<1>9. CASE handshake[c].algos = {} /\ seen # {}
  BY <1>9 DEF Trust!TypesUnread
<1>10. CASE handshake[c].algos = {} /\ seen = {}
  <2>1. PICK e \in Trust!OnRecord(known, h) : TRUE
    BY <1>2, <1>5, <1>10 DEF Trust!OnRecord
  <2>2. e.key.type \in Trust!Foremost(server[h])
    BY <1>3, <1>10, <2>1 DEF Trust!TrustInv, Trust!RecordsAreForemost
  <2>3. key.type \in Trust!Foremost(server[h])
    BY <1>3, <1>10 DEF Trust!KeyIsRight
  <2>4. e.key.type = key.type
    BY <2>2, <2>3, ForemostIsOne
  <2>5. QED
    BY <1>7, <2>1, <2>4 DEF Trust!KeyChanged
<1>11. QED
  BY <1>8, <1>9, <1>10

\* Keys are verified, in one process, whatever ssh left in known_hosts: what is accepted
\* is on record, from before where the host had any key there, and a host is refused over
\* a key that changed, or because its types could not be read (knownhosts.go:34-70, 144-198).
THEOREM Verified ==
    ASSUME Trust!HostKeysAssumption, SharedMutex
    PROVE  Trust!Spec => Trust!KeysAreVerified
<1>1. Trust!HostKeysTypeOK /\ Trust!TrustInv /\ [Trust!Next]_(Trust!vars) =>
         [\A c \in Handshakes : Trust!Judged(c, "accepted") =>
            \/ [host |-> handshake[c].host, key |-> handshake[c].key] \in known
            \/ Trust!OnRecord(known, handshake[c].host) = {}]_(Trust!vars)
  BY AcceptStep
<1>2. Trust!HostKeysTypeOK /\ Trust!TrustInv /\ [Trust!Next]_(Trust!vars) =>
         [\A c \in Handshakes :
            Trust!Judged(c, "refused") => Trust!KeyChanged(c) \/ Trust!TypesUnread(c)]_(Trust!vars)
  BY RefuseStep
<1>3. Trust!TrustInv => Trust!AcceptedIsRecorded
  BY DEF Trust!TrustInv
<1>4. QED
  BY <1>1, <1>2, <1>3, KeysAreRight, PTL
     DEF Trust!Spec, Trust!KeysAreVerified, Trust!ChangedKeyIsRefused,
         Trust!RefusedForAChange

\* MCDial's runs are runs of the instance.
LEMMA KeysAreJudged == AllSpec => Trust!Spec
<1>1. AllInit => Trust!Init
  BY DEF AllInit
<1>2. [AllNext]_allVars => [Trust!Next]_(Trust!vars)
  BY DEF AllNext, allVars, trustVars, Trust!vars
<1>3. QED
  BY <1>1, <1>2, PTL DEF AllSpec, Trust!Spec

\* In one process, with any file left by ssh, a connection goes on only over a key that
\* is on record, from before where the host had one; it is refused only over a key that
\* changed, unless the second read of known_hosts failed (knownhosts.go:34-70, 144-198).
THEOREM KeysAreTrusted == SharedMutex => (AllSpec => KeysAreVerified)
<1> SUFFICES ASSUME SharedMutex PROVE AllSpec => KeysAreVerified
  OBVIOUS
<1>1. Trust!HostKeysAssumption
  BY DialsAssumption
<1>2. Trust!Spec => [](Trust!HostKeysTypeOK /\ Trust!TrustInv)
  BY <1>1, KeysAreRight
<1>3. Trust!Spec => Trust!KeysAreVerified
  BY <1>1, Verified
<1>4. QED
  BY <1>2, <1>3, KeysAreJudged, PTL DEF KeysAreVerified

=============================================================================

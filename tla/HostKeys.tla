------------------------------ MODULE HostKeys ------------------------------
(***************************************************************************)
(* Host keys on first use (internal/sshclient/knownhosts.go): what each    *)
(* connection reads of known_hosts before it dials, the callback that      *)
(* judges the key the host presents, and the recording of a new one.       *)
(* buildSSHConfig in client.go makes the two reads in this order.          *)
(*                                                                         *)
(* The mutex is of the process; known_hosts is of the user, who has        *)
(* recorded with ssh what keys of a host he liked, of any types.  Hosts    *)
(* have a key of some types, and may change the key of a type.             *)
(* golang.org/x's knownhosts judges a key: it is known, or the host has    *)
(* other keys, or the host has none.                                       *)
(***************************************************************************)
EXTENDS Naturals, Sequences, FiniteSets

CONSTANTS
    Processes,   \* running copies of ohmyssh
    Connections, \* Dials in progress
    ProcessOf,   \* the process of each
    Hosts,
    Preference,  \* key types, in the order negotiated by default
    MaxKeys,     \* how many keys of one type a host may have had, for TLC
    NoOne, NoKey

Types == {Preference[k] : k \in DOMAIN Preference}

HostKeysAssumption ==
    /\ ProcessOf \in [Connections -> Processes]
    /\ Preference \in Seq(Types)
    /\ NoOne \notin Connections
    /\ MaxKeys \in Nat \ {0}

VARIABLES
    server,  \* the keys of each host: which of a type, or 0 for none
    known,   \* known_hosts: the recorded keys
    mu,      \* the holder of knownHostsMu in each process
    conn     \* each connection

vars == <<server, known, mu, conn>>

Keys == [type : Types, number : 1..MaxKeys]
Entries == [host : Hosts, key : Keys]
KeyOf(h, type) == [type |-> type, number |-> server[h][type]]

Stages == {"idle", "snapshot", "dialing", "presented", "locking", "locked",
           "recording", "accepted", "refused", "failed"}

\* A Dial: the entries read, the types asked for and the key presented.
Dials == [pc : Stages, host : Hosts, seen : SUBSET Entries,
             algos : SUBSET Types, key : Keys \union {NoKey}]

HostKeysTypeOK ==
    /\ server \in [Hosts -> [Types -> 0..MaxKeys]]
    /\ known \subseteq Entries
    /\ mu \in [Processes -> Connections \union {NoOne}]
    /\ conn \in [Connections -> Dials]

Init ==
    /\ server \in [Hosts -> [Types -> 0..1]]
    /\ \A h \in Hosts : \E type \in Types : server[h][type] = 1
    /\ known \in SUBSET Entries \* as ssh left it
    /\ mu = [q \in Processes |-> NoOne]
    /\ conn \in [Connections ->
                  [pc : {"idle"}, host : Hosts, seen : {{}}, algos : {{}}, key : {NoKey}]]

Goto(c, pc) == conn' = [conn EXCEPT ![c].pc = pc]

\* What knownhosts says of a key, given the entries it has read.
Verdict(entries, h, key) ==
    LET keys == {e.key : e \in {f \in entries : f.host = h}}
    IN  IF key \in keys THEN "accepted" ELSE IF keys # {} THEN "refused" ELSE "unknown"

-----------------------------------------------------------------------------
\* The host is set up anew: its key of a type changes, or it gains one, which it
\* does not do in the middle of a connection.
HostRekeys(h, type) ==
    /\ server[h][type] < MaxKeys
    /\ server[h][type] = 0 =>
          \A c \in Connections : conn[c].host = h =>
             conn[c].pc \in {"idle", "accepted", "refused", "failed"}
    /\ server' = [server EXCEPT ![h][type] = @ + 1]
    /\ UNCHANGED <<known, mu, conn>>

\* AcceptNewHostKeyCallback reads known_hosts; without it there is no Dial.
TakeSnapshot(c) ==
    /\ conn[c].pc = "idle"
    /\ \/ conn' = [conn EXCEPT ![c].pc = "snapshot", ![c].seen = known]
       \/ Goto(c, "failed")
    /\ UNCHANGED <<server, known, mu>>

\* HostKeyAlgorithms reads it again: the types on record of the host.  If it cannot be
\* read by now, or no key be made to ask with, there are none, and the Dial goes on.
ReadAlgorithms(c) ==
    /\ conn[c].pc = "snapshot"
    /\ \E types \in {{}, {e.key.type : e \in {f \in known : f.host = conn[c].host}}} :
          conn' = [conn EXCEPT ![c].pc = "dialing", ![c].algos = types]
    /\ UNCHANGED <<server, known, mu>>

\* The type a host with these keys presents to who asks for the default ones.
Had(keys) == {k \in DOMAIN Preference : keys[Preference[k]] # 0}
Foremost(keys) == {Preference[k] : k \in {m \in Had(keys) : \A n \in Had(keys) : m <= n}}

\* The key exchange: of the types asked for, which stand in the order of the lines of
\* known_hosts, one that the host has; or the most preferred one it has.
Present(c) ==
    LET h == conn[c].host
        common == IF conn[c].algos = {} THEN Foremost(server[h])
                  ELSE {type \in conn[c].algos : server[h][type] # 0}
    IN  /\ conn[c].pc = "dialing"
        /\ \/ common = {} /\ Goto(c, "failed")
           \/ \E type \in common :
                 conn' = [conn EXCEPT ![c].pc = "presented", ![c].key = KeyOf(h, type)]
        /\ UNCHANGED <<server, known, mu>>

\* The callback judges the key by what was read before the Dial.
VerifySnapshot(c) ==
    LET verdict == Verdict(conn[c].seen, conn[c].host, conn[c].key)
    IN  /\ conn[c].pc = "presented"
        /\ Goto(c, IF verdict = "unknown" THEN "locking" ELSE verdict)
        /\ UNCHANGED <<server, known, mu>>

Lock(c) ==
    /\ conn[c].pc = "locking"
    /\ mu[ProcessOf[c]] = NoOne
    /\ mu' = [mu EXCEPT ![ProcessOf[c]] = c]
    /\ Goto(c, "locked")
    /\ UNCHANGED <<server, known>>

Unlock(c) == mu' = [mu EXCEPT ![ProcessOf[c]] = NoOne]

\* Fault: an unknown host is recorded without a second look.
RereadSkipped(c) ==
    /\ conn[c].pc = "locked"
    /\ Goto(c, "recording")
    /\ UNCHANGED <<server, known, mu>>

\* known_hosts is read again under the lock; it may have become unreadable.
Reread(c) ==
    LET verdict == Verdict(known, conn[c].host, conn[c].key)
    IN  /\ conn[c].pc = "locked"
        /\ \/ verdict = "unknown" /\ Goto(c, "recording") /\ UNCHANGED mu
           \/ verdict # "unknown" /\ Goto(c, verdict) /\ Unlock(c)
           \/ Goto(c, "failed") /\ Unlock(c)
        /\ UNCHANGED <<server, known>>

\* appendKnownHost: the line is written, or an error refuses the connection;
\* one from Sync or Close comes after the line was written.
Record(c) ==
    /\ conn[c].pc = "recording"
    /\ LET recorded == known \union {[host |-> conn[c].host, key |-> conn[c].key]}
       IN  \/ known' = recorded /\ Goto(c, "accepted")
           \/ known' \in {known, recorded} /\ Goto(c, "failed")
    /\ Unlock(c)
    /\ UNCHANGED server

Dial(c) ==
    \/ TakeSnapshot(c) \/ ReadAlgorithms(c) \/ Present(c) \/ VerifySnapshot(c)
    \/ Reread(c) \/ Record(c)

Next ==
    \/ \E h \in Hosts, type \in Types : HostRekeys(h, type)
    \/ \E c \in Connections : Dial(c) \/ Lock(c)

Spec == Init /\ [][Next]_vars

-----------------------------------------------------------------------------
Judged(c, verdict) == conn[c].pc # verdict /\ conn'[c].pc = verdict

OnRecord(entries, h) == {e \in entries : e.host = h}

\* A host already present in known_hosts is accepted over a key recorded of it only,
\* however long before the callback runs its connection read the file
\* (knownhosts.go:34-36, 53-63).
ChangedKeyIsRefused ==
    [][\A c \in Connections : Judged(c, "accepted") =>
          \/ [host |-> conn[c].host, key |-> conn[c].key] \in known
          \/ OnRecord(known, conn[c].host) = {}]_vars

\* A connection goes on only over a key that is on record from then on
\* (knownhosts.go:34-36, 70).
AcceptedIsRecorded ==
    \A c \in Connections : conn[c].pc = "accepted" =>
       [host |-> conn[c].host, key |-> conn[c].key] \in known

\* The host presented a key of a type that another key of it is on record of.
KeyChanged(c) ==
    \E e \in OnRecord(known, conn[c].host) :
       e.key.type = conn[c].key.type /\ e.key # conn[c].key

\* known_hosts was read, with keys of the host, and not read again for their types.
TypesUnread(c) == conn[c].algos = {} /\ OnRecord(conn[c].seen, conn[c].host) # {}

\* A host is refused only over a key that changed, and not because it presented one of
\* another type than those recorded, ssh's own or those of connections racing this one
\* (knownhosts.go:53-63, 144-147), unless known_hosts became unreadable in between.
RefusedForAChange ==
    [][\A c \in Connections :
          Judged(c, "refused") => KeyChanged(c) \/ TypesUnread(c)]_vars

\* What is trusted is what is on record, and a host is refused for nothing else.
KeysAreVerified == ChangedKeyIsRefused /\ []AcceptedIsRecorded /\ RefusedForAChange

(* A claim of the code that does not hold.                                 *)

\* knownhosts.go:144-147 says the host is stopped from presenting another type than the
\* one recorded.  HostKeyAlgorithms gives an error of the second read as no types
\* (149-156), the default ones are asked for, and a host that has not changed is refused.
TypesAreAskedFor ==
    [][\A c \in Connections : Judged(c, "refused") => KeyChanged(c)]_vars

-----------------------------------------------------------------------------
\* What the properties above rest on, in one process.  The mutex is held from the second
\* look to the record.  Keys are recorded of a host that has none, so that a snapshot
\* with a key of the host has all of them; to who had a snapshot without, what is on
\* record by now is of the type the host presents first, which it gives to all while it
\* is not set up anew.
UnderWay == {"snapshot", "dialing", "presented", "locking", "locked", "recording"}

MutexHeld ==
    \A c \in Connections :
       /\ conn[c].pc \in {"locked", "recording"} => mu[ProcessOf[c]] = c
       /\ conn[c].pc = "recording" => OnRecord(known, conn[c].host) = {}

SnapshotsAreWhole ==
    \A c \in Connections :
       /\ conn[c].seen \subseteq known
       /\ OnRecord(conn[c].seen, conn[c].host) # {} =>
             OnRecord(known, conn[c].host) \subseteq conn[c].seen

RecordsAreForemost ==
    \A c \in Connections :
       conn[c].pc \in UnderWay /\ OnRecord(conn[c].seen, conn[c].host) = {} =>
          \A e \in OnRecord(known, conn[c].host) : e.key.type \in Foremost(server[conn[c].host])

AsksForRecorded ==
    \A c \in Connections : \A type \in conn[c].algos :
       \E e \in OnRecord(known, conn[c].host) : e.key.type = type

KeyIsRight(c) ==
    /\ conn[c].key \in Keys
    /\ conn[c].key.type \in IF conn[c].algos = {} THEN Foremost(server[conn[c].host])
                            ELSE conn[c].algos
KeyIsOfAType ==
    \A c \in Connections : conn[c].pc \in UnderWay \ {"snapshot", "dialing"} => KeyIsRight(c)

TrustInv ==
    /\ MutexHeld /\ SnapshotsAreWhole /\ RecordsAreForemost
    /\ AsksForRecorded /\ KeyIsOfAType /\ AcceptedIsRecorded

\* The callback returns to the handshake, whatever it meets.
CallbackReturns ==
    \A c \in Connections :
       conn[c].pc = "presented" ~> conn[c].pc \in {"accepted", "refused", "failed"}

=============================================================================

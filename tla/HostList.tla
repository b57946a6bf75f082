------------------------------ MODULE HostList ------------------------------
(***************************************************************************)
(* What the browser promises of the hosts it may write: a host that is     *)
(* added was not there, and nothing else changes with it.                  *)
(***************************************************************************)
CONSTANT Aliases

VARIABLE hosts

Add(a) == a \notin hosts /\ hosts' = hosts \union {a}

Remove(a) == a \in hosts /\ hosts' = hosts \ {a}

Spec ==
    /\ hosts \subseteq Aliases
    /\ [][\E a \in Aliases : Add(a) \/ Remove(a)]_hosts

=============================================================================

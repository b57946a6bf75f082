---------------------------- MODULE PasswordMap -----------------------------
(***************************************************************************)
(* What the credential store promises: a map from logins to passwords that *)
(* a call changes for the login it names and for no other.                 *)
(***************************************************************************)
CONSTANTS Keys, Passwords, NoPassword

VARIABLE saved \* the password of each login, or none

Maps == [Keys -> Passwords \union {NoPassword}]
Empty == [k \in Keys |-> NoPassword]

Set(k, password) == saved' = [saved EXCEPT ![k] = password]
Delete(k) == saved' = [saved EXCEPT ![k] = NoPassword]
Clear == saved' = Empty

Next ==
    \/ \E k \in Keys : Delete(k) \/ \E password \in Passwords : Set(k, password)
    \/ Clear

Spec == saved \in Maps /\ [][Next]_saved

=============================================================================

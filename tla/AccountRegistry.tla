-------------------------- MODULE AccountRegistry --------------------------
(***************************************************************************)
(* What registration promises: a phone number is taken by one client, in   *)
(* one step, and its password and role stay what that client was given.    *)
(***************************************************************************)

CONSTANTS Numbers,    \* phone numbers as they are stored
          Passwords, Roles, NoAccount

VARIABLE account      \* the account of each number, or NoAccount

Account == [password : Passwords, role : Roles]

Init == account \in [Numbers -> Account \cup {NoAccount}]

Register(n, a) ==
  /\ account[n] = NoAccount
  /\ account' = [account EXCEPT ![n] = a]

Next == \E n \in Numbers, a \in Account : Register(n, a)

Spec == Init /\ [][Next]_account

============================================================================

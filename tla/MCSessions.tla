----------------------------- MODULE MCSessions -----------------------------
(***************************************************************************)
(* An administrator and a developer with a token each; three requests of   *)
(* every kind, two clocks, one fault.                                      *)
(***************************************************************************)
EXTENDS Sessions, TLC

CONSTANTS u1, u2, t1

User(name, role, password) ==
  [name |-> name, email |-> name, full |-> "X", role |-> role, password |-> password]

MCUsers == (u1 :> User("ann", "ADMIN", "pw")) @@ (u2 :> User("bob", "DEVELOPER", "none"))
MCTokens == (t1 :> [user |-> u1, role |-> "ADMIN", exp |-> 2])

MCCalls ==
  {[op |-> "register", row |-> User("cy", "ADMIN", "pw")],
   [op |-> "register", row |-> [User("cy", "DEVELOPER", "pw") EXCEPT !.email = "dan"]],
   [op |-> "login", name |-> "ann", password |-> "pw"],
   [op |-> "login", name |-> "bob", password |-> "none"],
   [op |-> "logout", token |-> t1],
   [op |-> "act", token |-> t1, roles |-> {"ADMIN"}],
   [op |-> "update", token |-> t1, user |-> u1, sent |-> [role |-> "DEVELOPER"]],
   [op |-> "update", token |-> t1, user |-> u1, sent |-> [role |-> "ADMIN"]],
   [op |-> "update", token |-> t1, user |-> u1, sent |-> [full |-> "Y"]],
   [op |-> "update", token |-> t1, user |-> u1, sent |-> <<>>],
   [op |-> "remove", token |-> t1, user |-> u1]}
  \cup {[op |-> "act", token |-> r, roles |-> {"DEVELOPER"}] : r \in Requests}

Symmetry == Permutations(Requests)
=============================================================================

------------------------------ MODULE MCAccounts ------------------------------
(* Accounts on three calls: an administrator, a user he creates, and changes of  *)
(* one field each.                                                               *)
EXTENDS Accounts, TLC

CONSTANTS c1, c2, c3, seed, root, bob, p1, p2

ThreeCalls == {c1, c2, c3}
TwoNames   == {root, bob}
TwoWords   == {p1, p2}

Unchanged == [role |-> Absent, status |-> Absent, password |-> Absent]

MCRequests ==
  {[op |-> "login", name |-> n, password |-> p1] : n \in TwoNames}
  \cup {[op |-> o, token |-> i] : o \in {"refresh", "logout"}, i \in Ids}
  \cup {[op |-> "create", name |-> bob, password |-> p1, role |-> "employee", status |-> "active"]}
  \cup {[op |-> "bootstrap", name |-> n, password |-> p1] : n \in TwoNames}
  \cup {[op |-> "update", id |-> i, change |-> change] : i \in Ids,
          change \in {[Unchanged EXCEPT !.role = "employee"],
                      [Unchanged EXCEPT !.status = "disabled"],
                      [Unchanged EXCEPT !.password = p2]}}

CallSymmetry == Permutations(Calls)
==============================================================================

--------------------------- MODULE AccessControl ---------------------------
(***************************************************************************)
(* What the account grants of backend/tenant_scope.py promise: a set of    *)
(* (user, account) pairs that grants add to, revocations take from and     *)
(* reads look into, each in one step; granting what is granted is no       *)
(* error, and every read answers what is granted at one instant.           *)
(***************************************************************************)
CONSTANTS
    Users, Accounts,
    Admins,     \* the users with the role admin, who see everything
    Ops         \* the operations

Pairs == Users \X Accounts

VARIABLES
    granted,    \* the pairs that are granted
    answer      \* what each operation has answered

vars == <<granted, answer>>

(* The answers: a verdict, and the accounts of a listing.                  *)
Says(v) == [verdict |-> v, accounts |-> {}]
Lists(A) == [verdict |-> "some", accounts |-> A]

Init ==
    /\ granted = {}
    /\ answer = [o \in Ops |-> Says("none")]

Answers(o, a) ==
    /\ answer[o] = Says("none")
    /\ answer' = [answer EXCEPT ![o] = a]

Grant(o, p) == Answers(o, Says("granted")) /\ granted' = granted \cup {p}

Revoke(o, p) == Answers(o, Says("revoked")) /\ granted' = granted \ {p}

(* "No grant = no visibility".                                             *)
Sees(u, a) == u \in Admins \/ <<u, a>> \in granted

Look(o, u, a) ==
    /\ Answers(o, Says(IF Sees(u, a) THEN "visible" ELSE "hidden"))
    /\ UNCHANGED granted

(* A scan that is unknown is hidden; one whose account is, from all but    *)
(* the admins.                                                             *)
LookAtNothing(o, u) ==
    /\ \/ Answers(o, Says("hidden"))
       \/ u \in Admins /\ Answers(o, Says("visible"))
    /\ UNCHANGED granted

List(o, u) ==
    /\ Answers(o, IF u \in Admins THEN Says("all")
                  ELSE Lists({a \in Accounts : <<u, a>> \in granted}))
    /\ UNCHANGED granted

(* An operation fails: a grant or revocation may have happened or not.     *)
Fails(o) ==
    /\ Answers(o, Says("error"))
    /\ \/ UNCHANGED granted
       \/ \E p \in Pairs : granted' \in {granted \cup {p}, granted \ {p}}

Next ==
    \E o \in Ops :
        \/ \E p \in Pairs : Grant(o, p) \/ Revoke(o, p)
        \/ \E u \in Users : \/ List(o, u)
                            \/ \E a \in Accounts : Look(o, u, a)
                            \/ LookAtNothing(o, u)
        \/ Fails(o)

Spec == Init /\ [][Next]_vars
=============================================================================

------------------------------ MODULE Session ------------------------------
(***************************************************************************)
(* Users and their sessions: registration and the script that creates the  *)
(* first administrator, login (backend/main.py, scripts/create_admin.py),  *)
(* and the tokens of TokenRevocation, whose claims are what the user was   *)
(* when it logged in.  No code changes a user's role or deactivates a user; *)
(* whoever does works on the table users, at any time.                     *)
(***************************************************************************)
EXTENDS TokenRevocation

CONSTANTS
    Names,          \* usernames
    Roles,          \* of ROLE_HIERARCHY
    Registrations,  \* the requests that create a user, and runs of the script
    Scripts,        \* these
    MaxChanges      \* the bound on changes made to the table by hand

ASSUME SessionAssumption ==
    /\ Names # {}
    /\ "none" \notin Roles
    /\ Scripts \subseteq Registrations
    /\ MaxChanges \in Nat

VARIABLES
    row,        \* the table users
    reg,        \* reg[r]: a registration
    login,      \* login[t]: the login that is to issue t
    claim,      \* claim[t]: the role in the token
    changes,    \* how many changes were made by hand
    right       \* history: when t was last known to say what is so

userVars == <<row, reg, login, claim, changes, right>>
sessionVars == <<tokenVars, userVars>>

Absent == [role |-> "none", active |-> FALSE]
NoRegistration == [pc |-> "none", name |-> CHOOSE n \in Names : TRUE, role |-> "none"]
NoLogin == [pc |-> "none", name |-> CHOOSE n \in Names : TRUE]

SessionInit ==
    /\ TokenInit
    /\ row = [n \in Names |-> Absent]
    /\ reg = [r \in Registrations |-> NoRegistration]
    /\ login = [t \in Tokens |-> NoLogin]
    /\ claim = [t \in Tokens |-> "none"]
    /\ changes = 0
    /\ right = [t \in Tokens |-> 0]
-----------------------------------------------------------------------------
Register(r, state) ==
    /\ reg' = [reg EXCEPT ![r].pc = state]
    /\ UNCHANGED <<tokenVars, login, claim, changes, right>>

(* POST /auth/register, with the token of an administrator; or the script, *)
(* which creates administrators and audits nothing.                        *)
AskToRegister(r, n, role) ==
    /\ reg[r].pc = "none"
    /\ r \in Scripts => role = "admin"
    /\ reg' = [reg EXCEPT ![r] = [pc |-> "query", name |-> n, role |-> role]]
    /\ UNCHANGED <<tokenVars, row, login, claim, changes, right>>

(* 409, or the insert that is still to come.                               *)
FindName(r) ==
    /\ reg[r].pc = "query"
    /\ Register(r, IF row[reg[r].name] = Absent THEN "insert" ELSE "taken")
    /\ UNCHANGED row

Inserts(r) == [row EXCEPT ![reg[r].name] = [role |-> reg[r].role, active |-> TRUE]]

InsertUserAnyway(r) ==
    /\ reg[r].pc = "insert"
    /\ row' = Inserts(r)
    /\ Register(r, IF r \in Scripts THEN "created" ELSE "audit")

(* username is unique: the commit of a second insert raises.  So does one   *)
(* that fails, and one that succeeds but whose reply is lost: each request  *)
(* is answered with 500, the script with a traceback, but the last has      *)
(* created the user.                                                       *)
InsertUser(r) ==
    /\ reg[r].pc = "insert"
    /\ \/ /\ row[reg[r].name] = Absent
          /\ row' = Inserts(r)
          /\ \/ Register(r, IF r \in Scripts THEN "created" ELSE "audit")
             \/ Register(r, "unanswered")
       \/ UNCHANGED row /\ Register(r, "raised")

(* The audit record is a commit of its own: when it raises, so does the    *)
(* request, of a user that was created.                                    *)
AuditUser(r) ==
    /\ reg[r].pc = "audit"
    /\ \E state \in {"created", "unaudited"} : Register(r, state)
    /\ UNCHANGED row

Registering(r) == FindName(r) \/ InsertUser(r) \/ AuditUser(r)
-----------------------------------------------------------------------------
(* POST /auth/login up to its audit record.  A refused one leaves nothing. *)
CheckUser(t, n) ==
    /\ login[t].pc = "none"
    /\ row[n].active
    /\ login' = [login EXCEPT ![t] = [pc |-> "checked", name |-> n]]
    /\ UNCHANGED <<tokenVars, row, reg, claim, changes, right>>

(* The commit of the audit record has expired the loaded user: the role is *)
(* read again for the token, is_active is not.                             *)
LogIn(t) ==
    /\ login[t].pc = "checked"
    /\ Issue(t)
    /\ claim' = [claim EXCEPT ![t] = row[login[t].name].role]
    /\ login' = [login EXCEPT ![t].pc = "answered"]
    /\ right' = [right EXCEPT ![t] = now]
    /\ UNCHANGED <<row, reg, changes>>

(* The audit record's insert raises: no token.                             *)
LoginFails(t) ==
    /\ login[t].pc = "checked"
    /\ Fault
    /\ login' = [login EXCEPT ![t].pc = "none"]
    /\ UNCHANGED <<now, exp, entry, logout, use, lost, row, reg, claim, changes, right>>

(* A change made by hand.                                                  *)
Change(n, user) ==
    /\ changes < MaxChanges
    /\ changes' = changes + 1
    /\ row[n] # Absent /\ row[n] # user
    /\ row' = [row EXCEPT ![n] = user]
    /\ UNCHANGED <<tokenVars, reg, login, claim, right>>

(* What the token says is so, and its user has not logged out.             *)
IsRight(t) ==
    /\ row[login[t].name] = [role |-> claim[t], active |-> TRUE]
    /\ logout[t].pc # "done"

SessionTick ==
    /\ Tick
    /\ right' = [t \in Tokens |-> IF IsRight(t) THEN now' ELSE right[t]]
    /\ UNCHANGED <<row, reg, login, claim, changes>>

SessionNext ==
    \/ \E r \in Registrations, n \in Names, role \in Roles : AskToRegister(r, n, role)
    \/ \E r \in Registrations : Registering(r)
    \/ \E t \in Tokens, n \in Names : CheckUser(t, n)
    \/ \E t \in Tokens : LogIn(t) \/ LoginFails(t)
    \/ \E n \in Names, user \in [role : Roles, active : BOOLEAN] : Change(n, user)
    \/ TokenStep /\ UNCHANGED userVars
    \/ SessionTick

SessionSpec == SessionInit /\ [][SessionNext]_sessionVars
-----------------------------------------------------------------------------
Creators(n) == {r \in Registrations : reg[r].name = n /\
                                      reg[r].pc \in {"unanswered", "audit", "created",
                                                     "unaudited"}}

(* However registrations of one name and the script interleave, one of     *)
(* them creates the user, with the role it asked for; a request answered   *)
(* with 409 has created nobody, and one answered with 500 ("raised")       *)
(* neither, unless the reply of its commit was lost ("unanswered") or its  *)
(* audit record raised ("unaudited").                                      *)
CreatedByOne ==
    \A n \in Names :
        /\ row[n] = Absent <=> Creators(n) = {}
        /\ \A r, q \in Creators(n) : r = q
        /\ changes = 0 => \A r \in Creators(n) : row[n].role = reg[r].role

(* A token whose user was deactivated or has another role by now, or whose *)
(* logout Redis has forgotten, is let in for a lifetime and a second at    *)
(* the most: after that its signature alone turns it away, whatever Redis  *)
(* answers.                                                                *)
WrongForALifetime ==
    [][\A t \in Tokens :
         (use[t] # "decoded" /\ use'[t] = "decoded") =>
             now < right[t] + (Lifetime + 1) * Second]_sessionVars
-----------------------------------------------------------------------------
(***************************************************************************)
(* The inductive invariant behind these properties.                        *)
(***************************************************************************)
User == [role : Roles, active : BOOLEAN]

Registration == [pc : {"none", "query", "taken", "insert", "raised", "unanswered",
                       "audit", "created", "unaudited"},
                 name : Names,
                 role : Roles \cup {"none"}]

SessionTypeOK ==
    /\ now \in Nat
    /\ exp \in [Tokens -> Nat \cup {NotIssued}]
    /\ entry \in [Tokens -> Nat]
    /\ logout \in [Tokens -> [pc : {"none", "set", "done", "failed"}, ttl : Nat]]
    /\ use \in [Tokens -> {"none", "decoded", "rejected", "accepted"}]
    /\ faults \in Nat
    /\ row \in [Names -> User \cup {Absent}]
    /\ reg \in [Registrations -> Registration]
    /\ login \in [Tokens -> [pc : {"none", "checked", "answered"}, name : Names]]
    /\ changes \in Nat
    /\ right \in [Tokens -> Nat]

RegistrationInv ==
    /\ \A r \in Registrations : reg[r].pc # "none" => reg[r].role \in Roles
    /\ CreatedByOne

(* An exp claim is at most a lifetime past the last time the token was     *)
(* right.                                                                  *)
IssueInv(t) ==
    /\ right[t] <= now
    /\ exp[t] # NotIssued => exp[t] * Second <= right[t] + Lifetime * Second

(* A lifetime falls short of exp by a second at most, whenever it is used. *)
LogoutInv(t) ==
    /\ logout[t].pc # "none" => exp[t] # NotIssued
    /\ logout[t].pc = "set" =>
          exp[t] * Second <= now + logout[t].ttl * Second + Second
    /\ logout[t].pc = "done" /\ t \notin lost =>
          \/ exp[t] * Second <= entry[t] + Second
          \/ exp[t] * Second <= now + Second

SessionInv == RegistrationInv /\ \A t \in Tokens : IssueInv(t) /\ LogoutInv(t)
=============================================================================

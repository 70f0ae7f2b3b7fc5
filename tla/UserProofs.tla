---------------------------- MODULE UserProofs -----------------------------
(***************************************************************************)
(* Proofs about the users: about Session and TokenRevocation, for every    *)
(* lifetime and resolution of the clock, and any number of users,          *)
(* registrations, tokens, faults and changes made by hand; and about       *)
(* AccountAccess, for every set of users, admins, accounts, scans and      *)
(* concurrent operations, and any number of database errors.               *)
(***************************************************************************)
EXTENDS Session, AccountAccess, TLAPS

(* A lifetime of whole seconds is less than a second short of the time     *)
(* that was left, and never zero.                                          *)
LEMMA RemainingBounds ==
    ASSUME NEW ticks \in Int
    PROVE  /\ Remaining(ticks) \in Nat
           /\ Remaining(ticks) >= 1
           /\ ticks < Remaining(ticks) * Second + Second
<1>1. CASE ticks < 0
  <2>1. Remaining(ticks) = 1
    BY <1>1 DEF Remaining, Larger
  <2>2. QED
    BY <1>1, <2>1, TokenAssumption
<1>2. CASE ticks >= 0
  <2>. DEFINE whole == ticks \div Second
  <2>1. whole \in Nat /\ ticks < whole * Second + Second
    BY <1>2, TokenAssumption
  <2>2. Remaining(ticks) = Larger(1, whole)
    BY <1>2 DEF Remaining
  <2>. HIDE DEF whole
  <2>3. Remaining(ticks) \in Nat /\ Remaining(ticks) >= 1 /\ Remaining(ticks) >= whole
    BY <2>1, <2>2 DEF Larger
  <2>4. whole * Second <= Remaining(ticks) * Second
    BY <2>1, <2>3, TokenAssumption
  <2>5. /\ whole * Second \in Int /\ Remaining(ticks) * Second \in Int
        /\ Second \in Int
    BY <2>1, <2>3, TokenAssumption
  <2>6. QED
    BY <2>1, <2>3, <2>4, <2>5
<1>3. QED
  BY <1>1, <1>2

LEMMA ExpiryBounds ==
    ASSUME now \in Nat, NEW t
    PROVE  /\ ExpiryOf(t) \in Nat
           /\ ExpiryOf(t) * Second <= now + Lifetime * Second
<1>. DEFINE end == now + Lifetime * Second
<1>1. end \in Nat
  BY TokenAssumption
<1>. HIDE DEF end
<1>2. end \div Second \in Nat /\ (end \div Second) * Second <= end
  BY <1>1, TokenAssumption
<1>3. ExpiryOf(t) = end \div Second
  BY DEF ExpiryOf, end
<1>4. QED
  BY <1>2, <1>3 DEF end

LEMMA DecodesBounds ==
    ASSUME SessionTypeOK, NEW t \in Tokens, Decodes(t)
    PROVE  exp[t] \in Nat /\ now < exp[t] * Second + Second
<1>1. exp[t] \in Nat /\ now \in Nat /\ now \div Second <= exp[t]
  BY DEF Decodes, SessionTypeOK
<1>. DEFINE whole == now \div Second
<1>2. whole \in Nat /\ now < whole * Second + Second
  BY <1>1, TokenAssumption
<1>. HIDE DEF whole
<1>3. whole * Second <= exp[t] * Second
  BY <1>1, <1>2, TokenAssumption DEF whole
<1>4. /\ whole * Second \in Int /\ exp[t] * Second \in Int
      /\ Second \in Int
  BY <1>1, <1>2, TokenAssumption
<1>5. QED
  BY <1>1, <1>2, <1>3, <1>4

LEMMA LifetimeTime == Second \in Nat /\ Lifetime * Second \in Nat
  BY TokenAssumption

LEMMA TimeType ==
    ASSUME SessionTypeOK, NEW t \in Tokens
    PROVE  /\ exp[t] \in Int /\ exp[t] * Second \in Int
           /\ entry[t] \in Nat
           /\ right[t] \in Nat
           /\ logout[t].ttl \in Nat /\ logout[t].ttl * Second \in Nat
<1>1. exp[t] \in Int /\ entry[t] \in Nat /\ right[t] \in Nat /\ logout[t].ttl \in Nat
  BY DEF SessionTypeOK, NotIssued
<1>2. QED
  BY <1>1, TokenAssumption

LEMMA SessionInitInv == SessionInit => SessionTypeOK /\ SessionInv
<1>. SUFFICES ASSUME SessionInit PROVE SessionTypeOK /\ SessionInv
  OBVIOUS
<1>1. (CHOOSE n \in Names : TRUE) \in Names
  BY SessionAssumption
<1>2. /\ NoRegistration \in Registration /\ NoRegistration.pc = "none"
      /\ NoLogin \in [pc : {"none", "checked", "answered"}, name : Names]
  BY <1>1 DEF NoRegistration, NoLogin, Registration
<1>3. SessionTypeOK
  BY <1>2 DEF SessionInit, TokenInit, SessionTypeOK, NoEntry
<1>4. RegistrationInv
  BY <1>2 DEF SessionInit, RegistrationInv, CreatedByOne, Creators
<1>5. ASSUME NEW t \in Tokens PROVE IssueInv(t) /\ LogoutInv(t)
  BY DEF SessionInit, TokenInit, IssueInv, LogoutInv
<1>6. QED
  BY <1>3, <1>4, <1>5 DEF SessionInv

(*-------------------------------------------------------------------------*)
(* The table users: its type, and who created what.                        *)

LEMMA AskToRegisterInv ==
    ASSUME SessionTypeOK, RegistrationInv, NEW r \in Registrations, NEW n \in Names,
           NEW role \in Roles, AskToRegister(r, n, role)
    PROVE  reg' \in [Registrations -> Registration] /\ RegistrationInv'
<1>. DEFINE new == [pc |-> "query", name |-> n, role |-> role]
<1>1. /\ reg' = [reg EXCEPT ![r] = new] /\ reg[r].pc = "none"
      /\ UNCHANGED <<row, changes>>
  BY DEF AskToRegister
<1>2. reg' \in [Registrations -> Registration]
  BY <1>1 DEF SessionTypeOK, Registration
<1>3. \A q \in Registrations : q # r => reg'[q] = reg[q]
  BY <1>1 DEF SessionTypeOK
<1>4. reg'[r] = new
  BY <1>1 DEF SessionTypeOK
<1>5. \A m \in Names : Creators(m)' = Creators(m)
  BY <1>1, <1>3, <1>4 DEF Creators
<1>6. \A m \in Names : \A q \in Creators(m) : q \in Registrations /\ q # r
  BY <1>1 DEF Creators
<1>7. CreatedByOne'
  BY <1>1, <1>3, <1>5, <1>6 DEF RegistrationInv, CreatedByOne
<1>8. QED
  BY <1>2, <1>3, <1>4, <1>7 DEF RegistrationInv

(* A registration that goes on without the table.                          *)
LEMMA RegisterInv ==
    ASSUME SessionTypeOK, RegistrationInv, NEW r \in Registrations, reg[r].pc # "none",
           NEW state \in {"query", "taken", "insert", "raised", "audit", "created",
                          "unaudited"},
           Register(r, state), UNCHANGED row,
           (reg[r].pc \in {"unanswered", "audit", "created", "unaudited"}) <=>
              (state \in {"unanswered", "audit", "created", "unaudited"})
    PROVE  reg' \in [Registrations -> Registration] /\ RegistrationInv'
<1>1. reg' = [reg EXCEPT ![r].pc = state] /\ UNCHANGED <<row, changes>>
  BY DEF Register
<1>2. reg[r] \in Registration
  BY DEF SessionTypeOK
<1>3. /\ \A q \in Registrations : q # r => reg'[q] = reg[q]
      /\ reg'[r] = [reg[r] EXCEPT !.pc = state]
      /\ reg'[r] \in Registration
  BY <1>1, <1>2 DEF SessionTypeOK, Registration
<1>4. reg' \in [Registrations -> Registration]
  BY <1>1, <1>3 DEF SessionTypeOK
<1>5. \A q \in Registrations : reg'[q].name = reg[q].name /\ reg'[q].role = reg[q].role
  BY <1>2, <1>3 DEF Registration
<1>6. /\ \A q \in Registrations : q # r => reg'[q].pc = reg[q].pc
      /\ reg'[r].pc = state
  BY <1>2, <1>3 DEF Registration
<1>7. \A m \in Names : Creators(m)' = Creators(m)
  BY <1>5, <1>6 DEF Creators
<1>8. \A m \in Names : Creators(m) \subseteq Registrations
  BY DEF Creators
<1>9. CreatedByOne'
  BY <1>1, <1>5, <1>7, <1>8 DEF RegistrationInv, CreatedByOne
<1>10. QED
  BY <1>4, <1>5, <1>6, <1>9 DEF RegistrationInv

(* The insert of r makes it the one creator of its name.                   *)
LEMMA InsertInv ==
    ASSUME SessionTypeOK, RegistrationInv, NEW r \in Registrations, reg[r].pc = "insert",
           row[reg[r].name] = Absent,
           row' = Inserts(r),
           NEW state \in {"unanswered", "audit", "created"}, Register(r, state)
    PROVE  /\ reg' \in [Registrations -> Registration]
           /\ row' \in [Names -> User \cup {Absent}]
           /\ RegistrationInv'
<1>. DEFINE n == reg[r].name
            user == [role |-> reg[r].role, active |-> TRUE]
<1>1. reg' = [reg EXCEPT ![r].pc = state] /\ changes' = changes
  BY DEF Register
<1>2. reg[r] \in Registration /\ n \in Names /\ reg[r].role \in Roles
  BY DEF SessionTypeOK, Registration, RegistrationInv
<1>3. /\ \A q \in Registrations : q # r => reg'[q] = reg[q]
      /\ reg'[r] = [reg[r] EXCEPT !.pc = state]
      /\ reg'[r] \in Registration
  BY <1>1, <1>2 DEF SessionTypeOK, Registration
<1>4. reg' \in [Registrations -> Registration]
  BY <1>1, <1>3 DEF SessionTypeOK
<1>5. \A q \in Registrations : reg'[q].name = reg[q].name /\ reg'[q].role = reg[q].role
  BY <1>2, <1>3 DEF Registration
<1>6. /\ \A q \in Registrations : q # r => reg'[q].pc = reg[q].pc
      /\ reg'[r].pc = state
  BY <1>2, <1>3 DEF Registration
<1>7. user \in User /\ user # Absent /\ user.role = reg[r].role
  BY <1>2, SessionAssumption DEF User, Absent
<1>8. /\ row' \in [Names -> User \cup {Absent}]
      /\ row'[n] = user
      /\ \A m \in Names : m # n => row'[m] = row[m]
  BY <1>2, <1>7 DEF SessionTypeOK, Inserts
<1>9. Creators(n) = {}
  BY <1>2 DEF RegistrationInv, CreatedByOne
<1>10. Creators(n)' = {r}
  BY <1>2, <1>5, <1>6, <1>9 DEF Creators
<1>11. \A m \in Names : m # n => Creators(m)' = Creators(m)
  BY <1>5, <1>6 DEF Creators
<1>12. \A m \in Names : Creators(m) \subseteq Registrations
  BY DEF Creators
<1>13. ASSUME NEW m \in Names
       PROVE  /\ row'[m] = Absent <=> Creators(m)' = {}
              /\ \A p, q \in Creators(m)' : p = q
              /\ changes' = 0 => \A q \in Creators(m)' : row'[m].role = reg'[q].role
  <2>1. CASE m = n
    BY <1>5, <1>7, <1>8, <1>10, <2>1
  <2>2. CASE m # n
    BY <1>1, <1>5, <1>8, <1>11, <1>12, <2>2 DEF RegistrationInv, CreatedByOne
  <2>3. QED
    BY <2>1, <2>2
<1>14. CreatedByOne'
  BY <1>13 DEF CreatedByOne
<1>15. QED
  BY <1>2, <1>4, <1>5, <1>6, <1>8, <1>14 DEF RegistrationInv

LEMMA RegisteringInv ==
    ASSUME SessionTypeOK, RegistrationInv, NEW r \in Registrations, Registering(r)
    PROVE  /\ reg' \in [Registrations -> Registration]
           /\ row' \in [Names -> User \cup {Absent}]
           /\ RegistrationInv'
<1>1. CASE FindName(r)
  <2>1. PICK state \in {"insert", "taken"} : Register(r, state)
    BY <1>1 DEF FindName
  <2>2. reg[r].pc = "query" /\ UNCHANGED row
    BY <1>1 DEF FindName
  <2>3. QED
    BY <2>1, <2>2, RegisterInv DEF SessionTypeOK
<1>2. CASE InsertUser(r)
  <2>1. reg[r].pc = "insert"
    BY <1>2 DEF InsertUser
  <2>2. CASE /\ row[reg[r].name] = Absent
             /\ row' = Inserts(r)
             /\ \/ Register(r, IF r \in Scripts THEN "created" ELSE "audit")
                \/ Register(r, "unanswered")
    <3>1. \E state \in {"unanswered", "audit", "created"} : Register(r, state)
      BY <2>2
    <3>2. QED
      BY <2>1, <2>2, <3>1, InsertInv
  <2>3. CASE UNCHANGED row /\ Register(r, "raised")
    BY <2>1, <2>3, RegisterInv DEF SessionTypeOK
  <2>4. QED
    BY <1>2, <2>2, <2>3 DEF InsertUser
<1>3. CASE AuditUser(r)
  <2>1. PICK state \in {"created", "unaudited"} : Register(r, state)
    BY <1>3 DEF AuditUser
  <2>2. reg[r].pc = "audit" /\ UNCHANGED row
    BY <1>3 DEF AuditUser
  <2>3. QED
    BY <2>1, <2>2, RegisterInv DEF SessionTypeOK
<1>4. QED
  BY <1>1, <1>2, <1>3 DEF Registering

LEMMA ChangeInv ==
    ASSUME SessionTypeOK, RegistrationInv, NEW n \in Names, NEW user \in User,
           Change(n, user)
    PROVE  row' \in [Names -> User \cup {Absent}] /\ RegistrationInv'
<1>1. /\ row' = [row EXCEPT ![n] = user] /\ row[n] # Absent
      /\ changes \in Nat /\ changes' = changes + 1
      /\ UNCHANGED reg
  BY DEF Change, SessionTypeOK
<1>2. user # Absent
  BY SessionAssumption DEF User, Absent
<1>3. \A m \in Names : row'[m] = Absent <=> row[m] = Absent
  BY <1>1, <1>2 DEF SessionTypeOK
<1>4. changes' # 0
  BY <1>1
<1>5. \A m \in Names : Creators(m)' = Creators(m)
  BY <1>1 DEF Creators
<1>6. CreatedByOne'
  BY <1>3, <1>4, <1>5 DEF RegistrationInv, CreatedByOne
<1>7. QED
  BY <1>1, <1>6 DEF SessionTypeOK, RegistrationInv

(*-------------------------------------------------------------------------*)
(* The tokens.                                                             *)

(* A token of which only the request and Redis know more than before.      *)
LEMMA SameTimes ==
    ASSUME NEW t \in Tokens, IssueInv(t), LogoutInv(t),
           UNCHANGED <<now, right>>, exp'[t] = exp[t], entry'[t] = entry[t],
           logout'[t] = logout[t], t \in lost => t \in lost'
    PROVE  IssueInv(t)' /\ LogoutInv(t)'
  BY DEF IssueInv, LogoutInv

(* What is left for a token never ends more than a second before its exp.  *)
LEMMA TimeLeftReaches ==
    ASSUME SessionTypeOK, NEW t \in Tokens, IssueInv(t), exp[t] # NotIssued,
           NEW ticks \in TimeLeft(t)
    PROVE  /\ Remaining(ticks) \in Nat
           /\ exp[t] * Second <= now + Remaining(ticks) * Second + Second
<1>1. /\ exp[t] * Second \in Int /\ Lifetime * Second \in Nat /\ Second \in Nat
      /\ now \in Nat /\ right[t] \in Nat
  BY TimeType, LifetimeTime DEF SessionTypeOK
<1>2. exp[t] * Second <= now + Lifetime * Second
  BY <1>1 DEF IssueInv
<1>3. ticks \in Int /\ exp[t] * Second <= now + ticks + 1
  BY <1>1, <1>2 DEF TimeLeft
<1>4. /\ Remaining(ticks) \in Nat
      /\ ticks < Remaining(ticks) * Second + Second
      /\ Remaining(ticks) * Second \in Nat
  BY <1>3, RemainingBounds, TokenAssumption
<1>5. QED
  BY <1>1, <1>3, <1>4

LEMMA RequestInv ==
    ASSUME SessionTypeOK, \A t \in Tokens : IssueInv(t) /\ LogoutInv(t),
           NEW t \in Tokens, Request(t), UNCHANGED userVars
    PROVE  SessionTypeOK' /\ \A u \in Tokens : IssueInv(u)' /\ LogoutInv(u)'
<1>1. UNCHANGED <<row, reg, login, changes, right>>
  BY DEF userVars
<1>2. CASE StartLogout(t)
  <2>1. PICK ticks \in TimeLeft(t) :
           logout' = [logout EXCEPT ![t] = [pc |-> "set", ttl |-> Remaining(ticks)]]
    BY <1>2 DEF StartLogout
  <2>2. exp[t] # NotIssued /\ UNCHANGED <<now, exp, entry, use, faults, lost>>
    BY <1>2 DEF StartLogout, Decodes
  <2>3. /\ Remaining(ticks) \in Nat
        /\ exp[t] * Second <= now + Remaining(ticks) * Second + Second
    BY <2>2, TimeLeftReaches
  <2>4. SessionTypeOK'
    BY <1>1, <2>1, <2>2, <2>3 DEF SessionTypeOK
  <2>5. logout'[t].pc = "set" /\ logout'[t].ttl = Remaining(ticks)
    BY <2>1 DEF SessionTypeOK
  <2>6. IssueInv(t)' /\ LogoutInv(t)'
    BY <1>1, <2>2, <2>3, <2>5 DEF IssueInv, LogoutInv
  <2>7. ASSUME NEW u \in Tokens, u # t PROVE IssueInv(u)' /\ LogoutInv(u)'
    BY <1>1, <2>1, <2>2, <2>7 DEF SessionTypeOK, IssueInv, LogoutInv
  <2>8. QED
    BY <2>4, <2>6, <2>7
<1>3. CASE FinishLogout(t)
  <2>. DEFINE ends == now + logout[t].ttl * Second
  <2>1. /\ entry' = [entry EXCEPT ![t] = ends]
        /\ logout' = [logout EXCEPT ![t].pc = "done"]
        /\ logout[t].pc = "set"
        /\ UNCHANGED <<now, exp, use, faults, lost>>
    BY <1>3 DEF FinishLogout
  <2>2. ends \in Nat
    BY TimeType DEF SessionTypeOK
  <2>3. SessionTypeOK'
    BY <1>1, <2>1, <2>2 DEF SessionTypeOK
  <2>4. entry'[t] = ends /\ logout'[t].pc = "done"
    BY <2>1 DEF SessionTypeOK
  <2>5. IssueInv(t)' /\ LogoutInv(t)'
    BY <1>1, <2>1, <2>4 DEF IssueInv, LogoutInv
  <2>6. ASSUME NEW u \in Tokens, u # t PROVE IssueInv(u)' /\ LogoutInv(u)'
    BY <1>1, <2>1, <2>6 DEF SessionTypeOK, IssueInv, LogoutInv
  <2>7. QED
    BY <2>3, <2>5, <2>6
<1>4. CASE StartUse(t) \/ FinishUse(t)
  <2>1. /\ UNCHANGED <<now, exp, entry, logout, faults, lost>>
        /\ \E state \in {"decoded", "rejected", "accepted"} :
              use' = [use EXCEPT ![t] = state]
    BY <1>4 DEF StartUse, FinishUse
  <2>2. SessionTypeOK'
    BY <1>1, <2>1 DEF SessionTypeOK
  <2>3. QED
    BY <1>1, <2>1, <2>2 DEF IssueInv, LogoutInv
<1>5. QED
  BY <1>2, <1>3, <1>4 DEF Request

LEMMA LogoutFailsInv ==
    ASSUME SessionTypeOK, \A t \in Tokens : IssueInv(t) /\ LogoutInv(t),
           NEW t \in Tokens, LogoutFails(t), UNCHANGED userVars
    PROVE  SessionTypeOK' /\ \A u \in Tokens : IssueInv(u)' /\ LogoutInv(u)'
<1>. DEFINE ends == now + logout[t].ttl * Second
<1>1. /\ UNCHANGED <<row, reg, login, changes, right>>
      /\ UNCHANGED <<now, exp, use, lost>>
      /\ logout' = [logout EXCEPT ![t].pc = "failed"]
      /\ logout[t].pc = "set"
      /\ entry' = entry \/ entry' = [entry EXCEPT ![t] = ends]
      /\ faults' \in Nat
  BY DEF userVars, LogoutFails, Fault, SessionTypeOK
<1>2. ends \in Nat
  BY TimeType DEF SessionTypeOK
<1>3. entry' \in [Tokens -> Nat]
  BY <1>1, <1>2 DEF SessionTypeOK
<1>4. logout' \in [Tokens -> [pc : {"none", "set", "done", "failed"}, ttl : Nat]]
  BY <1>1 DEF SessionTypeOK
<1>5. SessionTypeOK'
  BY <1>1, <1>3, <1>4 DEF SessionTypeOK
<1>6. logout'[t].pc = "failed"
  BY <1>1 DEF SessionTypeOK
<1>7. IssueInv(t)' /\ LogoutInv(t)'
  BY <1>1, <1>6 DEF IssueInv, LogoutInv
<1>8. ASSUME NEW u \in Tokens, u # t PROVE IssueInv(u)' /\ LogoutInv(u)'
  BY <1>1, <1>8 DEF SessionTypeOK, IssueInv, LogoutInv
<1>9. QED
  BY <1>5, <1>7, <1>8

(* An entry that a restart takes was needed no more, or its token is lost. *)
LEMMA RedisRestartsInv ==
    ASSUME SessionTypeOK, \A t \in Tokens : IssueInv(t) /\ LogoutInv(t),
           RedisRestarts, UNCHANGED userVars
    PROVE  SessionTypeOK' /\ \A u \in Tokens : IssueInv(u)' /\ LogoutInv(u)'
<1>1. /\ UNCHANGED <<row, reg, login, changes, right>>
      /\ UNCHANGED <<now, exp, logout, use>>
      /\ entry' = [t \in Tokens |-> NoEntry]
      /\ lost' = lost \cup {t \in Tokens : Blocked(t)}
      /\ faults' \in Nat
  BY DEF userVars, RedisRestarts, Fault, SessionTypeOK
<1>2. SessionTypeOK'
  BY <1>1 DEF SessionTypeOK, NoEntry
<1>3. ASSUME NEW u \in Tokens PROVE IssueInv(u)' /\ LogoutInv(u)'
  <2>1. IssueInv(u) /\ LogoutInv(u)
    OBVIOUS
  <2>2. IssueInv(u)'
    BY <1>1, <2>1 DEF IssueInv
  <2>3. /\ exp[u] * Second \in Int /\ Second \in Nat
        /\ now \in Nat /\ entry[u] \in Nat
    BY TimeType, LifetimeTime DEF SessionTypeOK
  <2>4. u \notin lost' => u \notin lost /\ entry[u] <= now
    BY <1>1, <2>3 DEF Blocked
  <2>5. LogoutInv(u)'
    BY <1>1, <2>1, <2>3, <2>4 DEF LogoutInv
  <2>6. QED
    BY <2>2, <2>5
<1>4. QED
  BY <1>2, <1>3

LEMMA UseUncheckedInv ==
    ASSUME SessionTypeOK, \A t \in Tokens : IssueInv(t) /\ LogoutInv(t),
           NEW t \in Tokens, UseUnchecked(t), UNCHANGED userVars
    PROVE  SessionTypeOK' /\ \A u \in Tokens : IssueInv(u)' /\ LogoutInv(u)'
<1>1. /\ UNCHANGED <<row, reg, login, changes, right>>
      /\ UNCHANGED <<now, exp, entry, logout, lost>>
      /\ use' = [use EXCEPT ![t] = "accepted"]
      /\ faults' \in Nat
  BY DEF userVars, UseUnchecked, Fault, SessionTypeOK
<1>2. SessionTypeOK'
  BY <1>1 DEF SessionTypeOK
<1>3. QED
  BY <1>1, <1>2 DEF IssueInv, LogoutInv

LEMMA LogInInv ==
    ASSUME SessionTypeOK, \A t \in Tokens : IssueInv(t) /\ LogoutInv(t),
           NEW t \in Tokens, LogIn(t)
    PROVE  SessionTypeOK' /\ \A u \in Tokens : IssueInv(u)' /\ LogoutInv(u)'
<1>1. /\ login' = [login EXCEPT ![t].pc = "answered"]
      /\ right' = [right EXCEPT ![t] = now]
      /\ exp' = [exp EXCEPT ![t] = ExpiryOf(t)] /\ exp[t] = NotIssued
      /\ UNCHANGED <<row, reg, changes, now, entry, logout, use, faults, lost>>
  BY DEF LogIn, Issue
<1>2. /\ ExpiryOf(t) \in Nat
      /\ ExpiryOf(t) * Second <= now + Lifetime * Second
      /\ now \in Nat
  BY ExpiryBounds DEF SessionTypeOK
<1>3. SessionTypeOK'
  BY <1>1, <1>2 DEF SessionTypeOK
<1>4. exp'[t] = ExpiryOf(t) /\ right'[t] = now
  BY <1>1 DEF SessionTypeOK
<1>5. logout[t].pc = "none"
  BY <1>1 DEF LogoutInv
<1>6. IssueInv(t)' /\ LogoutInv(t)'
  BY <1>1, <1>2, <1>4, <1>5 DEF IssueInv, LogoutInv
<1>7. ASSUME NEW u \in Tokens, u # t PROVE IssueInv(u)' /\ LogoutInv(u)'
  BY <1>1, <1>7 DEF SessionTypeOK, IssueInv, LogoutInv
<1>8. QED
  BY <1>3, <1>6, <1>7

LEMMA TickInv ==
    ASSUME SessionTypeOK, \A t \in Tokens : IssueInv(t) /\ LogoutInv(t), SessionTick
    PROVE  SessionTypeOK' /\ \A u \in Tokens : IssueInv(u)' /\ LogoutInv(u)'
<1>1. /\ right' = [t \in Tokens |-> IF IsRight(t) THEN now' ELSE right[t]]
      /\ now' = now + 1 /\ now \in Nat
      /\ UNCHANGED <<row, reg, login, changes, exp, entry, logout, use, faults, lost>>
  BY DEF SessionTick, Tick, SessionTypeOK
<1>2. SessionTypeOK'
  BY <1>1 DEF SessionTypeOK
<1>3. ASSUME NEW u \in Tokens PROVE IssueInv(u)' /\ LogoutInv(u)'
  <2>1. IssueInv(u) /\ LogoutInv(u)
    OBVIOUS
  <2>2. /\ exp[u] * Second \in Int /\ logout[u].ttl * Second \in Nat
        /\ Second \in Nat /\ Lifetime * Second \in Nat
        /\ entry[u] \in Nat /\ right[u] \in Nat
    BY TimeType, LifetimeTime
  <2>3. right'[u] = right[u] \/ right'[u] = now + 1
    BY <1>1
  <2>4. IssueInv(u)'
    BY <1>1, <2>1, <2>2, <2>3 DEF IssueInv
  <2>5. LogoutInv(u)'
    BY <1>1, <2>1, <2>2 DEF LogoutInv
  <2>6. QED
    BY <2>4, <2>5
<1>4. QED
  BY <1>2, <1>3

(*-------------------------------------------------------------------------*)

LEMMA UserStepInv ==
    ASSUME SessionTypeOK, SessionInv, UNCHANGED <<tokenVars, login, right>>, changes' \in Nat,
           reg' \in [Registrations -> Registration],
           row' \in [Names -> User \cup {Absent}],
           RegistrationInv'
    PROVE  SessionTypeOK' /\ SessionInv'
<1>1. UNCHANGED <<now, exp, entry, logout, use, faults, lost, login, right>>
  BY DEF tokenVars
<1>2. SessionTypeOK'
  BY <1>1 DEF SessionTypeOK
<1>3. ASSUME NEW t \in Tokens PROVE IssueInv(t)' /\ LogoutInv(t)'
  BY <1>1 DEF SessionInv, IssueInv, LogoutInv
<1>4. QED
  BY <1>2, <1>3 DEF SessionInv

LEMMA RegistrationsStay ==
    ASSUME RegistrationInv, UNCHANGED <<row, reg, changes>>
    PROVE  RegistrationInv'
<1>1. \A n \in Names : Creators(n)' = Creators(n)
  BY DEF Creators
<1>2. QED
  BY <1>1 DEF RegistrationInv, CreatedByOne

LEMMA SessionNextInv == SessionTypeOK /\ SessionInv /\ [SessionNext]_sessionVars => SessionTypeOK' /\ SessionInv'
<1>. SUFFICES ASSUME SessionTypeOK, SessionInv, [SessionNext]_sessionVars
              PROVE  SessionTypeOK' /\ SessionInv'
  OBVIOUS
<1>1. RegistrationInv /\ \A t \in Tokens : IssueInv(t) /\ LogoutInv(t)
  BY DEF SessionInv
<1>2. changes \in Nat /\ row \in [Names -> User \cup {Absent}]
  BY DEF SessionTypeOK
<1>3. ASSUME NEW r \in Registrations, NEW n \in Names, NEW role \in Roles,
             AskToRegister(r, n, role)
      PROVE  SessionTypeOK' /\ SessionInv'
  <2>1. UNCHANGED <<tokenVars, login, right>> /\ UNCHANGED <<row, changes>>
    BY <1>3 DEF AskToRegister
  <2>2. QED
    BY <1>1, <1>2, <1>3, <2>1, AskToRegisterInv, UserStepInv
<1>4. ASSUME NEW r \in Registrations, Registering(r)
      PROVE  SessionTypeOK' /\ SessionInv'
  <2>1. UNCHANGED <<tokenVars, login, right>> /\ UNCHANGED changes
    BY <1>4 DEF Registering, FindName, InsertUser, AuditUser, Register
  <2>2. QED
    BY <1>1, <1>2, <1>4, <2>1, RegisteringInv, UserStepInv
<1>5. ASSUME NEW n \in Names, NEW user \in [role : Roles, active : BOOLEAN],
             Change(n, user)
      PROVE  SessionTypeOK' /\ SessionInv'
  <2>1. UNCHANGED <<tokenVars, login, right>> /\ UNCHANGED reg /\ changes' \in Nat
    BY <1>2, <1>5 DEF Change
  <2>2. reg' \in [Registrations -> Registration]
    BY <2>1 DEF SessionTypeOK
  <2>3. user \in User
    BY DEF User
  <2>4. row' \in [Names -> User \cup {Absent}] /\ RegistrationInv'
    BY <1>1, <1>5, <2>3, ChangeInv
  <2>5. QED
    BY <2>1, <2>2, <2>4, UserStepInv
<1>6. ASSUME NEW t \in Tokens, NEW n \in Names, CheckUser(t, n)
      PROVE  SessionTypeOK' /\ SessionInv'
  <2>1. /\ login' = [login EXCEPT ![t] = [pc |-> "checked", name |-> n]]
        /\ UNCHANGED <<now, exp, entry, logout, use, faults, lost>>
        /\ UNCHANGED <<row, reg, changes, right>>
    BY <1>6 DEF CheckUser, tokenVars
  <2>2. SessionTypeOK'
    BY <2>1 DEF SessionTypeOK
  <2>3. RegistrationInv'
    BY <1>1, <2>1, RegistrationsStay
  <2>4. QED
    BY <1>1, <2>1, <2>2, <2>3 DEF SessionInv, IssueInv, LogoutInv
<1>7. ASSUME NEW t \in Tokens, LoginFails(t)
      PROVE  SessionTypeOK' /\ SessionInv'
  <2>1. /\ login' = [login EXCEPT ![t].pc = "none"]
        /\ UNCHANGED <<now, exp, entry, logout, use, lost>>
        /\ faults' \in Nat
        /\ UNCHANGED <<row, reg, changes, right>>
    BY <1>7 DEF LoginFails, Fault, SessionTypeOK
  <2>2. SessionTypeOK'
    BY <2>1 DEF SessionTypeOK
  <2>3. RegistrationInv'
    BY <1>1, <2>1, RegistrationsStay
  <2>4. QED
    BY <1>1, <2>1, <2>2, <2>3 DEF SessionInv, IssueInv, LogoutInv
<1>8. ASSUME NEW t \in Tokens, LogIn(t)
      PROVE  SessionTypeOK' /\ SessionInv'
  <2>1. UNCHANGED <<row, reg, changes>>
    BY <1>8 DEF LogIn
  <2>2. QED
    BY <1>1, <1>8, <2>1, LogInInv, RegistrationsStay DEF SessionInv
<1>9. CASE TokenStep /\ UNCHANGED userVars
  <2>1. UNCHANGED <<row, reg, changes>>
    BY <1>9 DEF userVars
  <2>2. SessionTypeOK' /\ \A t \in Tokens : IssueInv(t)' /\ LogoutInv(t)'
    BY <1>1, <1>9, RequestInv, LogoutFailsInv, UseUncheckedInv, RedisRestartsInv
       DEF TokenStep
  <2>3. QED
    BY <1>1, <2>1, <2>2, RegistrationsStay DEF SessionInv
<1>10. CASE SessionTick
  <2>1. UNCHANGED <<row, reg, changes>>
    BY <1>10 DEF SessionTick
  <2>2. QED
    BY <1>1, <1>10, <2>1, TickInv, RegistrationsStay DEF SessionInv
<1>11. CASE UNCHANGED sessionVars
  <2>1. UNCHANGED <<tokenVars, login, right>> /\ UNCHANGED <<row, reg, changes>>
    BY <1>11 DEF sessionVars, userVars
  <2>2. QED
    BY <1>1, <1>2, <2>1, RegistrationsStay, UserStepInv DEF SessionTypeOK
<1>12. QED
  BY <1>3, <1>4, <1>5, <1>6, <1>7, <1>8, <1>9, <1>10, <1>11 DEF SessionNext

(* Every reachable state has the shape of the table users, of Redis and of *)
(* the requests, and satisfies the inductive invariant.                    *)
THEOREM SessionInvariant == SessionSpec => [](SessionTypeOK /\ SessionInv)
<1>1. QED
  BY SessionInitInv, SessionNextInv, PTL DEF SessionSpec

(* Whatever registrations and runs of scripts/create_admin.py interleave,  *)
(* one of them at most creates the user, with the role it asked for; a     *)
(* refused request has created nobody, and one that raised only where its  *)
(* commit's reply was lost or its audit record's insert failed.            *)
THEOREM AlwaysCreatedByOne == SessionSpec => []CreatedByOne
<1>1. SessionTypeOK /\ SessionInv => CreatedByOne
  BY DEF SessionInv, RegistrationInv
<1>2. QED
  BY <1>1, SessionInvariant, PTL

(* What revoke_token put into Redis turns a logged out token away until    *)
(* the last second before its exp, in whatever second each step falls.     *)
THEOREM AlwaysRejectedUntilLastSecond == SessionSpec => RejectedUntilLastSecond
<1>1. SessionTypeOK /\ SessionInv /\ [SessionNext]_sessionVars
      => [\A t \in Tokens : AcceptsLoggedOut(t) => now >= (exp[t] - 1) * Second]_tokenVars
  <2>. SUFFICES ASSUME SessionTypeOK, SessionInv, [SessionNext]_sessionVars,
                       tokenVars' # tokenVars,
                       NEW t \in Tokens, AcceptsLoggedOut(t)
                PROVE  now >= (exp[t] - 1) * Second
    OBVIOUS
  <2>1. /\ exp[t] \in Int /\ exp[t] * Second \in Int /\ Second \in Nat
        /\ now \in Nat /\ entry[t] \in Nat
    BY TimeType, LifetimeTime DEF SessionTypeOK
  <2>2. use[t] = "decoded" /\ use'[t] = "accepted" /\ faults' = faults
        /\ logout[t].pc = "done" /\ t \notin lost
    BY DEF AcceptsLoggedOut
  <2>3. now >= entry[t]
    <3>1. use' # use /\ ~Fault
      BY <2>2 DEF Fault, SessionTypeOK
    <3>2. \E u \in Tokens : StartUse(u) \/ FinishUse(u)
      BY <3>1 DEF SessionNext, AskToRegister, Registering, FindName, InsertUser,
                  AuditUser, Register, CheckUser, LogIn, Issue, LoginFails, Change,
                  TokenStep, Request, StartLogout, FinishLogout, LogoutFails,
                  UseUnchecked, RedisRestarts, SessionTick, Tick, sessionVars, tokenVars
    <3>3. PICK u \in Tokens : StartUse(u) \/ FinishUse(u)
      BY <3>2
    <3>4. u = t /\ FinishUse(t)
      BY <2>2, <3>3 DEF StartUse, FinishUse, SessionTypeOK
    <3>5. QED
      BY <2>1, <2>2, <3>4 DEF FinishUse, Blocked, SessionTypeOK
  <2>4. exp[t] * Second <= now + Second
    BY <2>1, <2>2, <2>3 DEF SessionInv, LogoutInv
  <2>5. (exp[t] - 1) * Second = exp[t] * Second - Second
    BY <2>1
  <2>6. QED
    BY <2>1, <2>4, <2>5
<1>2. QED
  BY <1>1, SessionInvariant, PTL DEF SessionSpec, RejectedUntilLastSecond

(* decode_access_token turns a token away a lifetime and a second after it *)
(* was last right: what it says of its user is read once, at login.        *)
THEOREM AlwaysWrongForALifetime == SessionSpec => WrongForALifetime
<1>1. SessionTypeOK /\ SessionInv /\ [SessionNext]_sessionVars
      => [\A t \in Tokens :
            (use[t] # "decoded" /\ use'[t] = "decoded") =>
                now < right[t] + (Lifetime + 1) * Second]_sessionVars
  <2>. SUFFICES ASSUME SessionTypeOK, SessionInv, [SessionNext]_sessionVars,
                       NEW t \in Tokens, use[t] # "decoded", use'[t] = "decoded"
                PROVE  now < right[t] + (Lifetime + 1) * Second
    OBVIOUS
  <2>1. /\ exp[t] * Second \in Int /\ Second \in Nat /\ Lifetime * Second \in Nat
        /\ now \in Nat /\ right[t] \in Nat
    BY TimeType, LifetimeTime DEF SessionTypeOK
  <2>2. Decodes(t)
    <3>1. use' # use
      OBVIOUS
    <3>2. \E u \in Tokens : StartUse(u) \/ FinishUse(u) \/ UseUnchecked(u)
      BY <3>1 DEF SessionNext, AskToRegister, Registering, FindName, InsertUser,
                  AuditUser, Register, CheckUser, LogIn, Issue, LoginFails, Change,
                  TokenStep, Request, StartLogout, FinishLogout, LogoutFails,
                  RedisRestarts, SessionTick, Tick, sessionVars, tokenVars
    <3>3. PICK u \in Tokens : StartUse(u) \/ FinishUse(u) \/ UseUnchecked(u)
      BY <3>2
    <3>4. u = t /\ StartUse(t)
      BY <3>3 DEF StartUse, FinishUse, UseUnchecked, SessionTypeOK
    <3>5. QED
      BY <3>4 DEF StartUse, SessionTypeOK
  <2>3. exp[t] # NotIssued /\ now < exp[t] * Second + Second
    BY <2>2, DecodesBounds DEF Decodes
  <2>4. exp[t] * Second <= right[t] + Lifetime * Second
    BY <2>3 DEF SessionInv, IssueInv
  <2>5. (Lifetime + 1) * Second = Lifetime * Second + Second
    BY TokenAssumption
  <2>6. QED
    BY <2>1, <2>3, <2>4, <2>5
<1>2. QED
  BY <1>1, SessionInvariant, PTL DEF SessionSpec, WrongForALifetime
-----------------------------------------------------------------------------
(* AccountAccess: what a grant or a revocation has answered is so.         *)

LEMMA AnswerType ==
    /\ \A v \in {"none", "granted", "revoked", "raised", "error", "visible",
                 "hidden", "all"} : Says(v) \in Answer
    /\ \A A \in SUBSET Accounts : Lists(A) \in Answer
BY DEF Says, Lists, Answer

(* Answers are told apart by their verdict.                                *)
LEMMA AnswersDiffer ==
    /\ \A v, w : Says(v) = Says(w) <=> v = w
    /\ \A v, A : v # "some" => Says(v) # Lists(A)
<1>1. \A v : Says(v).verdict = v
  BY DEF Says
<1>2. \A A : Lists(A).verdict = "some"
  BY DEF Lists
<1>3. QED
  BY <1>1, <1>2

LEMMA VerdictType ==
    ASSUME NEW u, NEW a
    PROVE  Verdict(u, a) \in {"visible", "hidden", "raised"}
BY DEF Verdict

(* The pair of a grant that is about to insert.                            *)
LEMMA PairType ==
    ASSUME TypeOK, NEW o \in Ops, OperationInv(o), At(o, "insert")
    PROVE  PairOf(o) \in Pairs
BY DEF TypeOK, OperationInv

(* What an operation that ends has become.                                 *)
LEMMA EndsStep ==
    ASSUME TypeOK, NEW o \in Ops, NEW a \in Answer, Ends(o, a)
    PROVE  /\ op' \in [Ops -> Operation]
           /\ op'[o].pc = "ended" /\ op'[o].answer = a
           /\ \A q \in Ops \ {o} : op'[q] = op[q]
<1>1. op[o] \in Operation /\ op \in [Ops -> Operation]
  BY DEF TypeOK
<1>2. [op[o] EXCEPT !.pc = "ended", !.answer = a] \in Operation
  BY <1>1 DEF Operation
<1>3. QED
  BY <1>1, <1>2 DEF Ends, Operation

(* The rows of a pair change by one insert, or all at once.                *)
LEMMA RowsStep ==
    ASSUME TypeOK, NEW p \in Pairs
    PROVE  /\ Inserted(p) \in [Pairs -> Nat]
           /\ Inserted(p)[p] = rows[p] + 1
           /\ \A q \in Pairs \ {p} : Inserted(p)[q] = rows[q]
           /\ Deleted(p) \in [Pairs -> Nat]
           /\ Deleted(p)[p] = 0
           /\ \A q \in Pairs \ {p} : Deleted(p)[q] = rows[q]
BY DEF TypeOK, Inserted, Deleted

LEMMA InitInv == Init => TypeOK /\ AccessInv
<1>. SUFFICES ASSUME Init PROVE TypeOK /\ AccessInv
  OBVIOUS
<1>1. NotStarted \in Operation /\ NotStarted.pc = "idle"
      /\ NotStarted.answer = Says("none")
  BY AnswerType DEF NotStarted, Operation
<1>2. TypeOK
  BY <1>1, AccessAssumption DEF Init, TypeOK
<1>3. \A o \in Ops : OperationInv(o)
  BY <1>1 DEF Init, OperationInv, At
<1>4. RevocationSticks
  BY DEF Init, RevocationSticks
<1>5. QED
  BY <1>2, <1>3, <1>4 DEF AccessInv
-----------------------------------------------------------------------------
(***************************************************************************)
(* The steps preserve the invariant.                                       *)
(***************************************************************************)

(* A step that ends one operation and takes no pair from mayHold, nor any  *)
(* job from a check, leaves the other operations as they should be.        *)
LEMMA EndKeepsOthers ==
    ASSUME TypeOK, AccessInv, NEW o \in Ops, NEW a \in Answer, Ends(o, a),
           job' = job,
           \A q \in Ops \ {o} : At(q, "insert") => PairOf(q) \in mayHold'
    PROVE  /\ op' \in [Ops -> Operation]
           /\ \A q \in Ops : OperationInv(q)'
<1>1. /\ op' \in [Ops -> Operation]
      /\ op'[o].pc = "ended" /\ op'[o].answer = a
      /\ \A q \in Ops \ {o} : op'[q] = op[q]
  BY EndsStep
<1>2. OperationInv(o)'
  BY <1>1 DEF OperationInv, At
<1>3. ASSUME NEW q \in Ops \ {o} PROVE OperationInv(q)'
  <2>1. OperationInv(q) /\ op'[q] = op[q]
    BY <1>1 DEF AccessInv
  <2>2. QED
    BY <2>1 DEF OperationInv, At, PairOf
<1>4. QED
  BY <1>1, <1>2, <1>3

LEMMA FindGrantInv ==
    ASSUME TypeOK, AccessInv, NEW o \in Ops, NEW p \in Pairs, FindGrant(o, p)
    PROVE  TypeOK' /\ AccessInv'
<1>1. /\ op[o].pc = "idle" /\ op[o].answer = Says("none")
      /\ op[o] \in Operation /\ op \in [Ops -> Operation]
  BY DEF TypeOK, AccessInv, OperationInv, FindGrant, At
<1>2. mayHold' = mayHold \cup {p} /\ UNCHANGED <<rows, job, errors>>
  BY DEF FindGrant
<1>3. p[1] \in Users /\ p[2] \in Accounts /\ p = <<p[1], p[2]>>
  BY DEF Pairs
<1>4. PICK pc \in {"insert", "ended"}, a \in Answer :
          /\ op' = [op EXCEPT ![o] = [@ EXCEPT !.user = p[1], !.account = p[2],
                                               !.pc = pc, !.answer = a]]
          /\ pc = "insert" => a = Says("none")
  <2>1. CASE rows[p] = 0
    <3>1. ~Ambiguous(p) /\ rows[p] # 1
      BY <2>1 DEF Ambiguous
    <3>2. Says("none") \in Answer
      BY AnswerType
    <3>3. op' = [op EXCEPT ![o] = [@ EXCEPT !.user = p[1], !.account = p[2],
                                            !.pc = "insert", !.answer = Says("none")]]
      BY <1>1, <2>1, <3>1 DEF FindGrant
    <3>4. QED
      BY <3>2, <3>3
  <2>2. CASE rows[p] # 0
    <3>1. PICK a \in Answer :
            op' = [op EXCEPT ![o] = [@ EXCEPT !.user = p[1], !.account = p[2],
                                              !.pc = "ended", !.answer = a]]
      <4>1. Says("raised") \in Answer /\ Says("granted") \in Answer
            /\ op[o].answer \in Answer
        BY <1>1, AnswerType
      <4>2. QED
        BY <2>2, <4>1 DEF FindGrant
    <3>2. QED
      BY <3>1
  <2>3. QED
    BY <2>1, <2>2
<1>5. /\ op' \in [Ops -> Operation]
      /\ op'[o].user = p[1] /\ op'[o].account = p[2]
      /\ op'[o].pc = pc /\ op'[o].answer = a
      /\ \A q \in Ops \ {o} : op'[q] = op[q]
  BY <1>1, <1>3, <1>4 DEF Operation
<1>6. OperationInv(o)'
  BY <1>2, <1>3, <1>4, <1>5 DEF OperationInv, At, PairOf
<1>7. ASSUME NEW q \in Ops \ {o} PROVE OperationInv(q)'
  BY <1>2, <1>5 DEF AccessInv, OperationInv, At, PairOf
<1>8. TypeOK'
  BY <1>2, <1>5 DEF TypeOK
<1>9. RevocationSticks'
  BY <1>2 DEF AccessInv, RevocationSticks
<1>10. QED
  BY <1>6, <1>7, <1>8, <1>9 DEF AccessInv

LEMMA InsertGrantInv ==
    ASSUME TypeOK, AccessInv, NEW o \in Ops, At(o, "insert"),
           rows' = Inserted(PairOf(o)), NEW a \in Answer, Ends(o, a),
           errors' \in Nat, UNCHANGED <<job, mayHold>>
    PROVE  TypeOK' /\ AccessInv'
<1>1. PairOf(o) \in Pairs /\ PairOf(o) \in mayHold
  BY PairType DEF AccessInv, OperationInv
<1>2. op' \in [Ops -> Operation] /\ \A q \in Ops : OperationInv(q)'
  BY EndKeepsOthers DEF AccessInv, OperationInv
<1>3. TypeOK'
  BY <1>1, <1>2, RowsStep DEF TypeOK
<1>4. RevocationSticks'
  BY <1>1, RowsStep DEF AccessInv, RevocationSticks
<1>5. QED
  BY <1>2, <1>3, <1>4 DEF AccessInv

LEMMA RevokeGrantInv ==
    ASSUME TypeOK, AccessInv, NEW o \in Ops, NEW p \in Pairs,
           rows' = Deleted(p), NEW a \in Answer, Ends(o, a),
           \/ mayHold' = mayHold
           \/ mayHold' = mayHold \ {p} /\ ~BeingGranted(p),
           errors' \in Nat, UNCHANGED job
    PROVE  TypeOK' /\ AccessInv'
<1>1. \A q \in Ops : At(q, "insert") => PairOf(q) \in mayHold'
  BY DEF AccessInv, OperationInv, BeingGranted
<1>2. op' \in [Ops -> Operation] /\ \A q \in Ops : OperationInv(q)'
  BY <1>1, EndKeepsOthers
<1>3. TypeOK'
  BY <1>2, RowsStep DEF TypeOK
<1>4. RevocationSticks'
  BY RowsStep DEF AccessInv, RevocationSticks
<1>5. QED
  BY <1>2, <1>3, <1>4 DEF AccessInv

(* An operation that ends having only read.                                *)
LEMMA ReadInv ==
    ASSUME TypeOK, AccessInv, NEW o \in Ops, NEW a \in Answer, Ends(o, a),
           errors' \in Nat, UNCHANGED <<rows, job, mayHold>>
    PROVE  TypeOK' /\ AccessInv'
<1>1. op' \in [Ops -> Operation] /\ \A q \in Ops : OperationInv(q)'
  BY EndKeepsOthers DEF AccessInv, OperationInv
<1>2. TypeOK' /\ RevocationSticks'
  BY <1>1 DEF TypeOK, AccessInv, RevocationSticks
<1>3. QED
  BY <1>1, <1>2 DEF AccessInv

LEMMA FindJobInv ==
    ASSUME TypeOK, AccessInv, NEW o \in Ops, NEW u \in Users, NEW s \in Scans,
           FindJob(o, u, s)
    PROVE  TypeOK' /\ AccessInv'
<1>1. /\ UNCHANGED <<rows, job, errors, mayHold>> /\ op[o].pc = "idle"
      /\ op[o].answer = Says("none")
      /\ op[o] \in Operation /\ op \in [Ops -> Operation]
      /\ errors \in Nat /\ job[s] \in Accounts \cup {Unknown, NoJob}
  BY DEF FindJob, AccessInv, OperationInv, At, TypeOK
<1>2. CASE job[s] = NoJob
  <2>1. Ends(o, Says("hidden"))
    BY <1>2 DEF FindJob, Ends
  <2>2. QED
    BY <1>1, <2>1, AnswerType, ReadInv
<1>3. CASE job[s] # NoJob
  <2>1. op' = [op EXCEPT ![o] = [@ EXCEPT !.pc = "check", !.user = u,
                                          !.scan = s, !.account = job[s]]]
    BY <1>3 DEF FindJob
  <2>2. /\ op' \in [Ops -> Operation]
        /\ op'[o].pc = "check" /\ op'[o].user = u /\ op'[o].scan = s
        /\ op'[o].account = job[s] /\ op'[o].answer = Says("none")
        /\ \A q \in Ops \ {o} : op'[q] = op[q]
    BY <1>1, <1>3, <2>1 DEF Operation
  <2>3. OperationInv(o)'
    BY <1>1, <1>3, <2>2 DEF OperationInv, At
  <2>4. ASSUME NEW q \in Ops \ {o} PROVE OperationInv(q)'
    BY <1>1, <2>2 DEF AccessInv, OperationInv, At, PairOf
  <2>5. TypeOK' /\ RevocationSticks'
    BY <1>1, <2>2 DEF TypeOK, AccessInv, RevocationSticks
  <2>6. QED
    BY <2>3, <2>4, <2>5 DEF AccessInv
<1>4. QED
  BY <1>2, <1>3

LEMMA JobInv ==
    ASSUME TypeOK, AccessInv, NEW s \in Scans,
           NEW a \in Accounts \cup {Unknown},
           job[s] \in {NoJob, Unknown}, job' = [job EXCEPT ![s] = a],
           UNCHANGED <<rows, op, errors, mayHold>>
    PROVE  TypeOK' /\ AccessInv'
<1>1. TypeOK' /\ RevocationSticks'
  BY DEF TypeOK, AccessInv, RevocationSticks
<1>2. ASSUME NEW q \in Ops PROVE OperationInv(q)'
  <2>1. OperationInv(q) /\ job'[s] # NoJob /\ \A z \in Scans \ {s} : job'[z] = job[z]
    BY AccessAssumption DEF AccessInv, TypeOK
  <2>2. QED
    BY <2>1 DEF OperationInv, At, PairOf
<1>3. QED
  BY <1>1, <1>2 DEF AccessInv

LEMMA DatabaseFailsInv ==
    ASSUME TypeOK, AccessInv, NEW o \in Ops, DatabaseFails(o)
    PROVE  TypeOK' /\ AccessInv'
<1>1. /\ Ends(o, Says("error")) /\ Says("error") \in Answer
      /\ UNCHANGED <<job, mayHold>> /\ errors' \in Nat
  BY AnswerType DEF DatabaseFails, TypeOK
<1>2. \/ UNCHANGED rows
      \/ At(o, "insert") /\ rows' = Inserted(PairOf(o))
      \/ \E p \in Pairs : rows' = Deleted(p)
  BY DEF DatabaseFails
<1>3. QED
  BY <1>1, <1>2, ReadInv, InsertGrantInv, RevokeGrantInv

(* TypeOK and AccessInv together are inductive.                            *)
LEMMA NextInv == TypeOK /\ AccessInv /\ [Next]_vars => TypeOK' /\ AccessInv'
<1>. SUFFICES ASSUME TypeOK, AccessInv, [Next]_vars PROVE TypeOK' /\ AccessInv'
  OBVIOUS
<1>1. errors \in Nat
  BY DEF TypeOK
<1>2. ASSUME NEW o \in Ops, NEW p \in Pairs, FindGrant(o, p) \/ RevokeGrant(o, p)
      PROVE  TypeOK' /\ AccessInv'
  BY <1>1, <1>2, FindGrantInv, RevokeGrantInv, AnswerType DEF RevokeGrant
<1>3. ASSUME NEW o \in Ops, InsertGrant(o) PROVE TypeOK' /\ AccessInv'
  BY <1>1, <1>3, InsertGrantInv, AnswerType DEF InsertGrant
<1>4. ASSUME NEW o \in Ops, CanAccessScan(o) PROVE TypeOK' /\ AccessInv'
  BY <1>1, <1>4, ReadInv, AnswerType, VerdictType DEF CanAccessScan
<1>5. ASSUME NEW o \in Ops, DatabaseFails(o) PROVE TypeOK' /\ AccessInv'
  BY <1>5, DatabaseFailsInv
<1>6. ASSUME NEW o \in Ops, NEW u \in Users, ListAccounts(o, u)
      PROVE  TypeOK' /\ AccessInv'
  <2>1. AccountsOf(u) \in SUBSET Accounts
    BY DEF AccountsOf
  <2>2. QED
    BY <1>1, <1>6, <2>1, ReadInv, AnswerType DEF ListAccounts
<1>7. ASSUME NEW o \in Ops, NEW u \in Users, NEW a \in Accounts,
             CanAccessAccount(o, u, a)
      PROVE  TypeOK' /\ AccessInv'
  BY <1>1, <1>7, ReadInv, AnswerType, VerdictType DEF CanAccessAccount
<1>8. ASSUME NEW o \in Ops, NEW u \in Users, NEW s \in Scans, FindJob(o, u, s)
      PROVE  TypeOK' /\ AccessInv'
  BY <1>8, FindJobInv
<1>9. ASSUME NEW s \in Scans, CreateJob(s) \/ \E a \in Accounts : SaveJob(s, a)
      PROVE  TypeOK' /\ AccessInv'
  BY <1>9, JobInv DEF CreateJob, SaveJob
<1>10. CASE UNCHANGED vars
  BY <1>10 DEF vars, TypeOK, AccessInv, OperationInv, RevocationSticks, At, PairOf
<1>11. QED
  BY <1>2, <1>3, <1>4, <1>5, <1>6, <1>7, <1>8, <1>9, <1>10 DEF Next

THEOREM AccessInvariant == Spec => [](TypeOK /\ AccessInv)
BY InitInv, NextInv, PTL DEF Spec

(* A revoked pair has no row until it is granted again, however many rows  *)
(* racing grants had given it.                                             *)
THEOREM RevocationAlwaysSticks == Spec => []RevocationSticks
BY AccessInvariant, PTL DEF AccessInv
-----------------------------------------------------------------------------
(* An operation that looks at a scan answers only in its own last step.    *)
LEMMA CheckStep ==
    ASSUME TypeOK, AccessInv, [Next]_vars, NEW o \in Ops, At(o, "check"),
           op'[o].answer = Says("visible")
    PROVE  CanAccessScan(o)
<1>1. /\ op[o].pc = "check" /\ op[o].answer = Says("none")
      /\ op \in [Ops -> Operation]
  BY DEF TypeOK, AccessInv, OperationInv, At
<1>2. Says("visible") # Says("none") /\ Says("visible") # Says("error")
  BY AnswersDiffer
<1>3. op' # op
  BY <1>1, <1>2
<1>4. ASSUME NEW q \in Ops, NEW a \in Answer, Ends(q, a) PROVE q = o /\ a = Says("visible")
  BY <1>1, <1>2, <1>4, EndsStep
<1>5. ASSUME NEW q \in Ops, NEW p \in Pairs, FindGrant(q, p) \/ RevokeGrant(q, p)
      PROVE  FALSE
  <2>1. q # o
    BY <1>1, <1>5 DEF FindGrant, RevokeGrant, At
  <2>2. op'[o] = op[o]
    BY <1>1, <1>5, <2>1 DEF FindGrant, RevokeGrant, Ends
  <2>3. QED
    BY <1>1, <1>2, <2>2
<1>6. ASSUME NEW q \in Ops, InsertGrant(q) \/ DatabaseFails(q) PROVE FALSE
  BY <1>1, <1>2, <1>4, <1>6, AnswerType DEF InsertGrant, DatabaseFails, At
<1>7. ASSUME NEW q \in Ops, NEW u \in Users,
             \/ ListAccounts(q, u)
             \/ \E a \in Accounts : CanAccessAccount(q, u, a)
             \/ \E s \in Scans : FindJob(q, u, s)
      PROVE  FALSE
  <2>1. q # o
    BY <1>1, <1>7 DEF ListAccounts, CanAccessAccount, FindJob, At
  <2>2. op'[o] = op[o]
    BY <1>1, <1>7, <2>1 DEF ListAccounts, CanAccessAccount, FindJob, Ends
  <2>3. QED
    BY <1>1, <1>2, <2>2
<1>8. ASSUME NEW q \in Ops, CanAccessScan(q) PROVE q = o
  BY <1>1, <1>2, <1>8, <1>4, AnswerType, VerdictType DEF CanAccessScan
<1>9. QED
  BY <1>3, <1>5, <1>6, <1>7, <1>8 DEF Next, vars, CreateJob, SaveJob

(* A non-admin sees a scan only of an account somebody granted, and it is  *)
(* the account of that scan, although the account was read a step before.  *)
THEOREM ScanAlwaysSeenByItsAccount == Spec => ScanSeenByItsAccount
<1>1. ASSUME TypeOK, AccessInv, [Next]_vars, NEW o \in Ops, At(o, "check"),
             op'[o].answer = Says("visible"), op[o].user \notin Admins
      PROVE  /\ job[op[o].scan] = op[o].account
             /\ <<op[o].user, job[op[o].scan]>> \in mayHold
  <2>1. CanAccessScan(o)
    BY <1>1, CheckStep
  <2>2. /\ op[o].user \in Users /\ op[o].scan \in Scans
        /\ op[o].account \in {Unknown, job[op[o].scan]}
        /\ job[op[o].scan] \in Accounts \cup {Unknown} /\ op[o] \in Operation
    BY <1>1 DEF AccessInv, OperationInv, TypeOK
  <2>3. op'[o].answer = Says(Verdict(op[o].user, op[o].account))
    BY <1>1, <2>1, AnswerType, VerdictType, EndsStep DEF CanAccessScan
  <2>4. Verdict(op[o].user, op[o].account) = "visible"
    BY <1>1, <2>3, AnswersDiffer
  <2>5. op[o].account # Unknown /\ rows[<<op[o].user, op[o].account>>] = 1
    BY <1>1, <2>4 DEF Verdict
  <2>6. op[o].account = job[op[o].scan] /\ <<op[o].user, op[o].account>> \in Pairs
    BY <2>2, <2>5 DEF Pairs
  <2>7. QED
    BY <1>1, <2>5, <2>6 DEF AccessInv, RevocationSticks
<1>2. TypeOK /\ AccessInv /\ [Next]_vars =>
        [\A o \in Ops :
           (At(o, "check") /\ op'[o].answer = Says("visible")
            /\ op[o].user \notin Admins) =>
               /\ job[op[o].scan] = op[o].account
               /\ <<op[o].user, job[op[o].scan]>> \in mayHold]_vars
  BY <1>1
<1>3. QED
  BY <1>2, AccessInvariant, PTL DEF Spec, ScanSeenByItsAccount
-----------------------------------------------------------------------------
(***************************************************************************)
(* Refinement: every operation takes effect in one step of AccessControl.  *)
(***************************************************************************)
Granted == {p \in Pairs : rows[p] > 0}

(* What a client learns from an answer: ambiguity is an error to it.       *)
Told(a) == IF a = Says("raised") THEN Says("error") ELSE a

Answers == [o \in Ops |-> Told(op[o].answer)]

(* What the steps of the rows do to the set of granted pairs.              *)
LEMMA GrantedStep ==
    ASSUME TypeOK, NEW p \in Pairs
    PROVE  /\ rows' = Inserted(p) => Granted' = Granted \cup {p}
           /\ rows' = Deleted(p) => Granted' = Granted \ {p}
           /\ rows' = rows => Granted' = Granted
           /\ p \in Granted <=> rows[p] > 0
BY RowsStep DEF Granted, TypeOK

LEMMA ToldIs ==
    /\ \A v : Told(Says(v)) = Says(IF v = "raised" THEN "error" ELSE v)
    /\ \A A : Told(Lists(A)) = Lists(A)
BY AnswersDiffer DEF Told

(* An operation that ends answers, and answers only then.                  *)
LEMMA AnswerStep ==
    ASSUME TypeOK, AccessInv, NEW o \in Ops, NEW a \in Answer,
           op[o].pc # "ended", Ends(o, a)
    PROVE  Answers[o] = Says("none") /\ Answers' = [Answers EXCEPT ![o] = Told(a)]
<1>1. op[o].answer = Says("none") /\ Answers[o] = Says("none")
  BY AnswersDiffer DEF AccessInv, OperationInv, Answers, Told
<1>2. op'[o].answer = a /\ \A q \in Ops \ {o} : op'[q] = op[q]
  BY EndsStep
<1>3. QED
  BY <1>1, <1>2 DEF Answers, Told

(* A check answers what is granted at that instant, or fails.              *)
LEMMA LookImplements ==
    ASSUME TypeOK, AccessInv, NEW o \in Ops, NEW u \in Users,
           NEW a \in Accounts \cup {Unknown}, op[o].pc # "ended",
           Ends(o, Says(Verdict(u, a))), UNCHANGED rows
    PROVE  AC!Next
<1>1. PICK v \in {"visible", "hidden", "raised"} : v = Verdict(u, a)
  BY VerdictType
<1>2. /\ Answers[o] = Says("none")
      /\ Answers' = [Answers EXCEPT ![o] = Told(Says(v))]
  <2>1. Says(v) \in Answer /\ Ends(o, Says(v))
    BY <1>1, AnswerType DEF Ends
  <2>2. QED
    BY <2>1, AnswerStep
<1>3. CASE v = "raised"
  <2>1. Answers' = [Answers EXCEPT ![o] = Says("error")]
    BY <1>2, <1>3, ToldIs
  <2>2. AC!Fails(o)
    BY <1>2, <2>1 DEF AC!Fails, AC!Answers, AC!Says, Says, Answers, Told
  <2>3. QED
    BY <2>2 DEF AC!Next
<1>4. CASE v # "raised" /\ a \in Accounts
  <2>1. v = IF AC!Sees(u, a) THEN "visible" ELSE "hidden"
    <3>1. rows[<<u, a>>] \in Nat /\ <<u, a>> \in Pairs /\ a # Unknown
      BY <1>4, AccessAssumption DEF TypeOK, Pairs
    <3>2. AC!Sees(u, a) <=> u \in Admins \/ rows[<<u, a>>] > 0
      BY <3>1 DEF AC!Sees
    <3>3. QED
      BY <1>1, <1>4, <3>1, <3>2 DEF Verdict, Ambiguous
  <2>2. Answers' = [Answers EXCEPT ![o] = Says(v)]
    BY <1>2, <1>4, ToldIs
  <2>3. AC!Look(o, u, a)
    <3>1. CASE AC!Sees(u, a)
      BY <1>2, <2>1, <2>2, <3>1 DEF AC!Look, AC!Answers, AC!Says, Says, Answers, Told
    <3>2. CASE ~AC!Sees(u, a)
      BY <1>2, <2>1, <2>2, <3>2 DEF AC!Look, AC!Answers, AC!Says, Says, Answers, Told
    <3>3. QED
      BY <3>1, <3>2
  <2>4. QED
    BY <1>4, <2>3 DEF AC!Next
<1>5. CASE a = Unknown
  <2>1. v = IF u \in Admins THEN "visible" ELSE "hidden"
    BY <1>1, <1>5 DEF Verdict
  <2>2. Answers' = [Answers EXCEPT ![o] = Says(v)]
    BY <1>2, <2>1, ToldIs
  <2>3. AC!LookAtNothing(o, u)
    BY <1>2, <2>1, <2>2
    DEF AC!LookAtNothing, AC!Answers, AC!Says, Says, Answers, Told
  <2>4. QED
    BY <2>3 DEF AC!Next
<1>6. QED
  BY <1>3, <1>4, <1>5

(* An operation that moves on without answering is not seen.               *)
LEMMA UnansweredStep ==
    ASSUME TypeOK, UNCHANGED rows,
           \A o \in Ops : op'[o].answer = op[o].answer
    PROVE  UNCHANGED AC!vars
BY DEF AC!vars

LEMMA FindGrantImplements ==
    ASSUME TypeOK, AccessInv, NEW o \in Ops, NEW p \in Pairs, FindGrant(o, p)
    PROVE  AC!Next \/ UNCHANGED AC!vars
<1>1. /\ op[o].pc = "idle" /\ op[o].answer = Says("none") /\ UNCHANGED rows
      /\ op[o] \in Operation /\ op \in [Ops -> Operation] /\ rows[p] \in Nat
  BY DEF TypeOK, AccessInv, OperationInv, FindGrant, At
<1>2. CASE rows[p] = 0
  <2>1. ~Ambiguous(p) /\ rows[p] # 1
    BY <1>2 DEF Ambiguous
  <2>2. op'[o].answer = op[o].answer
    BY <1>1, <1>2, <2>1 DEF FindGrant, Operation
  <2>3. \A q \in Ops \ {o} : op'[q] = op[q]
    BY <1>1 DEF FindGrant
  <2>4. QED
    BY <1>1, <2>2, <2>3, UnansweredStep
<1>3. CASE rows[p] # 0
  <2>1. PICK a \in {Says("raised"), Says("granted")} :
            /\ op'[o].answer = a
            /\ a = Says("granted") => rows[p] = 1
    <3>1. op'[o].answer = IF Ambiguous(p) THEN Says("raised") ELSE Says("granted")
      BY <1>1, <1>3 DEF FindGrant, Operation, Ambiguous
    <3>2. QED
      BY <1>1, <1>3, <3>1, AnswersDiffer DEF Ambiguous
  <2>2. \A q \in Ops \ {o} : op'[q] = op[q]
    BY <1>1 DEF FindGrant
  <2>3. /\ Answers' = [Answers EXCEPT ![o] = Told(a)]
        /\ Answers[o] = Says("none") /\ Granted' = Granted
    BY <1>1, <2>1, <2>2, AnswersDiffer DEF Answers, Told, Granted
  <2>4. CASE a = Says("raised")
    <3>1. Answers' = [Answers EXCEPT ![o] = Says("error")]
      BY <2>3, <2>4, ToldIs
    <3>2. AC!Fails(o)
      BY <1>1, <2>3, <3>1 DEF AC!Fails, AC!Answers, AC!Says, Says, Answers, Told
    <3>3. QED
      BY <3>2 DEF AC!Next
  <2>5. CASE a = Says("granted")
    <3>1. Granted' = Granted \cup {p}
      BY <2>1, <2>3, <2>5 DEF Granted
    <3>2. Answers' = [Answers EXCEPT ![o] = Says("granted")]
      BY <2>3, <2>5, ToldIs
    <3>3. AC!Grant(o, p)
      BY <2>3, <3>1, <3>2
      DEF AC!Grant, AC!Answers, AC!Says, Says, Answers, Told, Granted
    <3>4. QED
      BY <3>3 DEF AC!Next, AC!Pairs, Pairs
  <2>6. QED
    BY <2>1, <2>4, <2>5
<1>4. QED
  BY <1>2, <1>3

LEMMA InsertGrantImplements ==
    ASSUME TypeOK, AccessInv, NEW o \in Ops, InsertGrant(o)
    PROVE  AC!Next
<1>1. op[o].pc # "ended"
  BY DEF InsertGrant, At
<1>2. PICK p \in Pairs : p = PairOf(o)
  BY PairType DEF AccessInv, InsertGrant
<1>3. /\ Answers[o] = Says("none")
      /\ Answers' = [Answers EXCEPT ![o] = Says("granted")]
  BY <1>1, AnswerStep, AnswerType, ToldIs DEF InsertGrant
<1>4. Granted' = Granted \cup {p}
  BY <1>2, GrantedStep DEF InsertGrant
<1>5. AC!Grant(o, p)
  BY <1>3, <1>4
  DEF AC!Grant, AC!Answers, AC!Says, Says, Answers, Told, Granted
<1>6. QED
  BY <1>5 DEF AC!Next, AC!Pairs, Pairs

LEMMA RevokeGrantImplements ==
    ASSUME TypeOK, AccessInv, NEW o \in Ops, NEW p \in Pairs, RevokeGrant(o, p)
    PROVE  AC!Next
<1>1. op[o].pc # "ended"
  BY DEF RevokeGrant, At
<1>2. /\ Answers[o] = Says("none")
      /\ Answers' = [Answers EXCEPT ![o] = Says("revoked")]
  BY <1>1, AnswerStep, AnswerType, ToldIs DEF RevokeGrant
<1>3. Granted' = Granted \ {p}
  BY GrantedStep DEF RevokeGrant
<1>4. AC!Revoke(o, p)
  BY <1>2, <1>3
  DEF AC!Revoke, AC!Answers, AC!Says, Says, Answers, Told, Granted
<1>5. QED
  BY <1>4 DEF AC!Next, AC!Pairs, Pairs

LEMMA ListImplements ==
    ASSUME TypeOK, AccessInv, NEW o \in Ops, NEW u \in Users, ListAccounts(o, u)
    PROVE  AC!Next
<1>1. op[o].pc # "ended" /\ UNCHANGED rows
  BY DEF ListAccounts, At
<1>2. AccountsOf(u) = {a \in Accounts : <<u, a>> \in Granted}
  BY DEF AccountsOf, Granted, Pairs
<1>3. Answers[o] = Says("none")
      /\ Answers' = [Answers EXCEPT ![o] = IF u \in Admins THEN Says("all")
                                           ELSE Lists(AccountsOf(u))]
  <2>1. CASE u \in Admins
    BY <1>1, <2>1, AnswerStep, AnswerType, ToldIs DEF ListAccounts
  <2>2. CASE u \notin Admins
    <3>1. Lists(AccountsOf(u)) \in Answer
      BY AnswerType DEF AccountsOf
    <3>2. Ends(o, Lists(AccountsOf(u)))
      BY <2>2 DEF ListAccounts
    <3>3. QED
      BY <1>1, <2>2, <3>1, <3>2, AnswerStep, ToldIs
  <2>3. QED
    BY <2>1, <2>2
<1>4. AC!List(o, u)
  <2>1. CASE u \in Admins
    BY <1>1, <1>3, <2>1 DEF AC!List, AC!Answers, AC!Says, Says, Answers, Told
  <2>2. CASE u \notin Admins
    BY <1>1, <1>2, <1>3, <2>2
    DEF AC!List, AC!Answers, AC!Says, AC!Lists, Says, Lists, Answers, Told, Granted
  <2>3. QED
    BY <2>1, <2>2
<1>5. QED
  BY <1>4 DEF AC!Next

LEMMA DatabaseFailsImplements ==
    ASSUME TypeOK, AccessInv, NEW o \in Ops, DatabaseFails(o)
    PROVE  AC!Next
<1>1. op[o].pc # "ended" /\ Ends(o, Says("error"))
  BY DEF DatabaseFails
<1>2. /\ Answers[o] = Says("none")
      /\ Answers' = [Answers EXCEPT ![o] = Says("error")]
  BY <1>1, AnswerStep, AnswerType, ToldIs
<1>3. \/ Granted' = Granted
      \/ \E p \in Pairs : Granted' \in {Granted \cup {p}, Granted \ {p}}
  <2>1. \/ UNCHANGED rows
        \/ At(o, "insert") /\ rows' = Inserted(PairOf(o))
        \/ \E p \in Pairs : rows' = Deleted(p)
    BY DEF DatabaseFails
  <2>2. At(o, "insert") => PairOf(o) \in Pairs
    BY PairType DEF AccessInv
  <2>3. QED
    BY <2>1, <2>2, GrantedStep DEF Granted
<1>4. AC!Fails(o)
  BY <1>2, <1>3
  DEF AC!Fails, AC!Answers, AC!Says, Says, Answers, Told, AC!Pairs, Pairs, Granted
<1>5. QED
  BY <1>4 DEF AC!Next

(* AccountAccess implements AccessControl: two racing grants, a check that *)
(* reads in two steps and a failing commit are each one abstract step.     *)
THEOREM AccountAccessImplementsAccessControl == Spec => ImplementsAccessControl
<1>1. Init => AC!Init
  <2>1. NotStarted.answer = Says("none") /\ Says("none") # Says("raised")
    BY AnswersDiffer DEF NotStarted
  <2>2. QED
    BY <2>1 DEF Init, AC!Init, AC!Says, Says
<1>2. TypeOK /\ AccessInv /\ [Next]_vars => [AC!Next]_(AC!vars)
  <2>. SUFFICES ASSUME TypeOK, AccessInv, [Next]_vars
                PROVE  AC!Next \/ UNCHANGED AC!vars
    OBVIOUS
  <2>1. ASSUME NEW o \in Ops, NEW u \in Users, NEW a \in Accounts,
               CanAccessAccount(o, u, a)
        PROVE  AC!Next
    BY <2>1, LookImplements DEF CanAccessAccount, At
  <2>2. ASSUME NEW o \in Ops, CanAccessScan(o) PROVE AC!Next
    <3>1. op[o].user \in Users /\ op[o].account \in Accounts \cup {Unknown}
      BY <2>2 DEF CanAccessScan, AccessInv, OperationInv, TypeOK, Operation
    <3>2. QED
      BY <2>2, <3>1, LookImplements DEF CanAccessScan, At
  <2>3. ASSUME NEW o \in Ops, NEW u \in Users, NEW s \in Scans, FindJob(o, u, s)
        PROVE  AC!Next \/ UNCHANGED AC!vars
    <3>1. UNCHANGED rows /\ op[o].pc = "idle" /\ op \in [Ops -> Operation]
      BY <2>3 DEF FindJob, At, TypeOK
    <3>2. CASE job[s] = NoJob
      <4>1. Ends(o, Says("hidden"))
        BY <2>3, <3>2 DEF FindJob, Ends
      <4>2. /\ Answers[o] = Says("none")
            /\ Answers' = [Answers EXCEPT ![o] = Says("hidden")]
        BY <3>1, <4>1, AnswerStep, AnswerType, ToldIs
      <4>3. AC!LookAtNothing(o, u)
        BY <3>1, <4>2
        DEF AC!LookAtNothing, AC!Answers, AC!Says, Says, Answers, Told
      <4>4. QED
        BY <4>3 DEF AC!Next
    <3>3. CASE job[s] # NoJob
      <4>1. \A q \in Ops : op'[q].answer = op[q].answer
        BY <2>3, <3>1, <3>3 DEF FindJob, Operation
      <4>2. QED
        BY <3>1, <4>1, UnansweredStep
    <3>4. QED
      BY <3>2, <3>3
  <2>4. ASSUME UNCHANGED <<rows, op>> PROVE UNCHANGED AC!vars
    BY <2>4, UnansweredStep
  <2>5. QED
    BY <2>1, <2>2, <2>3, <2>4, FindGrantImplements, InsertGrantImplements,
       RevokeGrantImplements, ListImplements, DatabaseFailsImplements
    DEF Next, vars, CreateJob, SaveJob
<1>3. QED
  BY <1>1, <1>2, AccessInvariant, PTL DEF Spec, ImplementsAccessControl, AC!Spec
=============================================================================

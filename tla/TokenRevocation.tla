-------------------------- MODULE TokenRevocation --------------------------
(***************************************************************************)
(* Access tokens (backend/auth.py) and their revocation                    *)
(* (backend/token_revocation.py).  A token's exp claim is whole seconds, a *)
(* clock is finer; logging out puts the token's jti in Redis with a        *)
(* lifetime in whole seconds; a request first decodes its token and then   *)
(* asks Redis for the jti.  Time passes between any two steps.             *)
(***************************************************************************)
EXTENDS Integers

CONSTANTS
    Tokens,
    Second,         \* the ticks of a second
    Lifetime,       \* ACCESS_TOKEN_EXPIRE_MINUTES, in seconds
    MaxTime,        \* the bound on the clock, in ticks
    MaxFaults       \* the bound on Redis errors and restarts

ASSUME TokenAssumption ==
    /\ Second \in Nat \ {0}
    /\ Lifetime \in Nat \ {0}
    /\ MaxTime \in Nat
    /\ MaxFaults \in Nat

VARIABLES
    now,        \* the clock of the API and of Redis, in ticks
    exp,        \* the exp claim of each token, in seconds
    entry,      \* when the Redis key revoked_token:{jti} ends, in ticks
    logout,     \* the logout request of each token
    use,        \* the latest request made with each token
    faults,     \* how many Redis errors and restarts there were
    lost        \* history: the tokens whose entry a restart took

tokenVars == <<now, exp, entry, logout, use, faults, lost>>

NotIssued == -1
NoEntry == 0

TokenInit ==
    /\ now = 0
    /\ exp = [t \in Tokens |-> NotIssued]
    /\ entry = [t \in Tokens |-> NoEntry]
    /\ logout = [t \in Tokens |-> [pc |-> "none", ttl |-> 1]]
    /\ use = [t \in Tokens |-> "none"]
    /\ faults = 0
    /\ lost = {}

Larger(a, b) == IF a > b THEN a ELSE b
-----------------------------------------------------------------------------
(* create_access_token; the encoder drops the fraction of a second.        *)
ExpiryOf(t) == (now + Lifetime * Second) \div Second

Issue(t) ==
    /\ exp[t] = NotIssued
    /\ exp' = [exp EXCEPT ![t] = ExpiryOf(t)]
    /\ UNCHANGED <<now, entry, logout, use, faults, lost>>

DecodesExpired(t) == exp[t] # NotIssued

(* decode_access_token accepts a token through the second of its exp.      *)
Decodes(t) == exp[t] # NotIssued /\ now \div Second <= exp[t]

(* is_revoked.                                                             *)
Blocked(t) == now < entry[t]

RemainingShort(ticks) == Larger(1, ticks \div Second - 1)

(* max(1, int((expires_at - now).total_seconds())); int() drops the        *)
(* fraction, also of what is below zero.                                   *)
Remaining(ticks) == Larger(1, IF ticks < 0 THEN 0 ELSE ticks \div Second)

(* POST /auth/logout with the token itself: revoke_token up to the SET.    *)
(* It is called with the token's exp, as its docstring and the tests have  *)
(* it, or with a lifetime from now, as the endpoint in                     *)
(* docs/POST_V1_REVOCATION_AUDIT_TENANT_PATCH.md does; revoke_token reads  *)
(* the clock after that.                                                   *)
TimeLeft(t) == {exp[t] * Second - now, Lifetime * Second, Lifetime * Second - 1}

StartLogout(t) ==
    /\ logout[t].pc \in {"none", "failed"}
    /\ Decodes(t)
    /\ ~ Blocked(t)
    /\ \E ticks \in TimeLeft(t) :
          logout' = [logout EXCEPT ![t] = [pc |-> "set", ttl |-> Remaining(ticks)]]
    /\ UNCHANGED <<now, exp, entry, use, faults, lost>>

FinishLogout(t) ==
    /\ logout[t].pc = "set"
    /\ entry' = [entry EXCEPT ![t] = now + logout[t].ttl * Second]
    /\ logout' = [logout EXCEPT ![t].pc = "done"]
    /\ UNCHANGED <<now, exp, use, faults, lost>>

StartUse(t) ==
    /\ use[t] # "decoded"
    /\ exp[t] # NotIssued
    /\ use' = [use EXCEPT ![t] = IF Decodes(t) THEN "decoded" ELSE "rejected"]
    /\ UNCHANGED <<now, exp, entry, logout, faults, lost>>

FinishUse(t) ==
    /\ use[t] = "decoded"
    /\ use' = [use EXCEPT ![t] = IF Blocked(t) THEN "rejected" ELSE "accepted"]
    /\ UNCHANGED <<now, exp, entry, logout, faults, lost>>

Request(t) == StartLogout(t) \/ FinishLogout(t) \/ StartUse(t) \/ FinishUse(t)
-----------------------------------------------------------------------------
Fault ==
    /\ faults < MaxFaults
    /\ faults' = faults + 1

(* revoke_token raises; Redis may have set the key all the same.           *)
LogoutFails(t) ==
    /\ Fault
    /\ logout[t].pc = "set"
    /\ logout' = [logout EXCEPT ![t].pc = "failed"]
    /\ \/ UNCHANGED entry
       \/ entry' = [entry EXCEPT ![t] = now + logout[t].ttl * Second]
    /\ UNCHANGED <<now, exp, use, lost>>

(* is_revoked fails open.                                                  *)
UseUnchecked(t) ==
    /\ Fault
    /\ use[t] = "decoded"
    /\ use' = [use EXCEPT ![t] = "accepted"]
    /\ UNCHANGED <<now, exp, entry, logout, lost>>

(* Redis has no volume (docker-compose.yml): a restart empties it.         *)
RedisRestarts ==
    /\ Fault
    /\ entry' = [t \in Tokens |-> NoEntry]
    /\ lost' = lost \cup {t \in Tokens : Blocked(t)}
    /\ UNCHANGED <<now, exp, logout, use>>

Tick ==
    /\ now < MaxTime
    /\ now' = now + 1
    /\ UNCHANGED <<exp, entry, logout, use, faults, lost>>

(* What happens to tokens once they are issued, but for the time.          *)
TokenStep ==
    \/ \E t \in Tokens : Request(t) \/ LogoutFails(t) \/ UseUnchecked(t)
    \/ RedisRestarts
-----------------------------------------------------------------------------
(* A request that Redis answers lets the token in after its logout.        *)
AcceptsLoggedOut(t) ==
    /\ use[t] = "decoded" /\ use'[t] = "accepted"
    /\ logout[t].pc = "done"
    /\ t \notin lost
    /\ faults' = faults

(* Whenever the logout fell, and whatever time its steps took, its token   *)
(* is let in again at most in the last second before exp or in the second  *)
(* of exp: that is what the whole seconds of the lifetime cut off.         *)
RejectedUntilLastSecond ==
    [][\A t \in Tokens : AcceptsLoggedOut(t) => now >= (exp[t] - 1) * Second]_tokenVars
=============================================================================

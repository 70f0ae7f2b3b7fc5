---------------------------- MODULE RateLimiter ----------------------------
(***************************************************************************)
(* The fixed-window rate limiter of backend/rate_limit.py.  A call reads   *)
(* the clock, counts itself with INCR in the key of its user and window,   *)
(* gives a key it has created its lifetime with EXPIRE, and is refused     *)
(* when the count is above the limit.  The calls run in the API's threads  *)
(* and share nothing but Redis; time passes between any two of their steps. *)
(***************************************************************************)
EXTENDS Integers, FiniteSets

CONSTANTS
    Users,      \* the usernames that key the counters
    Calls,      \* the calls of RateLimiter.check
    Limit,      \* limit: the calls of a user a window admits
    Window,     \* window_seconds
    MaxTime,    \* the bound on the clock
    MaxFaults   \* the bound on errors, deaths, restarts and repeated INCRs

ASSUME RateAssumption ==
    /\ IsFiniteSet(Calls)
    /\ Limit \in Nat \ {0}
    /\ Window \in Nat \ {0}
    /\ MaxTime \in Nat
    /\ MaxFaults \in Nat

VARIABLES
    now,        \* time.time(), in whole seconds; Redis keeps the same time
    key,        \* ratelimit:{user}:{window} in Redis: its count and its end
    call,       \* what each call has done
    faults,     \* how many faults there were
    wiped,      \* history: the keys Redis lost while it held them
    hurt,       \* history: the keys whose EXPIRE a fault prevented
    extra       \* history: per key, the INCRs no call has its count from

history == <<wiped, hurt, extra>>
vars == <<now, key, call, faults, history>>

WindowOf(t) == t \div Window
Windows == 0 .. WindowOf(MaxTime)
Keys == Users \X Windows

Never == -1     \* the end of a key without a lifetime

NoKey == [count |-> 0, ends |-> Never]

(* Redis drops a key when its time is up.                                  *)
Live(k) == key[k].count > 0 /\ (key[k].ends = Never \/ now < key[k].ends)

Held(k) == IF Live(k) THEN key[k] ELSE NoKey

Idle == [pc |-> "idle", user |-> CHOOSE u \in Users : TRUE, window |-> 0,
         count |-> 0, punctual |-> FALSE]

KeyOf(c) == <<call[c].user, call[c].window>>

Init ==
    /\ now = 0
    /\ key = [k \in Keys |-> NoKey]
    /\ call = [c \in Calls |-> Idle]
    /\ faults = 0
    /\ wiped = {}
    /\ hurt = {}
    /\ extra = [k \in Keys |-> 0]
-----------------------------------------------------------------------------
(* window = int(time.time()) // window_seconds                             *)
Arrive(c, u) ==
    /\ call[c].pc = "idle"
    /\ call' = [call EXCEPT ![c] = [@ EXCEPT !.pc = "incr", !.user = u,
                                             !.window = WindowOf(now)]]
    /\ UNCHANGED <<now, key, faults, history>>

AfterCountLate(n) == IF n = 2 THEN "expire" ELSE "verdict"

AfterCount(n) == IF n = 1 THEN "expire" ELSE "verdict"

Counted(k) == [Held(k) EXCEPT !.count = @ + 1]

(* count = client.incr(redis_key); a key it creates has no lifetime yet.   *)
Incr(c) ==
    /\ call[c].pc = "incr"
    /\ key' = [key EXCEPT ![KeyOf(c)] = Counted(KeyOf(c))]
    /\ call' = [call EXCEPT ![c] =
                  [@ EXCEPT !.pc = AfterCount(Held(KeyOf(c)).count + 1),
                            !.count = Held(KeyOf(c)).count + 1,
                            !.punctual = call[c].window = WindowOf(now)]]
    /\ UNCHANGED <<now, faults, history>>

LifetimeShort == Window - 1

Lifetime == Window

(* client.expire(redis_key, window_seconds) does nothing to a missing key. *)
Expire(c) ==
    /\ call[c].pc = "expire"
    /\ key' = IF Live(KeyOf(c))
              THEN [key EXCEPT ![KeyOf(c)].ends = now + Lifetime]
              ELSE key
    /\ call' = [call EXCEPT ![c].pc = "verdict"]
    /\ UNCHANGED <<now, faults, history>>

OverLimitEarly(n) == n >= Limit

OverLimit(n) == n > Limit

Verdict(c) ==
    /\ call[c].pc = "verdict"
    /\ call' = [call EXCEPT ![c].pc =
                  IF OverLimit(call[c].count) THEN "refused" ELSE "admitted"]
    /\ UNCHANGED <<now, key, faults, history>>

Check(c) == (\E u \in Users : Arrive(c, u)) \/ Incr(c) \/ Expire(c) \/ Verdict(c)
-----------------------------------------------------------------------------
Fault ==
    /\ faults < MaxFaults
    /\ faults' = faults + 1

(* Redis has counted but the call has no reply.                            *)
CountedForNothing(k) ==
    /\ key' = [key EXCEPT ![k] = Counted(k)]
    /\ hurt' = hurt \cup {k}
    /\ extra' = [extra EXCEPT ![k] = @ + 1]

(* INCR or EXPIRE raises redis.RedisError, before or after Redis has done  *)
(* it, and the call is let through.                                        *)
IncrRaises(c) ==
    /\ Fault
    /\ call[c].pc = "incr"
    /\ UNCHANGED <<key, hurt, extra>> \/ CountedForNothing(KeyOf(c))
    /\ call' = [call EXCEPT ![c].pc = "open"]
    /\ UNCHANGED <<now, wiped>>

ExpireRaises(c) ==
    /\ Fault
    /\ call[c].pc = "expire"
    /\ \/ UNCHANGED key
       \/ /\ Live(KeyOf(c))
          /\ key' = [key EXCEPT ![KeyOf(c)].ends = now + Lifetime]
    /\ hurt' = hurt \cup {KeyOf(c)}
    /\ call' = [call EXCEPT ![c].pc = "open"]
    /\ UNCHANGED <<now, wiped, extra>>

(* The reply to INCR is lost and redis-py sends the command again.         *)
IncrRepeats(c) ==
    /\ Fault
    /\ call[c].pc = "incr"
    /\ CountedForNothing(KeyOf(c))
    /\ UNCHANGED <<now, call, wiped>>

(* The API process dies during a call.                                     *)
Dies(c) ==
    /\ Fault
    /\ call[c].pc \in {"incr", "expire", "verdict"}
    /\ call' = [call EXCEPT ![c].pc = "dead"]
    /\ hurt' = IF call[c].pc = "expire" THEN hurt \cup {KeyOf(c)} ELSE hurt
    /\ UNCHANGED <<now, key, wiped, extra>>

(* Redis has no volume (docker-compose.yml): a restart empties it.         *)
RedisRestarts ==
    /\ Fault
    /\ key' = [k \in Keys |-> NoKey]
    /\ wiped' = wiped \cup {k \in Keys : Live(k)}
    /\ UNCHANGED <<now, call, hurt, extra>>

Tick ==
    /\ now < MaxTime
    /\ now' = now + 1
    /\ UNCHANGED <<key, call, faults, history>>

Next ==
    \/ \E c \in Calls : Check(c)
    \/ \E c \in Calls : IncrRaises(c) \/ ExpireRaises(c) \/ IncrRepeats(c) \/ Dies(c)
    \/ RedisRestarts
    \/ Tick

Spec == Init /\ [][Next]_vars
-----------------------------------------------------------------------------
HasCounted(c) == call[c].count > 0

(* "at most `limit` calls per `window_seconds` per key": however the calls *)
(* interleave, and whatever raises or dies, a window admits no more than   *)
(* Limit of the calls of a user that were counted while it was open, as    *)
(* long as Redis kept its key.  The key must not end before its window.    *)
AtMostLimit ==
    \A k \in Keys \ wiped :
        Cardinality({c \in Calls : /\ call[c].pc = "admitted"
                                   /\ KeyOf(c) = k
                                   /\ call[c].punctual}) <= Limit

(* A user is refused only when the window was used up: Limit other calls   *)
(* of the same user counted themselves in the same window, except for the  *)
(* INCRs that Redis did and nobody had the reply of.                       *)
RefusedOnlyWhenFull ==
    \A c \in Calls :
        call[c].pc = "refused" =>
            Cardinality({d \in Calls \ {c} : HasCounted(d) /\ KeyOf(d) = KeyOf(c)})
                + extra[KeyOf(c)] >= Limit

(* Redis does not fill up with the counters of past windows: a key without *)
(* a lifetime belongs to a call that is about to set it, unless a fault    *)
(* came between its INCR and its EXPIRE.                                   *)
KeysExpire ==
    \A k \in Keys :
        (Live(k) /\ key[k].ends = Never /\ k \notin hurt) =>
            \E c \in Calls : call[c].pc = "expire" /\ KeyOf(c) = k
-----------------------------------------------------------------------------
(***************************************************************************)
(* The inductive invariant behind these properties.                        *)
(***************************************************************************)
Call == [pc : {"idle", "incr", "expire", "verdict", "admitted", "refused",
               "open", "dead"},
         user : Users \cup {Idle.user},
         window : Nat,
         count : Nat,
         punctual : BOOLEAN]

TypeOK ==
    /\ now \in 0 .. MaxTime
    /\ key \in [Keys -> [count : Nat, ends : Nat \cup {Never}]]
    /\ call \in [Calls -> Call]
    /\ faults \in Nat
    /\ wiped \subseteq Keys
    /\ hurt \subseteq Keys
    /\ extra \in [Keys -> Nat]

(* A call has its key once it has arrived, its count once it was counted.  *)
CallInv(c) ==
    /\ call[c].pc # "idle" => KeyOf(c) \in Keys /\ call[c].window <= WindowOf(now)
    /\ call[c].pc \in {"idle", "incr"} => call[c].count = 0
    /\ call[c].count = 0 => ~call[c].punctual
    /\ call[c].pc \in {"expire", "verdict"} => call[c].count > 0
    /\ call[c].pc = "admitted" => call[c].count \in 1 .. Limit
    /\ call[c].pc = "refused" => call[c].count > Limit

(* The calls that have a count of k; nothing is counted more often than    *)
(* they and the INCRs without a reply account for.                         *)
CountedIn(k) == {c \in Calls : HasCounted(c) /\ KeyOf(c) = k}

CountsAccounted ==
    /\ \A k \in Keys : key[k].count <= Cardinality(CountedIn(k)) + extra[k]
    /\ \A c \in Calls :
          HasCounted(c) =>
              call[c].count <= Cardinality(CountedIn(KeyOf(c))) + extra[KeyOf(c)]

PunctualIn(k) == {c \in Calls : call[c].punctual /\ KeyOf(c) = k}

(* A key outlives its window, so that the calls counted in the window by a *)
(* key Redis kept have counts that differ, none above the key's.           *)
OutlivesWindow(k) ==
    key[k].ends # Never => key[k].ends >= (k[2] + 1) * Window

CountsDiffer(k) ==
    /\ \A c \in PunctualIn(k) :
          k[2] = WindowOf(now) => Live(k) /\ call[c].count <= key[k].count
    /\ \A c, d \in PunctualIn(k) : call[c].count = call[d].count => c = d

RateInv ==
    /\ \A c \in Calls : CallInv(c)
    /\ CountsAccounted
    /\ \A k \in Keys : OutlivesWindow(k)
    /\ \A k \in Keys \ wiped : CountsDiffer(k)
    /\ KeysExpire
=============================================================================

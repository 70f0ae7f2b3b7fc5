------------------------- MODULE RateLimiterProofs -------------------------
(***************************************************************************)
(* Proofs about RateLimiter, for every limit and window, any number of     *)
(* users and of concurrent calls, and any number of faults.                *)
(***************************************************************************)
EXTENDS RateLimiter, FiniteSetTheorems, TLAPS

(* Windows follow each other without gap or overlap.                       *)
LEMMA TimeOfWindow ==
    ASSUME NEW t \in Nat
    PROVE  /\ WindowOf(t) \in Nat
           /\ t < (WindowOf(t) + 1) * Window
           /\ \A w \in Nat : w <= WindowOf(t) => w * Window <= t
           /\ \A s \in Nat : s <= t => WindowOf(s) <= WindowOf(t)
<1>1. WindowOf(t) \in Nat /\ t < (WindowOf(t) + 1) * Window
  BY RateAssumption DEF WindowOf
<1>2. ASSUME NEW w \in Nat, w <= WindowOf(t) PROVE w * Window <= t
  BY <1>2, RateAssumption DEF WindowOf
<1>3. ASSUME NEW s \in Nat, s <= t PROVE WindowOf(s) <= WindowOf(t)
  BY <1>3, RateAssumption DEF WindowOf
<1>4. QED
  BY <1>1, <1>2, <1>3

LEMMA KeyType ==
    ASSUME NEW k \in Keys
    PROVE  k[1] \in Users /\ k[2] \in Nat /\ k = <<k[1], k[2]>>
<1>1. WindowOf(MaxTime) \in Nat
  BY TimeOfWindow, RateAssumption
<1>2. QED
  BY <1>1 DEF Keys, Windows

LEMMA NowType == TypeOK => now \in Nat /\ WindowOf(now) \in Windows
<1>. SUFFICES ASSUME TypeOK PROVE now \in Nat /\ WindowOf(now) \in Windows
  OBVIOUS
<1>1. now \in Nat /\ MaxTime \in Nat /\ now <= MaxTime
  BY RateAssumption DEF TypeOK
<1>2. QED
  BY <1>1, TimeOfWindow DEF Windows

(* What INCR makes of a key.                                               *)
LEMMA CountedKey ==
    ASSUME TypeOK, NEW k \in Keys
    PROVE  /\ Held(k) \in [count : Nat, ends : Nat \cup {Never}]
           /\ Counted(k) \in [count : Nat, ends : Nat \cup {Never}]
           /\ Counted(k).count = Held(k).count + 1
           /\ Counted(k).ends = Held(k).ends
           /\ Held(k).count <= key[k].count
           /\ Live(k) => Held(k) = key[k]
           /\ ~Live(k) => Held(k) = NoKey
<1>1. NoKey \in [count : Nat, ends : Nat \cup {Never}] /\ NoKey.count = 0
  BY DEF NoKey
<1>2. key[k] \in [count : Nat, ends : Nat \cup {Never}]
  BY DEF TypeOK
<1>3. /\ Held(k) \in [count : Nat, ends : Nat \cup {Never}]
      /\ Held(k).count <= key[k].count
      /\ Live(k) => Held(k) = key[k]
      /\ ~Live(k) => Held(k) = NoKey
  BY <1>1, <1>2 DEF Held
<1>4. Counted(k) = [Held(k) EXCEPT !.count = Held(k).count + 1]
  BY DEF Counted
<1>5. QED
  BY <1>3, <1>4

(* A key that was just counted is there.                                   *)
LEMMA CountedIsLive ==
    ASSUME TypeOK, NEW k \in Keys, key'[k] = Counted(k), now' = now
    PROVE  Live(k)'
<1>1. CASE Live(k)
  BY <1>1, CountedKey DEF Live, TypeOK
<1>2. CASE ~Live(k)
  BY <1>2, CountedKey DEF Live, NoKey
<1>3. QED
  BY <1>1, <1>2

LEMMA InitInv == Init => TypeOK /\ RateInv
<1>. SUFFICES ASSUME Init PROVE TypeOK /\ RateInv
  OBVIOUS
<1>1. /\ Idle \in Call /\ Idle.pc = "idle" /\ Idle.count = 0 /\ Idle.punctual = FALSE
      /\ NoKey \in [count : Nat, ends : Nat \cup {Never}]
      /\ NoKey.count = 0 /\ NoKey.ends = Never
  BY DEF Idle, Call, NoKey
<1>2. TypeOK
  BY <1>1, RateAssumption DEF Init, TypeOK
<1>3. \A c \in Calls : CallInv(c) /\ ~HasCounted(c) /\ ~call[c].punctual
  BY <1>1 DEF Init, CallInv, HasCounted
<1>4. CountsAccounted
  <2>1. \A k \in Keys : CountedIn(k) = {}
    BY <1>3 DEF CountedIn
  <2>2. QED
    BY <1>1, <1>3, <2>1, FS_EmptySet DEF Init, CountsAccounted
<1>5. \A k \in Keys : OutlivesWindow(k) /\ CountsDiffer(k) /\ ~Live(k)
  BY <1>1, <1>3 DEF Init, OutlivesWindow, CountsDiffer, PunctualIn, Live
<1>6. QED
  BY <1>2, <1>3, <1>4, <1>5 DEF RateInv, KeysExpire
-----------------------------------------------------------------------------
(***************************************************************************)
(* All steps but INCR's leave the counts that calls have; what each part   *)
(* of the invariant asks of them.                                          *)
(***************************************************************************)
SameCounts ==
    \A q \in Calls : /\ call'[q].count = call[q].count
                     /\ call'[q].punctual = call[q].punctual
                     /\ call[q].count > 0 => KeyOf(q)' = KeyOf(q)

LEMMA SameSets ==
    ASSUME TypeOK, RateInv, SameCounts
    PROVE  /\ \A k : CountedIn(k)' = CountedIn(k)
           /\ \A k : PunctualIn(k)' = PunctualIn(k)
<1>1. \A q \in Calls : call[q].count \in Nat /\ (call[q].punctual => call[q].count > 0)
  BY DEF TypeOK, Call, RateInv, CallInv
<1>2. QED
  BY <1>1 DEF SameCounts, CountedIn, PunctualIn, HasCounted

LEMMA AccountedKept ==
    ASSUME TypeOK, RateInv, TypeOK', SameCounts,
           \A k \in Keys : /\ extra'[k] >= extra[k]
                           /\ key'[k].count + extra[k] <= key[k].count + extra'[k]
    PROVE  CountsAccounted'
<1>1. \A k : Cardinality(CountedIn(k))' = Cardinality(CountedIn(k))
             /\ Cardinality(CountedIn(k)) \in Nat
  <2>1. \A k : IsFiniteSet(CountedIn(k))
    BY RateAssumption, FS_Subset DEF CountedIn
  <2>2. QED
    BY <2>1, SameSets, FS_CardinalityType
<1>2. \A k \in Keys : /\ extra[k] \in Nat /\ extra'[k] \in Nat
                      /\ key[k].count \in Nat /\ key'[k].count \in Nat
  BY DEF TypeOK
<1>3. ASSUME NEW k \in Keys
      PROVE  key'[k].count <= Cardinality(CountedIn(k))' + extra'[k]
  <2>1. key[k].count <= Cardinality(CountedIn(k)) + extra[k]
    BY DEF RateInv, CountsAccounted
  <2>2. QED
    BY <1>1, <1>2, <2>1
<1>4. ASSUME NEW c \in Calls, HasCounted(c)'
      PROVE  call'[c].count <= Cardinality(CountedIn(KeyOf(c)))' + extra'[KeyOf(c)']
  <2>1. HasCounted(c) /\ KeyOf(c)' = KeyOf(c) /\ call'[c].count = call[c].count
    BY <1>4 DEF SameCounts, HasCounted
  <2>2. KeyOf(c) \in Keys /\ call[c].count \in Nat
    BY <2>1 DEF RateInv, CallInv, HasCounted, TypeOK, Call
  <2>3. call[c].count <= Cardinality(CountedIn(KeyOf(c))) + extra[KeyOf(c)]
    BY <2>1 DEF RateInv, CountsAccounted
  <2>4. CountedIn(KeyOf(c))' = CountedIn(KeyOf(c))
    BY <2>1, SameSets
  <2>5. QED
    BY <1>1, <1>2, <2>1, <2>2, <2>3, <2>4
<1>5. QED
  BY <1>3, <1>4 DEF CountsAccounted

LEMMA CountsDifferKept ==
    ASSUME TypeOK, RateInv, TypeOK', SameCounts, now <= now',
           NEW k \in Keys \ wiped,
           Live(k) /\ k[2] = WindowOf(now')
               => Live(k)' /\ key'[k].count >= key[k].count
    PROVE  CountsDiffer(k)'
<1>1. /\ PunctualIn(k)' = PunctualIn(k)
      /\ \A c \in PunctualIn(k) : call'[c].count = call[c].count
  BY SameSets DEF SameCounts, PunctualIn
<1>2. \A c, d \in PunctualIn(k)' : call'[c].count = call'[d].count => c = d
  BY <1>1 DEF RateInv, CountsDiffer
<1>3. ASSUME NEW c \in PunctualIn(k), k[2] = WindowOf(now')
      PROVE  Live(k)' /\ call'[c].count <= key'[k].count
  <2>1. call[c].window = k[2] /\ k[2] <= WindowOf(now)
    BY DEF PunctualIn, KeyOf, RateInv, CallInv
  <2>2. WindowOf(now) <= WindowOf(now') /\ WindowOf(now) \in Nat /\ k[2] \in Nat
    BY NowType, TimeOfWindow, KeyType DEF TypeOK
  <2>3. Live(k) /\ call[c].count <= key[k].count
    BY <1>3, <2>1, <2>2 DEF RateInv, CountsDiffer
  <2>4. Live(k)' /\ key'[k].count >= key[k].count
    BY <1>3, <2>3
  <2>5. /\ c \in Calls /\ call'[c].count = call[c].count
        /\ call[c].count \in Nat /\ key[k].count \in Nat /\ key'[k].count \in Nat
    BY <1>1 DEF PunctualIn, TypeOK, Call
  <2>6. QED
    BY <2>3, <2>4, <2>5
<1>4. QED
  BY <1>1, <1>2, <1>3 DEF CountsDiffer

LEMMA QuietStep ==
    ASSUME TypeOK, RateInv, TypeOK', SameCounts, now <= now', wiped \subseteq wiped',
           \A c \in Calls : CallInv(c)',
           \A k \in Keys : /\ extra'[k] >= extra[k]
                           /\ key'[k].count + extra[k] <= key[k].count + extra'[k],
           \A k \in Keys \ wiped' :
               Live(k) /\ k[2] = WindowOf(now')
                   => Live(k)' /\ key'[k].count >= key[k].count,
           \A k \in Keys : OutlivesWindow(k)',
           KeysExpire'
    PROVE  RateInv'
<1>1. CountsAccounted'
  BY AccountedKept
<1>2. \A k \in Keys \ wiped' : CountsDiffer(k)'
  BY CountsDifferKept
<1>3. QED
  BY <1>1, <1>2 DEF RateInv

(* A call that moves on keeps its key and its count.                       *)
LEMMA PcStep ==
    ASSUME TypeOK, RateInv, NEW c \in Calls,
           NEW pc \in {"verdict", "admitted", "refused", "open", "dead"},
           call[c].pc \in {"incr", "expire", "verdict"},
           call' = [call EXCEPT ![c].pc = pc], now' = now,
           pc = "verdict" => call[c].pc = "expire",
           pc = "admitted" => call[c].count \in 1 .. Limit,
           pc = "refused" => call[c].count > Limit
    PROVE  /\ call' \in [Calls -> Call]
           /\ SameCounts
           /\ \A q \in Calls : CallInv(q)'
           /\ \A q \in Calls \ {c} : call'[q] = call[q] /\ KeyOf(q)' = KeyOf(q)
<1>1. /\ call \in [Calls -> Call]
      /\ \A q \in Calls : call[q] \in Call /\ CallInv(q)
  BY DEF TypeOK, RateInv
<1>2. /\ call' \in [Calls -> Call] /\ call'[c].pc = pc
      /\ call'[c].user = call[c].user /\ call'[c].window = call[c].window
      /\ call'[c].count = call[c].count /\ call'[c].punctual = call[c].punctual
      /\ \A q \in Calls \ {c} : call'[q] = call[q]
  BY <1>1 DEF Call
<1>3. \A q \in Calls : KeyOf(q)' = KeyOf(q)
  BY <1>2 DEF KeyOf
<1>4. SameCounts
  BY <1>2, <1>3 DEF SameCounts
<1>5. CallInv(c)'
  BY <1>1, <1>2, <1>3 DEF CallInv
<1>6. ASSUME NEW q \in Calls \ {c} PROVE CallInv(q)'
  BY <1>1, <1>2, <1>3, <1>6 DEF CallInv
<1>7. QED
  BY <1>2, <1>3, <1>4, <1>5, <1>6

LEMMA TickInv ==
    ASSUME TypeOK, RateInv, Tick
    PROVE  TypeOK' /\ RateInv'
<1>1. /\ now \in Nat /\ now' = now + 1 /\ now' \in 0 .. MaxTime
      /\ UNCHANGED <<key, call, faults, wiped, hurt, extra>>
  BY RateAssumption DEF Tick, history, TypeOK
<1>2. TypeOK'
  BY <1>1 DEF TypeOK
<1>3. SameCounts
  BY <1>1 DEF SameCounts, KeyOf
<1>4. \A c \in Calls : CallInv(c)'
  <2>1. WindowOf(now) \in Nat /\ WindowOf(now') \in Nat /\ WindowOf(now) <= WindowOf(now')
    BY <1>1, TimeOfWindow
  <2>2. ASSUME NEW c \in Calls PROVE CallInv(c)'
    <3>1. CallInv(c) /\ call[c].window \in Nat
      BY DEF RateInv, TypeOK, Call
    <3>2. QED
      BY <1>1, <2>1, <3>1 DEF CallInv, KeyOf
  <2>3. QED
    BY <2>2
<1>5. \A k \in Keys : OutlivesWindow(k)'
  BY <1>1 DEF RateInv, OutlivesWindow
<1>6. ASSUME NEW k \in Keys, Live(k), k[2] = WindowOf(now')
      PROVE  Live(k)'
  <2>1. now' < (k[2] + 1) * Window
    BY <1>1, <1>6, TimeOfWindow
  <2>2. key[k].ends # Never => key[k].ends >= (k[2] + 1) * Window
    BY DEF RateInv, OutlivesWindow
  <2>3. key[k].ends \in Nat \cup {Never} /\ (k[2] + 1) * Window \in Nat
    BY KeyType, RateAssumption DEF TypeOK
  <2>4. QED
    BY <1>1, <1>6, <2>1, <2>2, <2>3 DEF Live
<1>7. KeysExpire'
  <2>1. \A k \in Keys : Live(k)' /\ key[k].ends = Never => Live(k)
    BY <1>1 DEF Live
  <2>2. QED
    BY <1>1, <2>1 DEF RateInv, KeysExpire, KeyOf
<1>8. QED
  BY <1>1, <1>2, <1>3, <1>4, <1>5, <1>6, <1>7, QuietStep DEF TypeOK

LEMMA RedisRestartsInv ==
    ASSUME TypeOK, RateInv, RedisRestarts
    PROVE  TypeOK' /\ RateInv'
<1>1. /\ UNCHANGED <<now, call, hurt, extra>> /\ faults' \in Nat
      /\ key' = [k \in Keys |-> NoKey]
      /\ wiped' = wiped \cup {k \in Keys : Live(k)}
  BY DEF RedisRestarts, Fault, TypeOK
<1>2. NoKey \in [count : Nat, ends : Nat \cup {Never}]
      /\ NoKey.count = 0 /\ NoKey.ends = Never
  BY DEF NoKey
<1>3. TypeOK'
  BY <1>1, <1>2 DEF TypeOK
<1>4. SameCounts
  BY <1>1 DEF SameCounts, KeyOf
<1>5. \A c \in Calls : CallInv(c)'
  BY <1>1 DEF RateInv, CallInv, KeyOf
<1>6. \A k \in Keys : OutlivesWindow(k)' /\ ~Live(k)'
  BY <1>1, <1>2 DEF OutlivesWindow, Live
<1>7. KeysExpire'
  BY <1>6 DEF KeysExpire
<1>8. \A k \in Keys : key'[k].count <= key[k].count
  BY <1>1, <1>2 DEF TypeOK
<1>9. QED
  BY <1>1, <1>3, <1>4, <1>5, <1>6, <1>7, <1>8, QuietStep DEF TypeOK

(* A step that touches no key.                                             *)
LEMMA KeysKept ==
    ASSUME TypeOK, RateInv, TypeOK', SameCounts, \A c \in Calls : CallInv(c)',
           UNCHANGED <<now, key, extra, wiped>>, hurt \subseteq hurt',
           \A q \in Calls : call[q].pc = "expire" =>
               \/ call'[q].pc = "expire" /\ KeyOf(q)' = KeyOf(q)
               \/ KeyOf(q) \in hurt'
    PROVE  RateInv'
<1>1. \A k \in Keys : OutlivesWindow(k)' /\ Live(k)' = Live(k)
  BY DEF RateInv, OutlivesWindow, Live
<1>2. KeysExpire'
  BY <1>1 DEF RateInv, KeysExpire
<1>3. QED
  BY <1>1, <1>2, QuietStep DEF TypeOK

LEMMA ArriveInv ==
    ASSUME TypeOK, RateInv, NEW c \in Calls, NEW u \in Users, Arrive(c, u)
    PROVE  TypeOK' /\ RateInv'
<1>1. /\ UNCHANGED <<now, key, faults, wiped, hurt, extra>>
      /\ call[c].pc = "idle" /\ call[c].count = 0
      /\ call[c] \in Call /\ call \in [Calls -> Call]
      /\ WindowOf(now) \in Windows /\ WindowOf(now) \in Nat
  BY NowType, TimeOfWindow DEF Arrive, history, RateInv, CallInv, TypeOK
<1>2. /\ call' \in [Calls -> Call]
      /\ call'[c].pc = "incr" /\ call'[c].user = u /\ call'[c].window = WindowOf(now)
      /\ call'[c].count = call[c].count /\ call'[c].punctual = call[c].punctual
      /\ \A q \in Calls \ {c} : call'[q] = call[q] /\ KeyOf(q)' = KeyOf(q)
  BY <1>1 DEF Arrive, Call, KeyOf
<1>3. TypeOK' /\ SameCounts
  BY <1>1, <1>2 DEF TypeOK, SameCounts
<1>4. CallInv(c)'
  <2>1. KeyOf(c)' \in Keys
    BY <1>1, <1>2 DEF KeyOf, Keys
  <2>2. CallInv(c)
    BY DEF RateInv
  <2>3. QED
    BY <1>1, <1>2, <2>1, <2>2 DEF CallInv
<1>5. \A q \in Calls \ {c} : CallInv(q)'
  BY <1>1, <1>2 DEF RateInv, CallInv
<1>6. \A q \in Calls : call[q].pc = "expire"
                      => call'[q].pc = "expire" /\ KeyOf(q)' = KeyOf(q)
  BY <1>1, <1>2
<1>7. QED
  BY <1>1, <1>3, <1>4, <1>5, <1>6, KeysKept

LEMMA VerdictInv ==
    ASSUME TypeOK, RateInv, NEW c \in Calls, Verdict(c)
    PROVE  TypeOK' /\ RateInv'
<1>1. /\ UNCHANGED <<now, key, faults, wiped, hurt, extra>>
      /\ call[c].pc = "verdict" /\ call[c].count \in Nat /\ call[c].count > 0
  BY DEF Verdict, history, RateInv, CallInv, TypeOK, Call
<1>2. PICK pc \in {"admitted", "refused"} :
          /\ call' = [call EXCEPT ![c].pc = pc]
          /\ pc = "admitted" => call[c].count \in 1 .. Limit
          /\ pc = "refused" => call[c].count > Limit
  <2>1. CASE OverLimit(call[c].count)
    BY <2>1 DEF Verdict, OverLimit
  <2>2. CASE ~OverLimit(call[c].count)
    <3>1. call[c].count \in 1 .. Limit
      BY <1>1, <2>2, RateAssumption DEF OverLimit
    <3>2. call' = [call EXCEPT ![c].pc = "admitted"]
      BY <2>2 DEF Verdict
    <3>3. QED
      BY <3>1, <3>2
  <2>3. QED
    BY <2>1, <2>2
<1>3. /\ call' \in [Calls -> Call] /\ SameCounts /\ \A q \in Calls : CallInv(q)'
      /\ \A q \in Calls \ {c} : call'[q] = call[q] /\ KeyOf(q)' = KeyOf(q)
  BY <1>1, <1>2, PcStep
<1>4. TypeOK'
  BY <1>1, <1>3 DEF TypeOK
<1>5. QED
  BY <1>1, <1>3, <1>4, KeysKept

LEMMA DiesInv ==
    ASSUME TypeOK, RateInv, NEW c \in Calls, Dies(c)
    PROVE  TypeOK' /\ RateInv'
<1>1. /\ UNCHANGED <<now, key, wiped, extra>> /\ faults' \in Nat
      /\ call[c].pc \in {"incr", "expire", "verdict"} /\ KeyOf(c) \in Keys
      /\ hurt' = IF call[c].pc = "expire" THEN hurt \cup {KeyOf(c)} ELSE hurt
  BY DEF Dies, Fault, RateInv, CallInv, TypeOK
<1>2. /\ call' \in [Calls -> Call] /\ SameCounts /\ \A q \in Calls : CallInv(q)'
      /\ \A q \in Calls \ {c} : call'[q] = call[q] /\ KeyOf(q)' = KeyOf(q)
  BY <1>1, PcStep DEF Dies
<1>3. TypeOK'
  BY <1>1, <1>2 DEF TypeOK
<1>4. QED
  BY <1>1, <1>2, <1>3, KeysKept

(* A call whose EXPIRE, if it came through, found the key.                 *)
LEMMA ExpireStepInv ==
    ASSUME TypeOK, RateInv, NEW c \in Calls, NEW pc \in {"verdict", "open"},
           call[c].pc = "expire", call' = [call EXCEPT ![c].pc = pc],
           \/ /\ UNCHANGED key
              /\ Live(KeyOf(c)) => KeyOf(c) \in hurt'
           \/ Live(KeyOf(c)) /\ key' = [key EXCEPT ![KeyOf(c)].ends = now + Lifetime],
           UNCHANGED <<now, extra, wiped>>,
           hurt \subseteq hurt', hurt' \subseteq Keys, faults' \in Nat
    PROVE  TypeOK' /\ RateInv'
<1>1. PICK k \in Keys : k = KeyOf(c)
  BY DEF RateInv, CallInv
<1>2. /\ call' \in [Calls -> Call] /\ SameCounts /\ \A q \in Calls : CallInv(q)'
      /\ \A q \in Calls \ {c} : call'[q] = call[q] /\ KeyOf(q)' = KeyOf(q)
  BY PcStep
<1>3. /\ now \in Nat /\ Window \in Nat \ {0} /\ now + Window \in Nat
      /\ now + Window >= (k[2] + 1) * Window
  <2>1. now \in Nat /\ k[2] \in Nat /\ Window \in Nat \ {0}
    BY NowType, KeyType, RateAssumption
  <2>2. k[2] <= WindowOf(now)
    BY <1>1 DEF RateInv, CallInv, KeyOf
  <2>3. k[2] * Window <= now
    BY <2>1, <2>2, TimeOfWindow
  <2>4. (k[2] + 1) * Window = k[2] * Window + Window /\ k[2] * Window \in Nat
    BY <2>1
  <2>5. QED
    BY <2>1, <2>3, <2>4
<1>4. /\ key' \in [Keys -> [count : Nat, ends : Nat \cup {Never}]]
      /\ \A z \in Keys \ {k} : key'[z] = key[z]
      /\ key'[k].count = key[k].count
      /\ \/ key'[k] = key[k] /\ (Live(k) => k \in hurt')
         \/ Live(k) /\ key'[k].ends = now + Window
  <2>1. Live(KeyOf(c)) <=> Live(k)
    BY <1>1 DEF Live
  <2>2. CASE UNCHANGED key /\ (Live(k) => k \in hurt')
    BY <2>2 DEF TypeOK
  <2>3. CASE Live(k) /\ key' = [key EXCEPT ![k].ends = now + Window]
    BY <1>3, <2>3 DEF TypeOK
  <2>4. QED
    BY <1>1, <2>1, <2>2, <2>3 DEF Lifetime
<1>5. TypeOK'
  BY <1>2, <1>4 DEF TypeOK
<1>6. \A z \in Keys : OutlivesWindow(z)'
  BY <1>3, <1>4 DEF RateInv, OutlivesWindow
<1>7. \A z \in Keys : Live(z) => Live(z)'
  BY <1>3, <1>4 DEF Live
<1>8. KeysExpire'
  <2>. SUFFICES ASSUME NEW z \in Keys, Live(z)', key'[z].ends = Never, z \notin hurt'
                PROVE  \E q \in Calls : call'[q].pc = "expire" /\ KeyOf(q)' = z
    BY DEF KeysExpire
  <2>1. z # k
    BY <1>3, <1>4 DEF Never, Live
  <2>2. Live(z) /\ key[z].ends = Never /\ z \notin hurt
    BY <1>4, <2>1 DEF Live
  <2>3. PICK q \in Calls : call[q].pc = "expire" /\ KeyOf(q) = z
    BY <2>2 DEF RateInv, KeysExpire
  <2>4. QED
    BY <1>1, <1>2, <2>1, <2>3
<1>9. \A z \in Keys : key'[z].count = key[z].count
  BY <1>4
<1>10. QED
  BY <1>2, <1>5, <1>6, <1>7, <1>8, <1>9, QuietStep DEF TypeOK

LEMMA ExpireInv ==
    ASSUME TypeOK, RateInv, NEW c \in Calls, Expire(c) \/ ExpireRaises(c)
    PROVE  TypeOK' /\ RateInv'
<1>1. KeyOf(c) \in Keys /\ hurt \subseteq Keys /\ faults \in Nat
  BY DEF RateInv, CallInv, Expire, ExpireRaises, TypeOK
<1>2. CASE Expire(c)
  BY <1>1, <1>2, ExpireStepInv DEF Expire, history
<1>3. CASE ExpireRaises(c)
  <2>1. /\ hurt' = hurt \cup {KeyOf(c)} /\ faults' \in Nat
        /\ call[c].pc = "expire" /\ call' = [call EXCEPT ![c].pc = "open"]
        /\ UNCHANGED <<now, extra, wiped>>
    BY <1>1, <1>3 DEF ExpireRaises, Fault
  <2>2. \/ UNCHANGED key
        \/ Live(KeyOf(c)) /\ key' = [key EXCEPT ![KeyOf(c)].ends = now + Lifetime]
    BY <1>3 DEF ExpireRaises
  <2>3. hurt \subseteq hurt' /\ hurt' \subseteq Keys /\ KeyOf(c) \in hurt'
    BY <1>1, <2>1
  <2>4. QED
    BY <2>1, <2>2, <2>3, ExpireStepInv
<1>4. QED
  BY <1>2, <1>3

(* Redis counts and nobody gets the reply.                                 *)
LEMMA CountedForNothingInv ==
    ASSUME TypeOK, RateInv, NEW k \in Keys, CountedForNothing(k), TypeOK',
           SameCounts, \A c \in Calls : CallInv(c)',
           UNCHANGED <<now, wiped>>,
           \A q \in Calls : call[q].pc = "expire" =>
               call'[q].pc = "expire" /\ KeyOf(q)' = KeyOf(q)
    PROVE  RateInv'
<1>1. /\ key'[k] = Counted(k) /\ \A z \in Keys \ {k} : key'[z] = key[z]
      /\ extra'[k] = extra[k] + 1 /\ \A z \in Keys \ {k} : extra'[z] = extra[z]
      /\ hurt' = hurt \cup {k}
  BY DEF CountedForNothing, TypeOK
<1>2. \A z \in Keys : /\ extra'[z] >= extra[z]
                      /\ key'[z].count + extra[z] <= key[z].count + extra'[z]
  <2>1. key'[k].count <= key[k].count + 1 /\ key'[k].count \in Nat
    BY <1>1, CountedKey DEF TypeOK
  <2>2. \A z \in Keys : extra[z] \in Nat /\ key[z].count \in Nat
    BY DEF TypeOK
  <2>3. QED
    BY <1>1, <2>1, <2>2
<1>3. \A z \in Keys : Live(z) => Live(z)' /\ key'[z].count >= key[z].count
  <2>1. ASSUME NEW z \in Keys \ {k}, Live(z) PROVE Live(z)' /\ key'[z].count >= key[z].count
    BY <1>1, <2>1 DEF Live, TypeOK
  <2>2. ASSUME Live(k) PROVE Live(k)' /\ key'[k].count >= key[k].count
    BY <1>1, <2>2, CountedIsLive, CountedKey DEF TypeOK
  <2>3. QED
    BY <2>1, <2>2
<1>4. \A z \in Keys : OutlivesWindow(z)'
  <2>1. key'[k].ends \in {key[k].ends, Never}
    BY <1>1, CountedKey DEF NoKey
  <2>2. QED
    BY <1>1, <2>1 DEF RateInv, OutlivesWindow
<1>5. KeysExpire'
  <2>1. \A z \in Keys \ {k} : Live(z)' => Live(z)
    BY <1>1 DEF Live
  <2>2. QED
    BY <1>1, <2>1 DEF RateInv, KeysExpire
<1>6. QED
  BY <1>2, <1>3, <1>4, <1>5, QuietStep DEF TypeOK

LEMMA IncrFailsInv ==
    ASSUME TypeOK, RateInv, NEW c \in Calls, IncrRaises(c) \/ IncrRepeats(c)
    PROVE  TypeOK' /\ RateInv'
<1>1. PICK k \in Keys : k = KeyOf(c)
  BY DEF RateInv, CallInv, IncrRaises, IncrRepeats
<1>2. /\ call[c].pc = "incr" /\ faults' \in Nat /\ UNCHANGED <<now, wiped>>
  BY DEF IncrRaises, IncrRepeats, Fault, TypeOK
<1>3. CountedForNothing(k) \/ UNCHANGED <<key, hurt, extra>>
  <2>1. CountedForNothing(KeyOf(c)) \/ UNCHANGED <<key, hurt, extra>>
    BY DEF IncrRaises, IncrRepeats
  <2>2. Counted(KeyOf(c)) = Counted(k)
    BY <1>1 DEF Counted, Held, Live
  <2>3. QED
    BY <1>1, <2>1, <2>2 DEF CountedForNothing
<1>4. /\ call' \in [Calls -> Call] /\ SameCounts /\ \A q \in Calls : CallInv(q)'
      /\ \A q \in Calls : call[q].pc = "expire" =>
             call'[q].pc = "expire" /\ KeyOf(q)' = KeyOf(q)
  <2>1. CASE IncrRaises(c)
    BY <1>2, <2>1, PcStep DEF IncrRaises
  <2>2. CASE IncrRepeats(c)
    <3>1. UNCHANGED call /\ call \in [Calls -> Call]
      BY <2>2 DEF IncrRepeats, TypeOK
    <3>2. SameCounts /\ \A q \in Calls : KeyOf(q)' = KeyOf(q)
      BY <3>1 DEF SameCounts, KeyOf
    <3>3. \A q \in Calls : CallInv(q)'
      BY <1>2, <3>1, <3>2 DEF RateInv, CallInv
    <3>4. QED
      BY <3>1, <3>2, <3>3
  <2>3. QED
    BY <2>1, <2>2
<1>5. TypeOK'
  <2>1. Counted(k) \in [count : Nat, ends : Nat \cup {Never}]
    BY CountedKey
  <2>2. /\ key' \in [Keys -> [count : Nat, ends : Nat \cup {Never}]]
        /\ hurt' \subseteq Keys /\ extra' \in [Keys -> Nat]
    BY <1>3, <2>1 DEF TypeOK, CountedForNothing
  <2>3. QED
    BY <1>2, <1>4, <2>2 DEF TypeOK
<1>6. CASE CountedForNothing(k)
  BY <1>2, <1>4, <1>5, <1>6, CountedForNothingInv
<1>7. CASE UNCHANGED <<key, hurt, extra>>
  BY <1>2, <1>4, <1>5, <1>7, KeysKept
<1>8. QED
  BY <1>5, <1>6, <1>7, <1>3
-----------------------------------------------------------------------------
(* INCR itself: the call gets a count, one above what its key held.        *)
LEMMA IncrCall ==
    ASSUME TypeOK, RateInv, NEW c \in Calls, Incr(c), NEW k \in Keys, k = KeyOf(c)
    PROVE  /\ call' \in [Calls -> Call]
           /\ call'[c].pc = AfterCount(Held(k).count + 1)
           /\ call'[c].count = Held(k).count + 1
           /\ call'[c].punctual <=> k[2] = WindowOf(now)
           /\ call'[c].window = call[c].window
           /\ \A q \in Calls : KeyOf(q)' = KeyOf(q)
           /\ \A q \in Calls \ {c} : call'[q] = call[q]
           /\ key' = [key EXCEPT ![k] = Counted(k)]
           /\ call[c].pc = "incr" /\ call[c].count = 0 /\ call[c].punctual = FALSE
           /\ UNCHANGED <<now, faults, wiped, hurt, extra>>
<1>1. /\ call[c].pc = "incr" /\ call[c].count = 0 /\ call[c].punctual = FALSE
      /\ call[c] \in Call /\ call \in [Calls -> Call] /\ k[2] = call[c].window
      /\ UNCHANGED <<now, faults, wiped, hurt, extra>>
  BY DEF Incr, history, RateInv, CallInv, TypeOK, Call, KeyOf
<1>2. Held(KeyOf(c)) = Held(k) /\ Counted(KeyOf(c)) = Counted(k)
  BY DEF Counted, Held, Live
<1>3. PICK n \in Nat : n = Held(k).count + 1
  BY CountedKey
<1>4. AfterCount(n) \in {"expire", "verdict"}
  BY DEF AfterCount
<1>5. PICK b \in BOOLEAN : b <=> k[2] = WindowOf(now)
  OBVIOUS
<1>6. call' = [call EXCEPT ![c] = [call[c] EXCEPT !.pc = AfterCount(n), !.count = n,
                                                  !.punctual = b]]
  BY <1>1, <1>2, <1>3, <1>5 DEF Incr
<1>7. /\ call' \in [Calls -> Call] /\ call'[c].pc = AfterCount(n)
      /\ call'[c].count = n /\ call'[c].punctual = b
      /\ call'[c].window = call[c].window /\ call'[c].user = call[c].user
      /\ \A q \in Calls \ {c} : call'[q] = call[q]
  BY <1>1, <1>4, <1>6 DEF Call
<1>8. \A q \in Calls : KeyOf(q)' = KeyOf(q)
  BY <1>7 DEF KeyOf
<1>9. key' = [key EXCEPT ![k] = Counted(k)]
  BY <1>2 DEF Incr
<1>10. QED
  BY <1>1, <1>3, <1>5, <1>7, <1>8, <1>9

LEMMA IncrAccounted ==
    ASSUME TypeOK, RateInv, TypeOK', NEW c \in Calls, Incr(c)
    PROVE  CountsAccounted'
<1>1. PICK k \in Keys : k = KeyOf(c)
  BY DEF RateInv, CallInv, Incr
<1>2. /\ call'[c].count = Held(k).count + 1 /\ call[c].count = 0
      /\ \A q \in Calls : KeyOf(q)' = KeyOf(q)
      /\ \A q \in Calls \ {c} : call'[q] = call[q]
      /\ key' = [key EXCEPT ![k] = Counted(k)] /\ UNCHANGED extra
  BY <1>1, IncrCall
<1>3. /\ Held(k).count \in Nat /\ Held(k).count <= key[k].count
      /\ key'[k].count = Held(k).count + 1
      /\ \A z \in Keys \ {k} : key'[z] = key[z]
      /\ \A z \in Keys : key[z].count \in Nat /\ extra[z] \in Nat
  BY <1>2, CountedKey DEF TypeOK
<1>4. /\ CountedIn(k)' = CountedIn(k) \cup {c} /\ c \notin CountedIn(k)
      /\ \A z \in Keys \ {k} : CountedIn(z)' = CountedIn(z)
  BY <1>1, <1>2, <1>3 DEF CountedIn, HasCounted
<1>5. \A z \in Keys : IsFiniteSet(CountedIn(z)) /\ Cardinality(CountedIn(z)) \in Nat
  BY RateAssumption, FS_Subset, FS_CardinalityType DEF CountedIn
<1>6. Cardinality(CountedIn(k))' = Cardinality(CountedIn(k)) + 1
  BY <1>4, <1>5, FS_AddElement
<1>7. \A z \in Keys : Cardinality(CountedIn(z))' >= Cardinality(CountedIn(z))
                      /\ Cardinality(CountedIn(z))' \in Nat
  <2>1. \A z \in Keys \ {k} : Cardinality(CountedIn(z))' = Cardinality(CountedIn(z))
    BY <1>4
  <2>2. QED
    BY <1>5, <1>6, <2>1
<1>8. ASSUME NEW z \in Keys
      PROVE  key'[z].count <= Cardinality(CountedIn(z))' + extra'[z]
  <2>1. key[z].count <= Cardinality(CountedIn(z)) + extra[z]
    BY DEF RateInv, CountsAccounted
  <2>2. CASE z = k
    BY <1>2, <1>3, <1>5, <1>6, <2>1, <2>2
  <2>3. CASE z # k
    BY <1>2, <1>3, <1>5, <1>7, <2>1, <2>3
  <2>4. QED
    BY <2>2, <2>3
<1>9. ASSUME NEW q \in Calls, HasCounted(q)'
      PROVE  call'[q].count <= Cardinality(CountedIn(KeyOf(q)))' + extra'[KeyOf(q)']
  <2>1. CASE q = c
    <3>1. call'[q].count = key'[k].count /\ KeyOf(q)' = k
      BY <1>1, <1>2, <1>3, <2>1
    <3>2. CountedIn(KeyOf(q))' = CountedIn(k)'
      BY <3>1 DEF CountedIn
    <3>3. QED
      BY <1>8, <3>1, <3>2
  <2>2. CASE q # c
    <3>1. HasCounted(q) /\ call'[q].count = call[q].count
      BY <1>2, <1>9, <2>2 DEF HasCounted
    <3>2. PICK z \in Keys : z = KeyOf(q)
      BY <3>1 DEF RateInv, CallInv, HasCounted, TypeOK, Call
    <3>3. CountedIn(KeyOf(q)) = CountedIn(z) /\ CountedIn(KeyOf(q))' = CountedIn(z)'
      BY <1>2, <3>2 DEF CountedIn
    <3>4. call[q].count <= Cardinality(CountedIn(z)) + extra[z] /\ call[q].count \in Nat
      BY <3>1, <3>2, <3>3 DEF RateInv, CountsAccounted, TypeOK, Call
    <3>5. QED
      BY <1>2, <1>3, <1>5, <1>7, <3>1, <3>2, <3>3, <3>4
  <2>3. QED
    BY <2>1, <2>2
<1>10. QED
  BY <1>8, <1>9 DEF CountsAccounted

LEMMA IncrDiffer ==
    ASSUME TypeOK, RateInv, TypeOK', NEW c \in Calls, Incr(c), NEW z \in Keys \ wiped
    PROVE  CountsDiffer(z)'
<1>1. PICK k \in Keys : k = KeyOf(c)
  BY DEF RateInv, CallInv, Incr
<1>2. /\ call'[c].count = Held(k).count + 1 /\ call[c].punctual = FALSE
      /\ call'[c].punctual <=> k[2] = WindowOf(now)
      /\ \A q \in Calls : KeyOf(q)' = KeyOf(q)
      /\ \A q \in Calls \ {c} : call'[q] = call[q]
      /\ key' = [key EXCEPT ![k] = Counted(k)] /\ now' = now
  BY <1>1, IncrCall
<1>3. \A q \in Calls : call[q].count \in Nat
  BY DEF TypeOK, Call
<1>4. CASE z # k
  <2>1. PunctualIn(z)' = PunctualIn(z) /\ key'[z] = key[z]
        /\ \A q \in PunctualIn(z) : q # c /\ q \in Calls
    BY <1>1, <1>2, <1>4 DEF PunctualIn, TypeOK
  <2>2. Live(z)' <=> Live(z)
    BY <1>2, <2>1 DEF Live
  <2>3. WindowOf(now') = WindowOf(now)
    BY <1>2
  <2>4. QED
    BY <1>2, <2>1, <2>2, <2>3 DEF RateInv, CountsDiffer
<1>5. CASE z = k /\ k[2] = WindowOf(now)
  <2>1. Live(k)' /\ key'[k].count = Held(k).count + 1 /\ Held(k).count \in Nat
    BY <1>2, CountedIsLive, CountedKey DEF TypeOK
  <2>2. ASSUME NEW q \in PunctualIn(k)
        PROVE  /\ q \in Calls \ {c} /\ call'[q].count = call[q].count
               /\ call[q].count < Held(k).count + 1
    <3>1. q \in Calls \ {c} /\ call'[q].count = call[q].count
      BY <1>2 DEF PunctualIn
    <3>2. Live(k) /\ call[q].count <= key[k].count
      BY <1>5 DEF RateInv, CountsDiffer
    <3>3. Held(k) = key[k]
      BY <3>2, CountedKey
    <3>4. QED
      BY <1>3, <2>1, <3>1, <3>2, <3>3
  <2>3. \A q \in PunctualIn(k)' : q = c \/ q \in PunctualIn(k)
    BY <1>2 DEF PunctualIn
  <2>4. \A q \in PunctualIn(k)' : call'[q].count <= key'[k].count
    BY <1>2, <1>3, <2>1, <2>2, <2>3
  <2>5. ASSUME NEW p \in PunctualIn(k)', NEW q \in PunctualIn(k)',
               call'[p].count = call'[q].count
        PROVE  p = q
    <3>1. CASE p = c \/ q = c
      BY <1>2, <1>3, <2>1, <2>2, <2>3, <2>5, <3>1
    <3>2. CASE p # c /\ q # c
      BY <1>5, <2>2, <2>3, <2>5, <3>2 DEF RateInv, CountsDiffer
    <3>3. QED
      BY <3>1, <3>2
  <2>6. QED
    BY <1>5, <2>1, <2>4, <2>5 DEF CountsDiffer
<1>6. CASE z = k /\ k[2] # WindowOf(now)
  <2>1. PunctualIn(k)' = PunctualIn(k) /\ \A q \in PunctualIn(k) : q \in Calls \ {c}
    BY <1>2, <1>6 DEF PunctualIn
  <2>2. WindowOf(now') = WindowOf(now)
    BY <1>2
  <2>3. QED
    BY <1>2, <1>6, <2>1, <2>2 DEF RateInv, CountsDiffer
<1>7. QED
  BY <1>4, <1>5, <1>6

LEMMA IncrInv ==
    ASSUME TypeOK, RateInv, NEW c \in Calls, Incr(c)
    PROVE  TypeOK' /\ RateInv'
<1>1. PICK k \in Keys : k = KeyOf(c)
  BY DEF RateInv, CallInv, Incr
<1>2. /\ call' \in [Calls -> Call]
      /\ call'[c].pc = AfterCount(Held(k).count + 1)
      /\ call'[c].count = Held(k).count + 1
      /\ call'[c].window = call[c].window
      /\ \A q \in Calls : KeyOf(q)' = KeyOf(q)
      /\ \A q \in Calls \ {c} : call'[q] = call[q]
      /\ key' = [key EXCEPT ![k] = Counted(k)] /\ call[c].pc = "incr"
      /\ UNCHANGED <<now, faults, wiped, hurt, extra>>
  BY <1>1, IncrCall
<1>3. TypeOK'
  BY <1>2, CountedKey DEF TypeOK
<1>4. /\ key'[k] = Counted(k) /\ \A z \in Keys \ {k} : key'[z] = key[z]
      /\ Held(k).count \in Nat
  BY <1>2, CountedKey DEF TypeOK
<1>5. CallInv(c)'
  <2>1. AfterCount(Held(k).count + 1) \in {"expire", "verdict"}
    BY DEF AfterCount
  <2>2. KeyOf(c)' \in Keys /\ call'[c].window <= WindowOf(now')
    BY <1>1, <1>2 DEF RateInv, CallInv
  <2>3. QED
    BY <1>2, <1>4, <2>1, <2>2 DEF CallInv
<1>6. \A q \in Calls \ {c} : CallInv(q)'
  BY <1>2 DEF RateInv, CallInv
<1>7. \A z \in Keys : OutlivesWindow(z)'
  <2>1. key'[k].ends \in {key[k].ends, Never}
    BY <1>4, CountedKey DEF NoKey
  <2>2. QED
    BY <1>4, <2>1 DEF RateInv, OutlivesWindow
<1>8. KeysExpire'
  <2>. SUFFICES ASSUME NEW z \in Keys, Live(z)', key'[z].ends = Never, z \notin hurt'
                PROVE  \E q \in Calls : call'[q].pc = "expire" /\ KeyOf(q)' = z
    BY DEF KeysExpire
  <2>1. CASE z = k /\ ~Live(k)
    <3>1. call'[c].pc = "expire"
      BY <1>2, <2>1, CountedKey DEF NoKey, AfterCount
    <3>2. QED
      BY <1>1, <1>2, <2>1, <3>1
  <2>2. CASE z # k \/ Live(k)
    <3>1. Live(z) /\ key[z].ends = Never
      BY <1>2, <1>4, <2>2, CountedKey DEF Live
    <3>2. PICK q \in Calls : call[q].pc = "expire" /\ KeyOf(q) = z
      BY <1>2, <3>1 DEF RateInv, KeysExpire
    <3>3. QED
      BY <1>2, <3>2
  <2>3. QED
    BY <2>1, <2>2
<1>9. CountsAccounted' /\ \A z \in Keys \ wiped' : CountsDiffer(z)'
  BY <1>2, <1>3, IncrAccounted, IncrDiffer
<1>10. QED
  BY <1>3, <1>5, <1>6, <1>7, <1>8, <1>9 DEF RateInv

(* TypeOK and RateInv together are inductive.                              *)
LEMMA NextInv == TypeOK /\ RateInv /\ [Next]_vars => TypeOK' /\ RateInv'
<1>. SUFFICES ASSUME TypeOK, RateInv, [Next]_vars PROVE TypeOK' /\ RateInv'
  OBVIOUS
<1>1. CASE UNCHANGED vars
  <2>1. UNCHANGED <<now, key, call, faults, wiped, hurt, extra>>
    BY <1>1 DEF vars, history
  <2>2. \A c \in Calls : CallInv(c)' /\ KeyOf(c)' = KeyOf(c)
    BY <2>1 DEF RateInv, CallInv, KeyOf
  <2>3. TypeOK' /\ SameCounts
    BY <2>1, <2>2 DEF TypeOK, SameCounts
  <2>4. QED
    BY <2>1, <2>2, <2>3, KeysKept
<1>2. CASE \E c \in Calls : Check(c)
  BY <1>2, ArriveInv, IncrInv, ExpireInv, VerdictInv DEF Check
<1>3. CASE Next
  BY <1>2, <1>3, IncrFailsInv, ExpireInv, DiesInv, RedisRestartsInv, TickInv DEF Next
<1>4. QED
  BY <1>1, <1>3

THEOREM RateInvariant == Spec => [](TypeOK /\ RateInv)
BY InitInv, NextInv, PTL DEF Spec

(* A key without a lifetime belongs to a call that is about to set it.     *)
THEOREM KeysAlwaysExpire == Spec => []KeysExpire
BY RateInvariant, PTL DEF RateInv

(* A refused call found the window used up by others.                      *)
THEOREM AlwaysRefusedWhenFull == Spec => []RefusedOnlyWhenFull
<1>1. TypeOK /\ RateInv => RefusedOnlyWhenFull
  <2>. SUFFICES ASSUME TypeOK, RateInv, NEW c \in Calls, call[c].pc = "refused"
                PROVE  Cardinality({d \in Calls \ {c} :
                                       HasCounted(d) /\ KeyOf(d) = KeyOf(c)})
                           + extra[KeyOf(c)] >= Limit
    BY DEF RefusedOnlyWhenFull
  <2>1. /\ HasCounted(c) /\ call[c].count > Limit /\ KeyOf(c) \in Keys
        /\ call[c].count \in Nat /\ Limit \in Nat
    BY RateAssumption DEF RateInv, CallInv, HasCounted, TypeOK, Call
  <2>2. call[c].count <= Cardinality(CountedIn(KeyOf(c))) + extra[KeyOf(c)]
    BY <2>1 DEF RateInv, CountsAccounted
  <2>3. /\ {d \in Calls \ {c} : HasCounted(d) /\ KeyOf(d) = KeyOf(c)}
                = CountedIn(KeyOf(c)) \ {c}
        /\ c \in CountedIn(KeyOf(c)) /\ IsFiniteSet(CountedIn(KeyOf(c)))
    BY <2>1, RateAssumption, FS_Subset DEF CountedIn
  <2>4. /\ Cardinality(CountedIn(KeyOf(c)) \ {c}) = Cardinality(CountedIn(KeyOf(c))) - 1
        /\ Cardinality(CountedIn(KeyOf(c))) \in Nat
    BY <2>3, FS_RemoveElement, FS_CardinalityType
  <2>5. extra[KeyOf(c)] \in Nat
    BY <2>1 DEF TypeOK
  <2>6. QED
    BY <2>1, <2>2, <2>3, <2>4, <2>5
<1>2. QED
  BY <1>1, RateInvariant, PTL

(* A window admits at most Limit of the calls counted while it is open: the*)
(* counts of those that are admitted are as many numbers in 1 .. Limit.    *)
THEOREM AlwaysAtMostLimit == Spec => []AtMostLimit
<1>1. TypeOK /\ RateInv => AtMostLimit
  <2>. SUFFICES ASSUME TypeOK, RateInv, NEW k \in Keys \ wiped
                PROVE  Cardinality({c \in Calls : /\ call[c].pc = "admitted"
                                                  /\ KeyOf(c) = k
                                                  /\ call[c].punctual}) <= Limit
    BY DEF AtMostLimit
  <2> DEFINE A == {c \in Calls : /\ call[c].pc = "admitted"
                                 /\ KeyOf(c) = k
                                 /\ call[c].punctual}
             f == [c \in A |-> call[c].count]
  <2>1. \A c \in A : call[c].count \in 1 .. Limit
    BY DEF RateInv, CallInv
  <2>2. \A c, d \in A : call[c].count = call[d].count => c = d
    BY DEF RateInv, CountsDiffer, PunctualIn
  <2>3. f \in Injection(A, 1 .. Limit)
    BY <2>1, <2>2 DEF Injection, IsInjective
  <2>4. Limit \in Nat /\ IsFiniteSet(1 .. Limit) /\ Cardinality(1 .. Limit) = Limit
    BY RateAssumption, FS_Interval
  <2>5. Cardinality(A) <= Cardinality(1 .. Limit)
    BY <2>3, <2>4, FS_Injection
  <2>6. QED
    BY <2>4, <2>5
<1>2. QED
  BY <1>1, RateInvariant, PTL
=============================================================================

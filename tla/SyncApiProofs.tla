--------------------------- MODULE SyncApiProofs ---------------------------
(***************************************************************************)
(* Proofs about SyncApi, for any number of scans, clients and faults.      *)
(***************************************************************************)
EXTENDS SyncApi, FiniteSetTheorems, SequenceTheorems, TLAPS

Records == [actor : Actors, target : Scans]

(* Where element j is once another was put in at i.                        *)
Moved(i, j) == IF j < i THEN j ELSE j + 1

(*-------------------------------------------------------------------------*)
(* Sequences.                                                              *)

LEMMA AppendIs ==
    ASSUME NEW S, NEW s \in Seq(S), NEW e \in S
    PROVE  /\ Append(s, e) \in Seq(S)
           /\ Append(s, e) # <<>>
           /\ Len(Append(s, e)) = Len(s) + 1
           /\ \A i \in 1 .. Len(s) : Append(s, e)[i] = s[i]
           /\ Append(s, e)[Len(s) + 1] = e
           /\ Last(Append(s, e)) = e
           /\ ToSet(Append(s, e)) = ToSet(s) \cup {e}
<1>1. /\ Append(s, e) \in Seq(S)
      /\ Append(s, e) # <<>>
      /\ Len(Append(s, e)) = Len(s) + 1
      /\ \A i \in 1 .. Len(s) : Append(s, e)[i] = s[i]
      /\ Append(s, e)[Len(s) + 1] = e
  OBVIOUS
<1>2. Last(Append(s, e)) = e
  BY <1>1 DEF Last
<1>3. ToSet(Append(s, e)) = ToSet(s) \cup {e}
  <2>1. /\ DOMAIN Append(s, e) = 1 .. Len(s) + 1
        /\ DOMAIN s = 1 .. Len(s) /\ Len(s) \in Nat
    BY <1>1
  <2>2. 1 .. Len(s) + 1 = 1 .. Len(s) \cup {Len(s) + 1}
    BY <2>1
  <2>3. QED
    BY <1>1, <2>1, <2>2 DEF ToSet
<1>4. QED
  BY <1>1, <1>2, <1>3

LEMMA InsertAtIs ==
    ASSUME NEW S, NEW s \in Seq(S), NEW e \in S, NEW i \in 1 .. Len(s) + 1
    PROVE  /\ InsertAt(s, i, e) \in Seq(S)
           /\ ToSet(InsertAt(s, i, e)) = ToSet(s) \cup {e}
           /\ Len(InsertAt(s, i, e)) = Len(s) + 1
           /\ \A j \in 1 .. Len(s) : InsertAt(s, i, e)[Moved(i, j)] = s[j]
<1>. DEFINE left == SubSeq(s, 1, i - 1)
            right == SubSeq(s, i, Len(s))
            new == (left \o <<e>>) \o right
<1>1. /\ Len(s) \in Nat /\ i \in Nat
      /\ left \in Seq(S) /\ Len(left) = i - 1
      /\ \A j \in 1 .. i - 1 : left[j] = s[j]
  OBVIOUS
<1>2. /\ right \in Seq(S) /\ Len(right) = Len(s) - i + 1
      /\ \A j \in 1 .. Len(s) - i + 1 : right[j] = s[i + j - 1]
  BY <1>1
<1>. HIDE DEF left, right
<1>3. /\ new \in Seq(S) /\ Len(new) = Len(s) + 1
      /\ \A j \in 1 .. i - 1 : new[j] = s[j]
      /\ new[i] = e
      /\ \A j \in i + 1 .. Len(s) + 1 : new[j] = s[j - 1]
  <2>. DEFINE front == left \o <<e>>
  <2>1. /\ front \in Seq(S) /\ Len(front) = i
        /\ \A j \in 1 .. i - 1 : front[j] = s[j]
        /\ front[i] = e
    BY <1>1
  <2>2. new = front \o right
    OBVIOUS
  <2>. HIDE DEF front, new
  <2>3. new \in Seq(S) /\ Len(new) = Len(front) + Len(right)
    BY <1>2, <2>1, <2>2, ConcatProperties
  <2>4. Len(new) = Len(s) + 1
    BY <1>1, <1>2, <2>1, <2>3
  <2>5. \A j \in 1 .. Len(front) + Len(right) :
           new[j] = IF j <= Len(front) THEN front[j] ELSE right[j - Len(front)]
    BY <1>2, <2>1, <2>2, ConcatProperties
  <2>6. ASSUME NEW j \in 1 .. i PROVE new[j] = front[j]
    <3>1. j \in 1 .. Len(front) + Len(right) /\ j <= Len(front)
      BY <1>1, <1>2, <2>1
    <3>2. QED
      BY <2>5, <3>1
  <2>7. ASSUME NEW j \in i + 1 .. Len(s) + 1 PROVE new[j] = s[j - 1]
    <3>1. j - i \in 1 .. Len(s) - i + 1 /\ i + (j - i) - 1 = j - 1
      BY <1>1
    <3>2. new[j] = right[j - i]
      BY <1>1, <1>2, <2>1, <2>5
    <3>3. QED
      BY <1>2, <3>1, <3>2
  <2>8. i \in 1 .. i /\ \A j \in 1 .. i - 1 : j \in 1 .. i
    BY <1>1
  <2>9. \A j \in 1 .. i - 1 : new[j] = s[j]
    BY <2>1, <2>6, <2>8
  <2>10. new[i] = e
    BY <2>1, <2>6, <2>8
  <2>11. QED
    BY <2>3, <2>4, <2>7, <2>9, <2>10
<1>4. new = InsertAt(s, i, e)
  BY DEF InsertAt, left, right
<1>. HIDE DEF new
<1>5. ToSet(new) = ToSet(s) \cup {e}
  <2>1. DOMAIN new = 1 .. Len(s) + 1 /\ DOMAIN s = 1 .. Len(s)
    BY <1>3
  <2>2. ASSUME NEW x \in ToSet(new) PROVE x \in ToSet(s) \cup {e}
    <3>1. PICK j \in 1 .. Len(s) + 1 : x = new[j]
      BY <2>1 DEF ToSet
    <3>2. CASE j < i
      <4>1. new[j] = s[j] /\ j \in 1 .. Len(s)
        BY <1>1, <1>3, <3>2
      <4>2. QED
        BY <2>1, <3>1, <4>1 DEF ToSet
    <3>3. CASE j = i
      BY <1>3, <3>1, <3>3
    <3>4. CASE j > i
      <4>1. new[j] = s[j - 1] /\ j - 1 \in 1 .. Len(s)
        BY <1>1, <1>3, <3>4
      <4>2. QED
        BY <2>1, <3>1, <4>1 DEF ToSet
    <3>5. QED
      BY <1>1, <3>2, <3>3, <3>4
  <2>3. ASSUME NEW x \in ToSet(s) PROVE x \in ToSet(new)
    <3>1. PICK j \in 1 .. Len(s) : x = s[j]
      BY <2>1 DEF ToSet
    <3>2. CASE j < i
      <4>1. new[j] = s[j] /\ j \in 1 .. Len(s) + 1
        BY <1>1, <1>3, <3>2
      <4>2. QED
        BY <2>1, <3>1, <4>1 DEF ToSet
    <3>3. CASE j >= i
      <4>1. new[j + 1] = s[j] /\ j + 1 \in 1 .. Len(s) + 1
        BY <1>1, <1>3, <3>3
      <4>2. QED
        BY <2>1, <3>1, <4>1 DEF ToSet
    <3>4. QED
      BY <1>1, <3>2, <3>3
  <2>4. e \in ToSet(new)
    BY <1>3, <2>1 DEF ToSet
  <2>5. QED
    BY <2>2, <2>3, <2>4
<1>6. ASSUME NEW j \in 1 .. Len(s) PROVE new[Moved(i, j)] = s[j]
  <2>1. CASE j < i
    BY <1>1, <1>3, <2>1 DEF Moved
  <2>2. CASE ~ (j < i)
    <3>1. j + 1 \in i + 1 .. Len(s) + 1 /\ (j + 1) - 1 = j /\ Moved(i, j) = j + 1
      BY <1>1, <2>2 DEF Moved
    <3>2. new[j + 1] = s[(j + 1) - 1]
      BY <1>3, <3>1
    <3>3. QED
      BY <3>1, <3>2
  <2>3. QED
    BY <2>1, <2>2
<1>7. QED
  BY <1>3, <1>4, <1>5, <1>6

(*-------------------------------------------------------------------------*)
(* The order in which scans are saved.                                     *)

LEMMA PlaceIs ==
    ASSUME TypeOK, SavedInv
    PROVE  /\ \A s \in SavedScans :
                 /\ Place(s) \in 1 .. Len(saved)
                 /\ saved[Place(s)] = s
           /\ \A i \in 1 .. Len(saved) : saved[i] \in SavedScans /\ Place(saved[i]) = i
<1>1. DOMAIN saved = 1 .. Len(saved)
  BY DEF TypeOK
<1>2. ASSUME NEW s \in SavedScans
      PROVE  Place(s) \in 1 .. Len(saved) /\ saved[Place(s)] = s
  <2>1. \E i \in 1 .. Len(saved) : saved[i] = s
    BY <1>1 DEF SavedScans, ToSet
  <2>2. QED
    BY <2>1 DEF Place
<1>3. ASSUME NEW i \in 1 .. Len(saved)
      PROVE  saved[i] \in SavedScans /\ Place(saved[i]) = i
  <2>1. saved[i] \in SavedScans
    BY <1>1 DEF SavedScans, ToSet
  <2>2. Place(saved[i]) \in 1 .. Len(saved) /\ saved[Place(saved[i])] = saved[i]
    BY <1>2, <2>1
  <2>3. QED
    BY <1>1, <2>1, <2>2 DEF SavedInv
<1>4. QED
  BY <1>2, <1>3

(* The latest scan in the dictionary is the last of all.                   *)
LEMMA LatestIsLast ==
    ASSUME TypeOK, SavedInv, StoreInv, Latest # Missing
    PROVE  /\ Latest \in SavedScans
           /\ \A s \in SavedScans :
                 /\ Place(s) <= Place(Latest)
                 /\ s # Latest => Place(s) < Place(Latest)
<1>1. Latest = Last(saved) /\ saved # <<>>
  BY DEF Latest, StoreInv
<1>2. Len(saved) \in 1 .. Len(saved) /\ Latest = saved[Len(saved)]
  BY <1>1 DEF Last, TypeOK
<1>3. Latest \in SavedScans /\ Place(Latest) = Len(saved)
  BY <1>2, PlaceIs
<1>4. ASSUME NEW s \in SavedScans
      PROVE  /\ Place(s) <= Place(Latest)
             /\ s # Latest => Place(s) < Place(Latest)
  BY <1>2, <1>3, PlaceIs
<1>5. QED
  BY <1>3, <1>4

LEMMA LookupIs ==
    ASSUME TypeOK, StoreInv, SavedInv, NEW id \in Scans \cup {Omitted}, Lookup(id) # Missing
    PROVE  /\ Lookup(id) \in SavedScans
           /\ id # Omitted => Lookup(id) = id
           /\ id = Omitted => Lookup(id) = Latest
<1>1. CASE id = Omitted
  BY <1>1, LatestIsLast DEF Lookup
<1>2. CASE id # Omitted
  <2>1. Lookup(id) = id /\ Contains(store, id)
    BY <1>2 DEF Lookup, GetById
  <2>2. id \in ToSet(store)
    BY <2>1 DEF Contains, ToSet, TypeOK
  <2>3. QED
    BY <1>2, <2>1, <2>2 DEF StoreInv
<1>3. QED
  BY <1>1, <1>2

(*-------------------------------------------------------------------------*)
(* Init, and the commands that only look.                                  *)

LEMMA InitInv == Init => TypeOK /\ SyncInv
<1>. SUFFICES ASSUME Init PROVE TypeOK /\ SyncInv
  OBVIOUS
<1>1. (CHOOSE c \in Clients : TRUE) \in Clients
  BY SyncAssumption
<1>2. NoPost \in Post /\ NoPost.pc = "none"
  BY <1>1 DEF NoPost, Post
<1>3. NoCommand \in Command /\ NoCommand.cmd = "none" /\ NoCommand.pc = "ended"
  BY DEF NoCommand, Command
<1>4. TypeOK
  BY <1>2, <1>3 DEF Init, AuditInit, TypeOK
<1>5. SavedInv
  BY <1>2 DEF Init, AuditInit, SavedInv, SavedScans, ToSet
<1>6. StoreInv
  BY DEF Init, StoreInv, SavedScans, ToSet
<1>7. ASSUME NEW c \in Clients PROVE CommandInv(c)
  BY <1>3 DEF Init, CommandInv, Printed, IsOfOneScan, IsOwnOrLater
<1>8. QED
  BY <1>4, <1>5, <1>6, <1>7 DEF SyncInv

LEMMA NoCommandInv ==
    ASSUME NEW c \in Clients, cli'[c] = NoCommand,
           told'[c] = Missing \/ told'[c] \in SavedScans'
    PROVE  CommandInv(c)'
<1>1. NoCommand.cmd = "none" /\ NoCommand.pc = "ended"
  BY DEF NoCommand
<1>2. QED
  BY <1>1 DEF CommandInv, Printed, IsOfOneScan, IsOwnOrLater

(* A step of c that leaves the scans alone.                                *)
LEMMA OnlyCommand ==
    ASSUME TypeOK, SyncInv, NEW c \in Clients, NEW new \in Command,
           cli' = [cli EXCEPT ![c] = new],
           UNCHANGED <<store, post, faults, saved, told, log>>,
           CommandInv(c)'
    PROVE  TypeOK' /\ SyncInv'
<1>1. TypeOK'
  BY DEF TypeOK
<1>2. UNCHANGED SavedScans /\ \A s : Audited(s)' = Audited(s) /\ Place(s)' = Place(s)
  BY DEF SavedScans, Audited, Place
<1>3. SavedInv' /\ StoreInv'
  BY <1>2 DEF SyncInv, SavedInv, StoreInv
<1>4. ASSUME NEW d \in Clients, d # c PROVE CommandInv(d)'
  <2>1. cli'[d] = cli[d] /\ CommandInv(d)
    BY <1>4 DEF TypeOK, SyncInv
  <2>2. QED
    BY <1>2, <2>1 DEF CommandInv, Printed, IsOfOneScan, IsOwnOrLater
<1>5. QED
  BY <1>1, <1>3, <1>4 DEF SyncInv

LEMMA TimesOutInv ==
    ASSUME TypeOK, SyncInv, NEW c \in Clients, TimesOut(c)
    PROVE  TypeOK' /\ SyncInv'
<1>1. /\ cli' = [cli EXCEPT ![c] = NoCommand]
      /\ UNCHANGED <<store, post, faults, saved, told, log>>
  BY DEF TimesOut, auditVars
<1>2. NoCommand \in Command
  BY DEF NoCommand, Command
<1>3. cli'[c] = NoCommand
  BY <1>1 DEF TypeOK
<1>4. told'[c] = Missing \/ told'[c] \in SavedScans'
  BY <1>1 DEF SyncInv, CommandInv, SavedScans
<1>5. QED
  BY <1>1, <1>2, <1>3, <1>4, NoCommandInv, OnlyCommand

LEMMA AskInv ==
    ASSUME TypeOK, SyncInv, NEW c \in Clients, NEW cmd \in {"list", "report"},
           NEW id \in Scans \cup {Omitted}, Ask(c, cmd, id)
    PROVE  TypeOK' /\ SyncInv'
<1>. DEFINE new == [NoCommand EXCEPT !.cmd = cmd, !.pc = "asked", !.id = id]
<1>1. /\ cli' = [cli EXCEPT ![c] = new]
      /\ UNCHANGED <<store, post, faults, saved, told, log>>
  BY DEF Ask, auditVars
<1>2. new \in Command /\ new.cmd = cmd /\ new.pc = "asked"
  BY DEF NoCommand, Command, Waiting
<1>. HIDE DEF new
<1>3. cli'[c] = new
  BY <1>1 DEF TypeOK
<1>4. told'[c] = Missing \/ told'[c] \in SavedScans'
  BY <1>1 DEF SyncInv, CommandInv, SavedScans
<1>5. CommandInv(c)'
  BY <1>2, <1>3, <1>4 DEF CommandInv, Printed, IsOfOneScan, IsOwnOrLater
<1>6. QED
  BY <1>1, <1>2, <1>5, OnlyCommand

(* What is printed of a found scan.                                        *)
LEMMA ShownInv ==
    ASSUME TypeOK, SyncInv, NEW c \in Clients, cli[c].cmd \in {"list", "report"},
           cli[c].cmd = "report" => cli[c].pc = "half",
           cli' = [cli EXCEPT ![c] = Shown(cli[c], Lookup(cli[c].id))],
           UNCHANGED <<store, post, faults, saved, told, log>>
    PROVE  TypeOK' /\ SyncInv'
<1>. DEFINE found == Lookup(cli[c].id)
<1>1. cli[c] \in Command /\ CommandInv(c) /\ SavedInv /\ StoreInv
  BY DEF TypeOK, SyncInv
<1>2. told[c] = Missing \/ told[c] \in SavedScans
  BY <1>1 DEF CommandInv
<1>3. UNCHANGED SavedScans /\ \A s : Place(s)' = Place(s)
  BY DEF SavedScans, Place
<1>4. CASE found = Missing
  <2>1. cli' = [cli EXCEPT ![c] = NoCommand]
    BY <1>4 DEF Shown
  <2>2. NoCommand \in Command
    BY DEF NoCommand, Command
  <2>3. cli'[c] = NoCommand
    BY <2>1 DEF TypeOK
  <2>4. QED
    BY <1>2, <1>3, <2>1, <2>2, <2>3, NoCommandInv, OnlyCommand
<1>5. CASE found # Missing
  <2>. DEFINE new == [[cli[c] EXCEPT !.pc = "ended", !.outcome = "ok"] EXCEPT !.shown = found]
  <2>1. cli' = [cli EXCEPT ![c] = new]
    BY <1>5 DEF Shown, Ended
  <2>2. cli[c].id \in Scans \cup {Omitted}
    BY <1>1 DEF Command
  <2>3. /\ found \in SavedScans /\ found \in Scans
        /\ cli[c].id # Omitted => found = cli[c].id
        /\ cli[c].id = Omitted => found = Latest
    BY <1>1, <1>5, <2>2, LookupIs DEF SavedScans, ToSet, TypeOK
  <2>4. /\ new \in Command
        /\ new.cmd = cli[c].cmd /\ new.pc = "ended" /\ new.id = cli[c].id
        /\ new.stats = cli[c].stats /\ new.shown = found
    BY <1>1, <2>3 DEF Command
  <2>. HIDE DEF new, found
  <2>5. cli'[c] = new
    BY <2>1 DEF TypeOK
  <2>6. cli[c].id = Omitted =>
          \A s \in SavedScans : /\ Place(s) <= Place(found)
                                /\ s # found => Place(s) < Place(found)
    BY <1>1, <1>5, <2>3, LatestIsLast
  <2>7. \A s \in SavedScans : Place(s) \in Int
    BY <1>1, PlaceIs
  <2>8. cli[c].cmd = "report" =>
          /\ cli[c].stats \in SavedScans
          /\ cli[c].id # Omitted => cli[c].stats = cli[c].id
    BY <1>1 DEF CommandInv
  <2>9. IsOfOneScan(c)'
    <3>1. SUFFICES ASSUME cli[c].cmd = "report"
                   PROVE  /\ cli[c].id # Omitted => cli[c].stats = cli[c].id /\ found = cli[c].id
                          /\ cli[c].stats # found => Place(found) > Place(cli[c].stats)
      BY <1>3, <2>4, <2>5 DEF IsOfOneScan, Printed
    <3>2. QED
      BY <2>3, <2>6, <2>7, <2>8, <3>1
  <2>10. IsOwnOrLater(c)'
    <3>1. SUFFICES ASSUME cli[c].id = Omitted, told[c] # Missing
                   PROVE  Place(found) >= Place(told[c])
      BY <1>3, <2>4, <2>5 DEF IsOwnOrLater, Printed
    <3>2. QED
      BY <1>2, <2>3, <2>6, <2>7, <3>1
  <2>11. CommandInv(c)'
    BY <1>2, <1>3, <2>3, <2>4, <2>5, <2>8, <2>9, <2>10 DEF CommandInv, Printed
  <2>12. QED
    BY <2>1, <2>4, <2>11, OnlyCommand
<1>6. QED
  BY <1>4, <1>5

LEMMA ShowInv ==
    ASSUME TypeOK, SyncInv, NEW c \in Clients, Show(c)
    PROVE  TypeOK' /\ SyncInv'
<1>1. UNCHANGED <<store, post, faults, saved, told, log>>
  BY DEF Show, ShowOne, ReadStatistics, ReadPaths, auditVars
<1>2. cli[c] \in Command /\ CommandInv(c) /\ SavedInv /\ StoreInv
  BY DEF TypeOK, SyncInv
<1>3. CASE ShowOne(c)
  BY <1>1, <1>3, ShownInv DEF ShowOne
<1>4. CASE ReadPaths(c)
  <2>1. cli[c].cmd = "report"
    BY <1>2, <1>4 DEF ReadPaths, CommandInv
  <2>2. QED
    BY <1>1, <1>4, <2>1, ShownInv DEF ReadPaths
<1>5. CASE ReadStatistics(c)
  <2>. DEFINE found == Lookup(cli[c].id)
  <2>1. told'[c] = Missing \/ told'[c] \in SavedScans'
    BY <1>1, <1>2 DEF CommandInv, SavedScans
  <2>2. CASE found = Missing
    <3>1. cli' = [cli EXCEPT ![c] = NoCommand]
      BY <1>5, <2>2 DEF ReadStatistics
    <3>2. NoCommand \in Command
      BY DEF NoCommand, Command
    <3>3. cli'[c] = NoCommand
      BY <3>1 DEF TypeOK
    <3>4. QED
      BY <1>1, <2>1, <3>1, <3>2, <3>3, NoCommandInv, OnlyCommand
  <2>3. CASE found # Missing
    <3>. DEFINE new == [cli[c] EXCEPT !.pc = "half", !.stats = found]
    <3>1. cli' = [cli EXCEPT ![c] = new] /\ cli[c].cmd = "report"
      BY <1>5, <2>3 DEF ReadStatistics
    <3>2. cli[c].id \in Scans \cup {Omitted}
      BY <1>2 DEF Command
    <3>3. /\ found \in SavedScans /\ found \in Scans
          /\ cli[c].id # Omitted => found = cli[c].id
      BY <1>2, <2>3, <3>2, LookupIs DEF SavedScans, ToSet, TypeOK
    <3>4. /\ new \in Command
          /\ new.cmd = "report" /\ new.pc = "half" /\ new.id = cli[c].id
          /\ new.stats = found
      BY <1>2, <3>1, <3>3 DEF Command, Waiting
    <3>. HIDE DEF new, found
    <3>5. cli'[c] = new /\ SavedScans' = SavedScans
      BY <1>1, <3>1 DEF TypeOK, SavedScans
    <3>6. CommandInv(c)'
      BY <2>1, <3>3, <3>4, <3>5 DEF CommandInv, Printed, IsOfOneScan, IsOwnOrLater
    <3>7. QED
      BY <1>1, <3>1, <3>4, <3>6, OnlyCommand
  <2>4. QED
    BY <2>2, <2>3
<1>6. QED
  BY <1>3, <1>4, <1>5 DEF Show

(*-------------------------------------------------------------------------*)
(* The handlers of POST /scans.                                            *)

(* A command keeps what it has said when more is saved and audited.        *)
LEMMA CommandKept ==
    ASSUME TypeOK, SyncInv, NEW c \in Clients, cli'[c] = cli[c],
           told'[c] \in {told[c], Missing},
           SavedScans \subseteq SavedScans',
           \A s \in SavedScans : Place(s)' = Place(s),
           \A s \in Scans : Audited(s) => Audited(s)',
           \A s \in Scans : post[s].pc = "closed" =>
              post'[s].pc = "closed" /\ (s \notin SavedScans => s \notin SavedScans')
    PROVE  CommandInv(c)'
<1>1. CommandInv(c) /\ cli[c] \in Command
  BY DEF SyncInv, TypeOK
<1>2. told'[c] # Missing => told'[c] = told[c] /\ told[c] \in SavedScans
  BY <1>1 DEF CommandInv
<1>3. IsOfOneScan(c)'
  BY <1>1 DEF CommandInv, IsOfOneScan, Printed
<1>4. IsOwnOrLater(c)'
  BY <1>1, <1>2 DEF CommandInv, IsOwnOrLater, Printed
<1>5. cli[c].cmd = "scan" => cli[c].id \in Scans
  BY <1>1 DEF CommandInv
<1>6. QED
  BY <1>1, <1>2, <1>3, <1>4, <1>5 DEF CommandInv, Printed

LEMMA ScanAwsInv ==
    ASSUME TypeOK, SyncInv, NEW c \in Clients, NEW s \in Scans, ScanAws(c, s)
    PROVE  TypeOK' /\ SyncInv'
<1>. DEFINE newPost == [post[s] EXCEPT !.pc = "scanning", !.by = c]
            newCli == [NoCommand EXCEPT !.cmd = "scan", !.pc = "posted", !.id = s]
<1>1. /\ post' = [post EXCEPT ![s] = newPost] /\ post[s].pc = "none"
      /\ cli' = [cli EXCEPT ![c] = newCli]
      /\ UNCHANGED <<store, faults, saved, told, log>>
  BY DEF ScanAws, auditVars
<1>2. newPost \in Post /\ newPost.pc = "scanning"
  BY DEF TypeOK, Post
<1>3. /\ newCli \in Command
      /\ newCli.cmd = "scan" /\ newCli.pc = "posted" /\ newCli.id = s
  BY DEF NoCommand, Command, Waiting
<1>. HIDE DEF newPost, newCli
<1>4. TypeOK'
  BY <1>1, <1>2, <1>3 DEF TypeOK
<1>5. /\ post'[s] = newPost /\ \A q \in Scans : q # s => post'[q] = post[q]
      /\ cli'[c] = newCli /\ \A d \in Clients : d # c => cli'[d] = cli[d]
  BY <1>1 DEF TypeOK
<1>6. UNCHANGED SavedScans /\ \A q : Audited(q)' = Audited(q) /\ Place(q)' = Place(q)
  BY <1>1 DEF SavedScans, Audited, Place
<1>7. s \notin SavedScans
  BY <1>1 DEF SyncInv, SavedInv
<1>8. SavedInv'
  <2>1. SavedScans \subseteq Scans
    BY DEF SavedScans, ToSet, TypeOK
  <2>2. QED
    BY <1>1, <1>2, <1>5, <1>6, <1>7, <2>1 DEF SyncInv, SavedInv
<1>9. StoreInv'
  BY <1>1, <1>6 DEF SyncInv, StoreInv
<1>10. told'[c] # Missing => told'[c] \in SavedScans'
  BY <1>1, <1>6 DEF SyncInv, CommandInv
<1>11. CommandInv(c)'
  BY <1>3, <1>5, <1>10 DEF CommandInv, Printed, IsOfOneScan, IsOwnOrLater
<1>12. ASSUME NEW d \in Clients, d # c PROVE CommandInv(d)'
  <2>1. \A q \in Scans : post[q].pc = "closed" => post'[q].pc = "closed"
    BY <1>1, <1>5
  <2>2. told'[d] \in {told[d], Missing} /\ cli'[d] = cli[d]
    BY <1>1, <1>5, <1>12
  <2>3. QED
    BY <1>6, <2>1, <2>2, CommandKept
<1>13. QED
  BY <1>4, <1>8, <1>9, <1>11, <1>12 DEF SyncInv

(* What an answer changes: the client that waits for it has it.            *)
LEMMA AnswerIs ==
    ASSUME TypeOK, NEW s \in Scans, NEW end \in {"closed", "unaudited"},
           NEW outcome \in {"ok", "500", "502"}, Answer(s, end, outcome)
    PROVE  /\ post' \in [Scans -> Post] /\ cli' \in [Clients -> Command]
           /\ post'[s].pc = end
           /\ \A q \in Scans : q # s => post'[q] = post[q]
           /\ \A c \in Clients :
                 IF c = post[s].by /\ Waits(s)
                 THEN /\ cli[c].pc = "posted" /\ cli[c].id = s
                      /\ cli'[c].pc = "ended" /\ cli'[c].id = s
                      /\ cli'[c].cmd = cli[c].cmd /\ cli'[c].outcome = outcome
                 ELSE cli'[c] = cli[c]
<1>. DEFINE by == post[s].by
            ended == [cli[by] EXCEPT !.pc = "ended", !.outcome = outcome]
<1>1. /\ post[s] \in Post /\ by \in Clients /\ cli[by] \in Command
  BY DEF TypeOK, Post
<1>2. post' = [post EXCEPT ![s].pc = end]
  BY DEF Answer
<1>3. /\ post' \in [Scans -> Post]
      /\ post'[s].pc = end
      /\ \A q \in Scans : q # s => post'[q] = post[q]
  BY <1>1, <1>2 DEF TypeOK, Post
<1>4. /\ ended \in Command
      /\ ended.pc = "ended" /\ ended.outcome = outcome
      /\ ended.id = cli[by].id /\ ended.cmd = cli[by].cmd
  BY <1>1 DEF Command
<1>5. CASE Waits(s)
  <2>1. cli' = [cli EXCEPT ![by] = ended]
    BY <1>5 DEF Answer, Ended
  <2>. HIDE DEF ended
  <2>2. cli[by].pc = "posted" /\ cli[by].id = s
    BY <1>5 DEF Waits
  <2>3. /\ cli' \in [Clients -> Command]
        /\ cli'[by] = ended
        /\ \A c \in Clients : c # by => cli'[c] = cli[c]
    BY <1>1, <1>4, <2>1 DEF TypeOK
  <2>4. QED
    BY <1>3, <1>4, <1>5, <2>2, <2>3
<1>6. CASE ~Waits(s)
  <2>1. cli' = cli
    BY <1>6 DEF Answer
  <2>2. QED
    BY <1>3, <1>6, <2>1 DEF TypeOK
<1>7. QED
  BY <1>5, <1>6

(* An answer is believed rightly.                                          *)
LEMMA AnswerInv ==
    ASSUME TypeOK, SyncInv, NEW s \in Scans, NEW end \in {"closed", "unaudited"},
           NEW outcome \in {"ok", "500", "502"}, Answer(s, end, outcome),
           post[s].pc \in {"scanning", "auditing"},
           UNCHANGED saved,
           \A q \in Scans : Audited(q) => Audited(q)',
           outcome = "ok" => Audited(s)',
           outcome = "502" => s \notin SavedScans /\ end = "closed",
           \A c \in Clients : \/ told'[c] = told[c]
                              \/ /\ c = post[s].by /\ Waits(s)
                                 /\ told'[c] \in SavedScans
    PROVE  \A c \in Clients : CommandInv(c)'
<1>1. UNCHANGED SavedScans /\ \A q : Place(q)' = Place(q)
  BY DEF SavedScans, Place
<1>2. \A q \in Scans : post[q].pc = "closed" => post'[q].pc = "closed"
  <2>1. SUFFICES ASSUME NEW q \in Scans, post[q].pc = "closed"
                 PROVE  post'[q].pc = "closed"
    OBVIOUS
  <2>2. q # s
    BY <2>1
  <2>3. QED
    BY <2>1, <2>2, AnswerIs
<1>3. ASSUME NEW c \in Clients, c = post[s].by /\ Waits(s)
      PROVE  CommandInv(c)'
  <2>1. /\ cli[c].pc = "posted" /\ cli[c].id = s
        /\ cli'[c].pc = "ended" /\ cli'[c].id = s
        /\ cli'[c].cmd = cli[c].cmd /\ cli'[c].outcome = outcome
        /\ post'[s].pc = end
    BY <1>3, AnswerIs
  <2>2. cli[c].cmd = "scan" /\ (told[c] # Missing => told[c] \in SavedScans)
    BY <2>1 DEF SyncInv, CommandInv
  <2>3. told'[c] # Missing => told'[c] \in SavedScans'
    BY <1>1, <2>2
  <2>4. QED
    BY <1>1, <2>1, <2>2, <2>3 DEF CommandInv, Printed, IsOfOneScan, IsOwnOrLater
<1>4. ASSUME NEW c \in Clients, ~(c = post[s].by /\ Waits(s))
      PROVE  CommandInv(c)'
  <2>1. cli'[c] = cli[c]
    BY <1>4, AnswerIs
  <2>2. told'[c] \in {told[c], Missing}
    BY <1>4
  <2>3. QED
    BY <1>1, <1>2, <2>1, <2>2, CommandKept
<1>5. QED
  BY <1>3, <1>4

LEMMA SavedAreScans == TypeOK => SavedScans \subseteq Scans
  BY DEF SavedScans, ToSet, TypeOK

LEMMA ScanFailsInv ==
    ASSUME TypeOK, SyncInv, NEW s \in Scans, ScanFails(s)
    PROVE  TypeOK' /\ SyncInv'
<1>1. /\ post[s].pc = "scanning" /\ Answer(s, "closed", "502")
      /\ UNCHANGED <<store, faults, saved, told, log>>
  BY DEF ScanFails, auditVars
<1>2. /\ post' \in [Scans -> Post] /\ cli' \in [Clients -> Command]
      /\ post'[s].pc = "closed"
      /\ \A q \in Scans : q # s => post'[q] = post[q]
  BY <1>1, AnswerIs
<1>3. UNCHANGED SavedScans /\ \A q : Audited(q)' = Audited(q)
  BY <1>1 DEF SavedScans, Audited
<1>4. s \notin SavedScans
  BY <1>1 DEF SyncInv, SavedInv
<1>5. TypeOK'
  BY <1>1, <1>2 DEF TypeOK
<1>6. SavedInv'
  BY <1>1, <1>2, <1>3, <1>4, SavedAreScans DEF SyncInv, SavedInv
<1>7. StoreInv'
  BY <1>1, <1>3 DEF SyncInv, StoreInv
<1>8. \A c \in Clients : CommandInv(c)'
  BY <1>1, <1>3, <1>4, AnswerInv
<1>9. QED
  BY <1>5, <1>6, <1>7, <1>8 DEF SyncInv

LEMMA AuditFailsInv ==
    ASSUME TypeOK, SyncInv, NEW s \in Scans, AuditFails(s)
    PROVE  TypeOK' /\ SyncInv'
<1>1. /\ post[s].pc = "auditing" /\ Answer(s, "unaudited", "500")
      /\ UNCHANGED <<store, saved, told, log>> /\ faults' \in Nat
  BY DEF AuditFails, Fault, auditVars, TypeOK
<1>2. /\ post' \in [Scans -> Post] /\ cli' \in [Clients -> Command]
      /\ post'[s].pc = "unaudited"
      /\ \A q \in Scans : q # s => post'[q] = post[q]
  BY <1>1, AnswerIs
<1>3. UNCHANGED SavedScans /\ \A q : Audited(q)' = Audited(q)
  BY <1>1 DEF SavedScans, Audited
<1>4. s \in SavedScans
  BY <1>1 DEF SyncInv, SavedInv
<1>5. TypeOK'
  BY <1>1, <1>2 DEF TypeOK
<1>6. SavedInv'
  BY <1>1, <1>2, <1>3, <1>4, SavedAreScans DEF SyncInv, SavedInv
<1>7. StoreInv'
  BY <1>1, <1>3 DEF SyncInv, StoreInv
<1>8. \A c \in Clients : CommandInv(c)'
  BY <1>1, <1>3, AnswerInv
<1>9. QED
  BY <1>5, <1>6, <1>7, <1>8 DEF SyncInv

LEMMA ScanAuditedInv ==
    ASSUME TypeOK, SyncInv, NEW s \in Scans, ScanAudited(s)
    PROVE  TypeOK' /\ SyncInv'
<1>. DEFINE record == [actor |-> post[s].by, target |-> s]
<1>1. /\ post[s].pc = "auditing" /\ Answer(s, "closed", "ok")
      /\ Record(record, post[s].before)
      /\ told' = IF Waits(s) THEN [told EXCEPT ![post[s].by] = s] ELSE told
      /\ UNCHANGED <<store, faults, saved>>
  BY DEF ScanAudited
<1>2. /\ post[s] \in Post /\ post[s].by \in Clients /\ post[s].before \in Nat
      /\ record \in [actor : Actors, target : Scans] /\ record.target = s
  BY SyncAssumption DEF TypeOK, Post
<1>3. /\ post' \in [Scans -> Post] /\ cli' \in [Clients -> Command]
      /\ post'[s].pc = "closed"
      /\ \A q \in Scans : q # s => post'[q] = post[q]
  BY <1>1, AnswerIs
<1>. HIDE DEF record
<1>4. PICK i \in 1 .. (Len(log) - post[s].before + 1) : log' = InsertAt(log, i, record)
  BY <1>1 DEF Record
<1>5. i \in 1 .. Len(log) + 1
  BY <1>2, <1>4 DEF TypeOK
<1>6. /\ log' \in Seq([actor : Actors, target : Scans])
      /\ ToSet(log') = ToSet(log) \cup {record}
  <2>1. log \in Seq(Records) /\ record \in Records
    BY <1>2 DEF TypeOK, Records
  <2>2. /\ InsertAt(log, i, record) \in Seq(Records)
        /\ ToSet(InsertAt(log, i, record)) = ToSet(log) \cup {record}
    BY <1>5, <2>1, InsertAtIs
  <2>3. QED
    BY <1>4, <2>2 DEF Records
<1>7. UNCHANGED SavedScans
  BY <1>1 DEF SavedScans
<1>8. s \in SavedScans
  BY <1>1 DEF SyncInv, SavedInv
<1>9. Audited(s)' /\ \A q \in Scans : Audited(q) => Audited(q)'
  BY <1>2, <1>6 DEF Audited, ToSet
<1>10. \A j \in DOMAIN log' : log'[j].target \in SavedScans
  <2>1. \A r \in ToSet(log) : r.target \in SavedScans
    BY DEF SyncInv, SavedInv, ToSet
  <2>2. \A r \in ToSet(log') : r.target \in SavedScans
    BY <1>2, <1>6, <1>8, <2>1
  <2>3. QED
    BY <2>2 DEF ToSet
<1>11. \A c \in Clients : \/ told'[c] = told[c]
                          \/ /\ c = post[s].by /\ Waits(s)
                             /\ told'[c] = s
  BY <1>1, <1>2 DEF TypeOK
<1>12. told' \in [Clients -> Scans \cup {Missing}]
  BY <1>1, <1>2 DEF TypeOK
<1>13. TypeOK'
  BY <1>1, <1>3, <1>6, <1>12 DEF TypeOK
<1>14. SavedInv'
  BY <1>1, <1>3, <1>7, <1>9, <1>10, SavedAreScans DEF SyncInv, SavedInv
<1>15. StoreInv'
  BY <1>1, <1>7 DEF SyncInv, StoreInv
<1>16. \A c \in Clients : CommandInv(c)'
  BY <1>1, <1>8, <1>9, <1>11, AnswerInv
<1>17. QED
  BY <1>13, <1>14, <1>15, <1>16 DEF SyncInv

LEMMA ScanSavedInv ==
    ASSUME TypeOK, SyncInv, NEW s \in Scans, ScanSaved(s)
    PROVE  TypeOK' /\ SyncInv'
<1>. DEFINE new == [post[s] EXCEPT !.pc = "auditing", !.before = Len(log)]
<1>1. /\ post[s].pc = "scanning"
      /\ store' = Append(store, s) /\ saved' = Append(saved, s)
      /\ post' = [post EXCEPT ![s] = new]
      /\ UNCHANGED <<cli, faults, told, log>>
  BY DEF ScanSaved, auditVars
<1>2. new \in Post /\ new.pc = "auditing"
  <2>1. post[s] \in Post /\ Len(log) \in Nat
    BY DEF TypeOK
  <2>2. QED
    BY <2>1 DEF Post
<1>. HIDE DEF new
<1>3. post'[s] = new /\ \A q \in Scans : q # s => post'[q] = post[q]
  BY <1>1 DEF TypeOK
<1>4. s \notin SavedScans /\ SavedInv /\ StoreInv
  BY <1>1 DEF SyncInv, SavedInv
<1>5. /\ saved \in Seq(Scans) /\ saved' \in Seq(Scans)
      /\ saved' # <<>>
      /\ Len(saved') = Len(saved) + 1
      /\ \A i \in 1 .. Len(saved) : saved'[i] = saved[i]
      /\ saved'[Len(saved) + 1] = s
      /\ Last(saved') = s
      /\ ToSet(saved') = ToSet(saved) \cup {s}
  <2>1. saved \in Seq(Scans)
    BY DEF TypeOK
  <2>2. QED
    BY <1>1, <2>1, AppendIs
<1>6. /\ store' \in Seq(Scans)
      /\ Last(store') = s
      /\ ToSet(store') = ToSet(store) \cup {s}
  <2>1. store \in Seq(Scans)
    BY DEF TypeOK
  <2>2. QED
    BY <1>1, <2>1, AppendIs
<1>7. /\ Len(saved) \in Nat
      /\ DOMAIN saved = 1 .. Len(saved) /\ DOMAIN saved' = 1 .. Len(saved) + 1
  BY <1>5
<1>8. TypeOK'
  BY <1>1, <1>2, <1>5, <1>6 DEF TypeOK
<1>9. SavedScans' = SavedScans \cup {s}
  BY <1>5 DEF SavedScans
<1>10. \A q : Audited(q)' = Audited(q)
  BY <1>1 DEF Audited
<1>11. \A i, j \in DOMAIN saved' : saved'[i] = saved'[j] => i = j
  <2>1. SUFFICES ASSUME NEW i \in DOMAIN saved', NEW j \in DOMAIN saved',
                        saved'[i] = saved'[j]
                 PROVE  i = j
    OBVIOUS
  <2>2. \A k \in 1 .. Len(saved) : saved'[k] = saved[k] /\ saved[k] # s
    BY <1>4, <1>5, <1>7 DEF SavedScans, ToSet
  <2>3. /\ i \in 1 .. Len(saved) \/ i = Len(saved) + 1
        /\ j \in 1 .. Len(saved) \/ j = Len(saved) + 1
    BY <1>7, <2>1
  <2>4. CASE i \in 1 .. Len(saved) /\ j \in 1 .. Len(saved)
    BY <1>4, <1>7, <2>1, <2>2, <2>4 DEF SavedInv
  <2>5. CASE i = Len(saved) + 1 \/ j = Len(saved) + 1
    BY <1>5, <2>1, <2>2, <2>3, <2>5
  <2>6. QED
    BY <2>3, <2>4, <2>5
<1>12. SavedInv'
  <2>1. \A q \in Scans : q \in SavedScans' => post'[q].pc \notin {"none", "scanning"}
    BY <1>2, <1>3, <1>4, <1>9 DEF SavedInv
  <2>2. \A q \in Scans : post'[q].pc \in {"auditing", "unaudited"} => q \in SavedScans'
    BY <1>3, <1>4, <1>9 DEF SavedInv
  <2>3. \A q \in SavedScans' : Audited(q)' \/ post'[q].pc \in {"auditing", "unaudited"}
    BY <1>2, <1>3, <1>4, <1>9, <1>10, SavedAreScans DEF SavedInv
  <2>4. \A i \in DOMAIN log' : log'[i].target \in SavedScans'
    BY <1>1, <1>4, <1>9 DEF SavedInv
  <2>5. QED
    BY <1>11, <2>1, <2>2, <2>3, <2>4 DEF SavedInv
<1>13. StoreInv'
  BY <1>4, <1>5, <1>6, <1>9 DEF StoreInv, SavedScans
<1>14. \A q \in SavedScans : Place(q)' = Place(q)
  <2>1. SUFFICES ASSUME NEW q \in SavedScans PROVE Place(q)' = Place(q)
    OBVIOUS
  <2>2. PICK i \in 1 .. Len(saved) : i = Place(q) /\ saved[i] = q
    BY <1>4, PlaceIs
  <2>3. saved'[i] = q /\ i \in 1 .. Len(saved')
    BY <1>5, <1>7, <2>2
  <2>4. \A k \in 1 .. Len(saved') : saved'[k] = q => k = i
    BY <1>5, <1>7, <1>11, <2>3
  <2>5. (CHOOSE k \in 1 .. Len(saved') : saved'[k] = q) = i
    BY <2>3, <2>4
  <2>6. QED
    BY <2>2, <2>5 DEF Place
<1>15. ASSUME NEW c \in Clients PROVE CommandInv(c)'
  <2>1. \A q \in Scans : post[q].pc = "closed" =>
           post'[q].pc = "closed" /\ (q \notin SavedScans => q \notin SavedScans')
    BY <1>1, <1>3, <1>9
  <2>2. told'[c] \in {told[c], Missing} /\ cli'[c] = cli[c]
    BY <1>1
  <2>3. QED
    BY <1>9, <1>10, <1>14, <2>1, <2>2, CommandKept
<1>16. QED
  BY <1>8, <1>12, <1>13, <1>15 DEF SyncInv

LEMMA ApiRestartsInv ==
    ASSUME TypeOK, SyncInv, ApiRestarts
    PROVE  TypeOK' /\ SyncInv'
<1>1. /\ store' = <<>> /\ faults' \in Nat
      /\ told' = [c \in Clients |-> Missing]
      /\ UNCHANGED <<saved, log>>
  BY DEF ApiRestarts, Fault, auditVars, TypeOK
<1>2. post' = [s \in Scans |->
                 CASE post[s].pc = "scanning" -> [post[s] EXCEPT !.pc = "closed"]
                   [] post[s].pc = "auditing" -> [post[s] EXCEPT !.pc = "unaudited"]
                   [] OTHER -> post[s]]
  BY DEF ApiRestarts
<1>3. ASSUME NEW s \in Scans
      PROVE  /\ post'[s] \in Post
             /\ IF post[s].pc = "scanning" THEN post'[s].pc = "closed"
                ELSE IF post[s].pc = "auditing" THEN post'[s].pc = "unaudited"
                ELSE post'[s].pc = post[s].pc
  <2>1. post[s] \in Post
    BY DEF TypeOK
  <2>2. CASE post[s].pc = "scanning"
    BY <1>2, <2>1, <2>2 DEF Post
  <2>3. CASE post[s].pc = "auditing"
    BY <1>2, <2>1, <2>3 DEF Post
  <2>4. CASE post[s].pc \notin {"scanning", "auditing"}
    BY <1>2, <2>1, <2>4
  <2>5. QED
    BY <2>2, <2>3, <2>4
<1>4. post' \in [Scans -> Post]
  BY <1>2, <1>3
<1>5. NoCommand \in Command
  BY DEF NoCommand, Command
<1>6. /\ cli' \in [Clients -> Command]
      /\ \A c \in Clients : cli'[c] \in {cli[c], NoCommand}
  BY <1>5 DEF ApiRestarts, TypeOK
<1>7. TypeOK'
  BY <1>1, <1>4, <1>6 DEF TypeOK
<1>8. UNCHANGED SavedScans /\ \A q : Audited(q)' = Audited(q) /\ Place(q)' = Place(q)
  BY <1>1 DEF SavedScans, Audited, Place
<1>9. SavedInv'
  <2>1. \A q \in Scans : q \in SavedScans' => post'[q].pc \notin {"none", "scanning"}
    BY <1>3, <1>8 DEF SyncInv, SavedInv
  <2>2. \A q \in Scans : post'[q].pc \in {"auditing", "unaudited"} => q \in SavedScans'
    BY <1>3, <1>8 DEF SyncInv, SavedInv
  <2>3. \A q \in SavedScans' : Audited(q)' \/ post'[q].pc \in {"auditing", "unaudited"}
    BY <1>3, <1>8, SavedAreScans DEF SyncInv, SavedInv
  <2>4. QED
    BY <1>1, <1>8, <2>1, <2>2, <2>3 DEF SyncInv, SavedInv
<1>10. StoreInv'
  BY <1>1 DEF StoreInv, ToSet
<1>11. ASSUME NEW c \in Clients PROVE CommandInv(c)'
  <2>1. told'[c] = Missing
    BY <1>1
  <2>2. CASE cli'[c] = NoCommand
    BY <2>1, <2>2, NoCommandInv
  <2>3. CASE cli'[c] = cli[c]
    <3>1. \A q \in Scans : post[q].pc = "closed" => post'[q].pc = "closed"
      BY <1>3
    <3>2. QED
      BY <1>8, <2>1, <2>3, <3>1, CommandKept
  <2>4. QED
    BY <1>6, <2>2, <2>3
<1>12. QED
  BY <1>7, <1>9, <1>10, <1>11 DEF SyncInv

(* A reader of the audit log changes nothing of the scans.                 *)
LEMMA UnchangedInv ==
    ASSUME TypeOK, SyncInv, UNCHANGED <<syncVars, log>>
    PROVE  TypeOK' /\ SyncInv'
<1>1. UNCHANGED <<store, post, cli, faults, saved, told, log>>
  BY DEF syncVars
<1>2. TypeOK'
  BY <1>1 DEF TypeOK
<1>3. UNCHANGED SavedScans /\ \A q : Audited(q)' = Audited(q) /\ Place(q)' = Place(q)
  BY <1>1 DEF SavedScans, Audited, Place
<1>4. SavedInv' /\ StoreInv'
  BY <1>1, <1>3 DEF SyncInv, SavedInv, StoreInv
<1>5. ASSUME NEW c \in Clients PROVE CommandInv(c)'
  BY <1>1, <1>3 DEF SyncInv, CommandInv, Printed, IsOfOneScan, IsOwnOrLater
<1>6. QED
  BY <1>2, <1>4, <1>5 DEF SyncInv

(*-------------------------------------------------------------------------*)
(* The reader of the audit log.                                            *)

(* The records of an actor among the first n, and one more.                *)
LEMMA OfActorIs ==
    ASSUME NEW actor, NEW n \in Nat
    PROVE  /\ OfActor(actor, n) \subseteq 1 .. n
           /\ IsFiniteSet(OfActor(actor, n))
           /\ Cardinality(OfActor(actor, n)) \in Nat
           /\ \A i \in OfActor(actor, n + 1) : i \in OfActor(actor, n) \/ i = n + 1
           /\ Cardinality(OfActor(actor, n + 1)) <= Cardinality(OfActor(actor, n)) + 1
           /\ n + 1 \notin OfActor(actor, n + 1) =>
                 Cardinality(OfActor(actor, n + 1)) = Cardinality(OfActor(actor, n))
           /\ Cardinality(OfActor(actor, 0)) = 0
<1>1. OfActor(actor, n) \subseteq 1 .. n /\ IsFiniteSet(1 .. n)
  BY FS_Interval DEF OfActor
<1>2. IsFiniteSet(OfActor(actor, n)) /\ Cardinality(OfActor(actor, n)) \in Nat
  BY <1>1, FS_Subset, FS_CardinalityType
<1>3. \A i \in OfActor(actor, n + 1) : i \in OfActor(actor, n) \/ i = n + 1
  BY DEF OfActor
<1>4. OfActor(actor, n) \subseteq OfActor(actor, n + 1)
  BY DEF OfActor
<1>5. Cardinality(OfActor(actor, 0)) = 0
  <2>1. OfActor(actor, 0) = {}
    BY DEF OfActor
  <2>2. QED
    BY <2>1, FS_EmptySet
<1>6. CASE n + 1 \in OfActor(actor, n + 1)
  <2>1. /\ OfActor(actor, n + 1) = OfActor(actor, n) \cup {n + 1}
        /\ n + 1 \notin OfActor(actor, n)
    BY <1>1, <1>3, <1>4, <1>6
  <2>2. Cardinality(OfActor(actor, n) \cup {n + 1}) = Cardinality(OfActor(actor, n)) + 1
    BY <1>2, <2>1, FS_AddElement
  <2>3. Cardinality(OfActor(actor, n + 1)) = Cardinality(OfActor(actor, n)) + 1
    BY <2>1, <2>2
  <2>4. QED
    BY <1>1, <1>2, <1>3, <1>5, <1>6, <2>3
<1>7. CASE n + 1 \notin OfActor(actor, n + 1)
  <2>1. OfActor(actor, n + 1) = OfActor(actor, n)
    BY <1>3, <1>4, <1>7
  <2>2. QED
    BY <1>1, <1>2, <1>3, <1>5, <2>1
<1>8. QED
  BY <1>6, <1>7

(* A set of numbers has a least one: of the sets 0..n, for n in it, one    *)
(* includes no other.                                                      *)
LEMMA LeastNumber ==
    ASSUME NEW T \in SUBSET Nat, T # {}
    PROVE  \E n \in T : \A m \in T : n <= m
<1> DEFINE R == StrictSubsetOrdering(Nat)
           upTo == {0..n : n \in T}
<1>1. upTo \subseteq FiniteSubsetsOf(Nat) /\ upTo # {}
  <2>1. \A n \in T : 0..n \subseteq Nat /\ IsFiniteSet(0..n)
    BY FS_Interval
  <2>2. QED
    BY <2>1 DEF FiniteSubsetsOf
<1>2. \A m, n \in T : m < n => <<0..m, 0..n>> \in R
  <2>1. ASSUME NEW m \in T, NEW n \in T, m < n
        PROVE  <<0..m, 0..n>> \in R
    <3>1. n \in 0..n /\ n \notin 0..m /\ 0..m \subseteq 0..n /\ 0..n \subseteq Nat
      BY <2>1
    <3>2. QED
      BY <3>1 DEF StrictSubsetOrdering
  <2>2. QED
    BY <2>1
<1>3. IsWellFoundedOn(R, FiniteSubsetsOf(Nat))
  BY FS_StrictSubsetOrderingWellFounded
<1>4. PICK I \in upTo : \A J \in upTo : ~ (<<J, I>> \in R)
  <2> HIDE DEF R, upTo
  <2>1. QED
    BY <1>1, <1>3, WFMin
<1>5. PICK n \in T : I = 0..n
  BY <1>4
<1>6. \A m \in T : ~ (m < n)
  <2> HIDE DEF R
  <2>1. QED
    BY <1>2, <1>4, <1>5
<1>7. QED
  BY <1>6

(* If any record of the actor has more than "skipped" of them up to it,    *)
(* one has just one more.                                                  *)
LEMMA NextOfActor ==
    ASSUME NEW actor, NEW n \in Nat, NEW skipped \in Nat,
           Cardinality(OfActor(actor, n)) > skipped
    PROVE  \E i \in OfActor(actor, n) : Cardinality(OfActor(actor, i)) = skipped + 1
<1>. DEFINE beyond == {i \in Nat : Cardinality(OfActor(actor, i)) > skipped}
<1>1. PICK i \in beyond : \A j \in beyond : i <= j
  <2>1. beyond \subseteq Nat /\ n \in beyond
    OBVIOUS
  <2>. HIDE DEF beyond
  <2>2. QED
    BY <2>1, LeastNumber
<1>2. i \in Nat /\ i <= n /\ Cardinality(OfActor(actor, i)) > skipped
  BY <1>1
<1>3. i # 0
  BY <1>2, OfActorIs
<1>4. PICK j \in Nat : i = j + 1
  BY <1>2, <1>3
<1>5. Cardinality(OfActor(actor, j)) \in Nat /\ Cardinality(OfActor(actor, i)) \in Nat
  BY <1>2, OfActorIs
<1>6. Cardinality(OfActor(actor, j)) <= skipped
  <2>1. j \notin beyond
    BY <1>1, <1>4
  <2>2. QED
    BY <1>5, <2>1
<1>7. /\ Cardinality(OfActor(actor, i)) <= Cardinality(OfActor(actor, j)) + 1
      /\ i \notin OfActor(actor, i) =>
            Cardinality(OfActor(actor, i)) = Cardinality(OfActor(actor, j))
  BY <1>4, OfActorIs
<1>8. Cardinality(OfActor(actor, i)) = skipped + 1 /\ i \in OfActor(actor, i)
  BY <1>2, <1>5, <1>6, <1>7
<1>9. i \in OfActor(actor, n)
  BY <1>2, <1>8 DEF OfActor
<1>10. QED
  BY <1>8, <1>9

(* A new record pushes the others further from the first, never nearer.    *)
LEMMA PushedOn ==
    ASSUME TypeOK, NEW i \in 1 .. Len(log) + 1, NEW e \in Records,
           log' = InsertAt(log, i, e),
           NEW actor, NEW j \in OfActor(actor, Len(log))
    PROVE  /\ Moved(i, j) \in OfActor(actor, Len(log))'
           /\ log'[Moved(i, j)] = log[j]
           /\ Cardinality(OfActor(actor, j)) \in Nat
           /\ Cardinality(OfActor(actor, Moved(i, j))') \in Nat
           /\ Cardinality(OfActor(actor, j)) <= Cardinality(OfActor(actor, Moved(i, j))')
<1>1. /\ log \in Seq(Records) /\ Len(log) \in Nat
      /\ j \in 1 .. Len(log) /\ i \in Nat
  BY DEF TypeOK, Records, OfActor
<1>2. /\ Len(log') = Len(log) + 1
      /\ \A k \in 1 .. Len(log) : log'[Moved(i, k)] = log[k]
  BY <1>1, InsertAtIs
<1>3. \A k \in 1 .. j : /\ k \in 1 .. Len(log)
                        /\ Moved(i, k) \in 1 .. Moved(i, j)
                        /\ Moved(i, k) \in 1 .. Len(log')
  BY <1>1, <1>2 DEF Moved
<1>4. \A k, l \in 1 .. j : Moved(i, k) = Moved(i, l) => k = l
  BY DEF Moved
<1>5. \A k \in OfActor(actor, j) : k \in 1 .. j /\ actor \in {Anyone, log[k].actor}
  BY DEF OfActor
<1>6. Moved(i, j) \in OfActor(actor, Len(log))' /\ log'[Moved(i, j)] = log[j]
  BY <1>1, <1>2, <1>3 DEF OfActor
<1>. DEFINE m == Moved(i, j)
            later == OfActor(actor, m)'
            f == [k \in OfActor(actor, j) |-> Moved(i, k)]
<1>7. \A k \in OfActor(actor, j) : Moved(i, k) \in later
  BY <1>2, <1>3, <1>5 DEF OfActor
<1>8. IsFiniteSet(later)
  <2>1. m \in Nat
    BY <1>1 DEF Moved
  <2>2. later \subseteq 1 .. m /\ IsFiniteSet(1 .. m)
    BY <2>1, FS_Interval DEF OfActor
  <2>3. QED
    BY <2>2, FS_Subset
<1>. HIDE DEF m, later
<1>9. f \in Injection(OfActor(actor, j), later)
  BY <1>4, <1>5, <1>7 DEF Injection, IsInjective
<1>. HIDE DEF f
<1>10. Cardinality(OfActor(actor, j)) <= Cardinality(later)
  BY <1>8, <1>9, FS_Injection
<1>11. Cardinality(OfActor(actor, j)) \in Nat /\ Cardinality(later) \in Nat
  <2>1. j \in Nat
    BY <1>1
  <2>2. Cardinality(OfActor(actor, j)) \in Nat
    BY <2>1, OfActorIs
  <2>3. QED
    BY <1>8, <2>2, FS_CardinalityType
<1>12. QED
  BY <1>6, <1>10, <1>11 DEF later, m

LEMMA RecordKeepsReader ==
    ASSUME TypeOK, ReaderOK, NEW e \in Records, NEW before \in Nat, Record(e, before)
    PROVE  ReaderOK'
<1>1. PICK i \in 1 .. Len(log) + 1 : log' = InsertAt(log, i, e)
  BY DEF Record, TypeOK
<1>2. reader' = reader
  BY DEF Record
<1>3. ASSUME reader.pc = "reading", reader.limit <= Ceiling, NEW r \in reader.unseen
      PROVE  \E k \in OfActor(reader.actor, Len(log))' :
               log'[k] = r /\ Cardinality(OfActor(reader.actor, k)') > reader.offset
  <2>1. PICK j \in OfActor(reader.actor, Len(log)) :
           log[j] = r /\ Cardinality(OfActor(reader.actor, j)) > reader.offset
    BY <1>3 DEF ReaderOK, ReaderInv, UnseenIsAhead
  <2>2. j \in Nat /\ Moved(i, j) \in Nat
    BY DEF OfActor, Moved
  <2>3. /\ Moved(i, j) \in OfActor(reader.actor, Len(log))'
        /\ log'[Moved(i, j)] = log[j]
        /\ Cardinality(OfActor(reader.actor, j)) \in Nat
        /\ Cardinality(OfActor(reader.actor, Moved(i, j))') \in Nat
        /\ Cardinality(OfActor(reader.actor, j))
              <= Cardinality(OfActor(reader.actor, Moved(i, j))')
    BY <1>1, <1>2, PushedOn
  <2>4. reader.offset \in Nat
    BY DEF ReaderOK, Reader
  <2>5. Cardinality(OfActor(reader.actor, Moved(i, j))') > reader.offset
    BY <2>1, <2>3, <2>4
  <2>6. QED
    BY <2>1, <2>2, <2>3, <2>5
<1>4. QED
  BY <1>2, <1>3 DEF ReaderOK, ReaderInv, UnseenIsAhead, PagesMissNothing

LEMMA StartReadingKeepsReader ==
    ASSUME TypeOK, NEW actor \in Actors \cup {Anyone}, NEW limit \in Limits,
           StartReading(actor, limit)
    PROVE  ReaderOK'
<1>. DEFINE all == Rows(OfActor(actor, Len(log)))
<1>1. /\ log' = log
      /\ reader' = [pc |-> "reading", actor |-> actor, limit |-> limit, offset |-> 0,
                    unseen |-> all]
  BY DEF StartReading
<1>2. Len(log) \in Nat /\ \A i \in 1 .. Len(log) : log[i] \in Records
  <2>1. log \in Seq(Records)
    BY DEF TypeOK, Records
  <2>2. QED
    BY <2>1
<1>3. ASSUME NEW r \in all
      PROVE  \E i \in OfActor(actor, Len(log)) :
               log[i] = r /\ Cardinality(OfActor(actor, i)) > 0
  <2>1. PICK i \in OfActor(actor, Len(log)) : log[i] = r
    BY DEF Rows
  <2>2. i \in 1 .. Len(log) /\ i \in OfActor(actor, i)
    BY DEF OfActor
  <2>3. IsFiniteSet(OfActor(actor, i)) /\ Cardinality(OfActor(actor, i)) \in Nat
    BY <1>2, <2>2, OfActorIs
  <2>4. Cardinality(OfActor(actor, i)) # 0
    BY <2>2, <2>3, FS_EmptySet
  <2>5. QED
    BY <2>1, <2>3, <2>4
<1>4. all \subseteq [actor : Actors, target : Scans]
  BY <1>2 DEF Rows, OfActor, Records
<1>. HIDE DEF all
<1>5. reader' \in Reader
  BY <1>1, <1>4 DEF Reader
<1>6. /\ \A i : OfActor(reader.actor, i)' = OfActor(actor, i)
      /\ OfActor(reader.actor, Len(log))' = OfActor(actor, Len(log))
  BY <1>1 DEF OfActor
<1>7. UnseenIsAhead'
  BY <1>1, <1>3, <1>6 DEF UnseenIsAhead
<1>8. QED
  BY <1>1, <1>5, <1>7 DEF ReaderOK, ReaderInv, PagesMissNothing

LEMMA ReadPageKeepsReader ==
    ASSUME TypeOK, ReaderOK, ReadPage
    PROVE  ReaderOK'
<1>. DEFINE mine == OfActor(reader.actor, Len(log))
            page == Page(reader.actor, reader.limit, reader.offset)
<1>1. /\ reader.pc = "reading" /\ log' = log
      /\ reader' = IF page = {} THEN [reader EXCEPT !.pc = "done", !.offset = 0]
                   ELSE [reader EXCEPT !.offset = @ + reader.limit,
                                       !.unseen = @ \ page]
  BY DEF ReadPage
<1>2. /\ reader \in Reader /\ Len(log) \in Nat
      /\ reader.offset \in Nat /\ reader.limit \in Limits
      /\ reader.limit \in Nat /\ reader.limit > 0
  BY <1>1, AuditAssumption DEF ReaderOK, ReaderInv, Reader, TypeOK
<1>3. ASSUME reader.limit <= Ceiling, NEW i \in mine,
             Cardinality(OfActor(reader.actor, i)) > reader.offset,
             Cardinality(OfActor(reader.actor, i)) <= reader.offset + reader.limit
      PROVE  log[i] \in page
  <2>1. reader.limit = IF reader.limit < Ceiling THEN reader.limit ELSE Ceiling
    BY <1>2, <1>3, AuditAssumption
  <2>2. OnPage(Cardinality(OfActor(reader.actor, i)), reader.limit, reader.offset)
    BY <1>2, <1>3, <2>1 DEF OnPage
  <2>3. QED
    BY <2>2 DEF Page, Rows
<1>4. ASSUME reader.limit <= Ceiling, NEW r \in reader.unseen
      PROVE  \E i \in mine : log[i] = r /\ Cardinality(OfActor(reader.actor, i)) > reader.offset
  BY <1>1, <1>4 DEF ReaderOK, ReaderInv, UnseenIsAhead
<1>5. \A i \in mine : i \in 1 .. Len(log) /\ Cardinality(OfActor(reader.actor, i)) \in Nat
  <2>1. \A i \in mine : i \in 1 .. Len(log) /\ i \in Nat
    BY DEF OfActor
  <2>2. QED
    BY <2>1, OfActorIs
<1>. HIDE DEF mine, page
<1>6. CASE page = {}
  <2>1. reader' = [reader EXCEPT !.pc = "done", !.offset = 0]
    BY <1>1, <1>6
  <2>2. /\ reader' \in Reader /\ reader'.pc = "done"
        /\ reader'.limit = reader.limit /\ reader'.unseen = reader.unseen
    BY <1>2, <2>1 DEF Reader
  <2>3. ASSUME reader.limit <= Ceiling, NEW r \in reader.unseen PROVE FALSE
    <3>1. PICK i \in mine : Cardinality(OfActor(reader.actor, i)) > reader.offset
      BY <1>4, <2>3
    <3>2. PICK j \in OfActor(reader.actor, i) :
             Cardinality(OfActor(reader.actor, j)) = reader.offset + 1
      BY <1>2, <1>5, <3>1, NextOfActor
    <3>3. j \in mine
      BY <1>5 DEF mine, OfActor
    <3>4. log[j] \in page
      BY <1>2, <1>3, <2>3, <3>2, <3>3
    <3>5. QED
      BY <1>6, <3>4
  <2>4. QED
    BY <2>2, <2>3 DEF ReaderOK, ReaderInv, UnseenIsAhead, PagesMissNothing
<1>7. CASE page # {}
  <2>. DEFINE rest == reader.unseen \ page
              next == reader.offset + reader.limit
  <2>1. reader' = [reader EXCEPT !.offset = next, !.unseen = rest]
    BY <1>1, <1>7
  <2>2. next \in Nat /\ rest \in SUBSET [actor : Actors, target : Scans]
    BY <1>2 DEF Reader
  <2>3. /\ reader' \in Reader /\ reader'.pc = "reading"
        /\ reader'.limit = reader.limit /\ reader'.actor = reader.actor
        /\ reader'.offset = reader.offset + reader.limit
        /\ reader'.unseen = reader.unseen \ page
    <3>. HIDE DEF rest, next
    <3>1. /\ reader' \in Reader /\ reader'.pc = "reading"
          /\ reader'.limit = reader.limit /\ reader'.actor = reader.actor
          /\ reader'.offset = next /\ reader'.unseen = rest
      BY <1>1, <1>2, <2>1, <2>2 DEF Reader
    <3>2. QED
      BY <3>1 DEF rest, next
  <2>4. ASSUME reader.limit <= Ceiling, NEW r \in reader'.unseen
        PROVE  \E i \in mine : /\ log[i] = r
                               /\ Cardinality(OfActor(reader.actor, i)) > reader'.offset
    <3>1. PICK i \in mine : log[i] = r /\ Cardinality(OfActor(reader.actor, i)) > reader.offset
      BY <1>4, <2>3, <2>4
    <3>2. ~ (Cardinality(OfActor(reader.actor, i)) <= reader.offset + reader.limit)
      BY <1>3, <2>3, <2>4, <3>1
    <3>3. QED
      BY <1>2, <1>5, <2>3, <3>1, <3>2
  <2>5. \A i : OfActor(reader.actor, i)' = OfActor(reader.actor, i)
    BY <1>1, <2>3 DEF OfActor
  <2>6. mine' = mine
    BY <1>1, <2>3 DEF mine, OfActor
  <2>7. UnseenIsAhead'
    BY <2>3, <2>4, <2>5, <2>6, <1>1 DEF UnseenIsAhead, mine, OfActor
  <2>8. QED
    BY <1>2, <2>3, <2>7 DEF ReaderOK, ReaderInv, PagesMissNothing
<1>8. QED
  BY <1>6, <1>7

LEMMA NextKeepsReader ==
    ASSUME TypeOK, ReaderOK, [Next]_vars
    PROVE  ReaderOK'
<1>1. CASE Reading
  BY <1>1, StartReadingKeepsReader, ReadPageKeepsReader DEF Reading
<1>2. ASSUME NEW s \in Scans, ScanAudited(s) PROVE ReaderOK'
  <2>1. /\ Record([actor |-> post[s].by, target |-> s], post[s].before)
        /\ post[s] \in Post
    BY <1>2 DEF ScanAudited, TypeOK
  <2>2. [actor |-> post[s].by, target |-> s] \in Records /\ post[s].before \in Nat
    BY <2>1, SyncAssumption DEF Records, Post
  <2>3. QED
    BY <2>1, <2>2, RecordKeepsReader
<1>3. CASE UNCHANGED auditVars
  <2>1. reader' = reader /\ log' = log
    BY <1>3 DEF auditVars
  <2>2. UnseenIsAhead' = UnseenIsAhead
    BY <2>1 DEF UnseenIsAhead, OfActor
  <2>3. QED
    BY <2>1, <2>2 DEF ReaderOK, ReaderInv, PagesMissNothing
<1>4. QED
  BY <1>1, <1>2, <1>3 DEF Next, Handle, ScanAws, ScanFails, ScanSaved, AuditFails, Ask,
     Show, ShowOne, ReadStatistics, ReadPaths, TimesOut, ApiRestarts, vars

LEMMA ReaderStarts == Init => ReaderOK
BY DEF Init, AuditInit, NoReading, ReaderOK, Reader, ReaderInv, UnseenIsAhead,
   PagesMissNothing

LEMMA NextInv == TypeOK /\ SyncInv /\ [Next]_vars => TypeOK' /\ SyncInv'
<1>. SUFFICES ASSUME TypeOK, SyncInv, [Next]_vars PROVE TypeOK' /\ SyncInv'
  OBVIOUS
<1>1. ASSUME NEW s \in Scans, Handle(s) PROVE TypeOK' /\ SyncInv'
  BY <1>1, ScanFailsInv, ScanSavedInv, ScanAuditedInv DEF Handle
<1>2. CASE Reading /\ UNCHANGED syncVars
  <2>1. UNCHANGED log
    BY <1>2 DEF Reading, StartReading, ReadPage
  <2>2. QED
    BY <1>2, <2>1, UnchangedInv
<1>3. CASE UNCHANGED vars
  BY <1>3, UnchangedInv DEF vars, auditVars
<1>4. QED
  BY <1>1, <1>2, <1>3, ScanAwsInv, AuditFailsInv, AskInv, ShowInv, TimesOutInv,
     ApiRestartsInv DEF Next

(*-------------------------------------------------------------------------*)

(* Every reachable state has the shape of the dictionary, the handlers and *)
(* the commands, and satisfies the inductive invariant.                    *)
THEOREM SyncInvariant == Spec => [](TypeOK /\ SyncInv /\ ReaderOK)
<1>1. TypeOK /\ ReaderOK /\ [Next]_vars => ReaderOK'
  BY NextKeepsReader
<1>2. QED
  BY <1>1, InitInv, ReaderStarts, NextInv, PTL DEF Spec

(* The two requests of `report` always show one scan or, without --scan-id, *)
(* the paths of one that was saved after it.                               *)
THEOREM ReportAlwaysOfOneScan == Spec => []ReportIsOfOneScan
<1>1. TypeOK /\ SyncInv => ReportIsOfOneScan
  BY DEF SyncInv, CommandInv, ReportIsOfOneScan
<1>2. QED
  BY <1>1, SyncInvariant, PTL

(* InMemoryScanStore.latest() never shows a user a scan from before the    *)
(* one that user was told is complete.                                     *)
THEOREM AlwaysSeesOwnScan == Spec => []SeesOwnScan
<1>1. TypeOK /\ SyncInv => SeesOwnScan
  BY DEF SyncInv, CommandInv, SeesOwnScan
<1>2. QED
  BY <1>1, SyncInvariant, PTL

(* What POST /scans answers is so, and the audit log is complete but for   *)
(* the scans whose insert failed or was cut off.                           *)
THEOREM AnswersAlwaysTrue == Spec => []AnswersAreTrue
<1>1. ASSUME TypeOK, SyncInv PROVE AnswersAreTrue
  <2>1. \A s : Contains(saved, s) <=> s \in SavedScans
    BY <1>1 DEF Contains, SavedScans, ToSet, TypeOK
  <2>2. \A c \in Clients : (cli[c].cmd = "scan" /\ cli[c].pc = "ended") =>
          /\ cli[c].outcome = "ok" => Audited(cli[c].id)
          /\ cli[c].outcome = "502" => ~ Contains(saved, cli[c].id)
    BY <1>1, <2>1 DEF SyncInv, CommandInv
  <2>3. \A s \in ToSet(saved) : Audited(s) \/ post[s].pc \in {"auditing", "unaudited"}
    BY <1>1 DEF SyncInv, SavedInv, SavedScans
  <2>4. \A i \in DOMAIN log : Contains(saved, log[i].target)
    BY <1>1, <2>1 DEF SyncInv, SavedInv
  <2>5. QED
    BY <2>2, <2>3, <2>4 DEF AnswersAreTrue
<1>2. QED
  BY <1>1, SyncInvariant, PTL

(* A reader of the audit log that goes through its pages misses no record, *)
(* however many are written and wherever their timestamps put them.        *)
THEOREM PagesAlwaysMissNothing == Spec => []PagesMissNothing
<1>1. ReaderOK => PagesMissNothing
  BY DEF ReaderOK, ReaderInv
<1>2. QED
  BY <1>1, SyncInvariant, PTL
=============================================================================

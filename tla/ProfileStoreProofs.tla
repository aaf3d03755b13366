------------------------- MODULE ProfileStoreProofs -------------------------
(* Proofs about ProfileStore.  One task writes profiles, one key at a time, and power    *)
(* can be lost between any two keys, so each job in progress (a save, a migration, a      *)
(* delete) is first described by an invariant: the commits it has made, those it has left *)
(* and what flash holds meanwhile (Saving, Migrating, Deleting; Jobs is their             *)
(* conjunction with the types).  The lemmas SaveCommit, MigrateCommit and DeleteCommit    *)
(* say what one commit does; the five properties of the module are then invariants on     *)
(* top of Jobs, each proved by a case for each job.                                        *)
EXTENDS ProfileStore, SequenceTheorems, FiniteSetTheorems, WellFoundedInduction, TLAPS

----------------------------------------------------------------------------------
(* The commits: what each job has to make, one by one. *)
(* Taking the first commit moves each of the others one place to the front. *)
LEMMA Take ==
  ASSUME queue \in Seq(Commits), queue # <<>>
  PROVE  /\ Len(queue) \in Nat \ {0} /\ Head(queue) = queue[1] /\ queue[1] \in Commits
         /\ Tail(queue) \in Seq(Commits) /\ Len(Tail(queue)) = Len(queue) - 1
         /\ \A t \in 1..Len(queue) - 1 : Tail(queue)[t] = queue[t + 1]
         /\ Tail(queue) = <<>> <=> Len(queue) = 1
<1>1. /\ Tail(queue) \in Seq(Commits) /\ Len(Tail(queue)) = Len(queue) - 1
      /\ \A t \in 1..Len(Tail(queue)) : Tail(queue)[t] = queue[t + 1]
  BY HeadTailProperties
<1>2. Len(queue) \in Nat \ {0}
  BY EmptySeq
<1>3. Tail(queue) # <<>> => Len(Tail(queue)) \in Nat \ {0}
  BY <1>1, EmptySeq
<1>4. Len(<<>>) = 0
  BY EmptySeq
<1>5. Head(queue) = queue[1]
  BY HeadTailProperties, SMT
<1>6. queue[1] \in Commits
  BY <1>2, ElementOfSeq, SMT
<1>7. Tail(queue) = <<>> <=> Len(queue) = 1
  <2> DEFINE n == Len(queue)
             m == Len(Tail(queue))
  <2>1. m = n - 1 /\ n \in Nat
    BY <1>1, <1>2
  <2>2. Tail(queue) # <<>> => m \in Nat \ {0}
    BY <1>3
  <2>3. Tail(queue) = <<>> => m = 0
    BY <1>4
  <2> HIDE DEF n, m
  <2>4. QED
    BY <2>1, <2>2, <2>3 DEF n
<1>8. QED
  BY <1>1, <1>2, <1>5, <1>6, <1>7

(* Two profiles with the same three keys are the same. *)
LEMMA SameProfile ==
  ASSUME NEW c \in Profiles, NEW e \in Profiles, c.ser = e.ser, c.host = e.host, c.acc = e.acc
  PROVE  c = e
BY DEF Profiles

(* A non-empty set of slots has a first one. *)
LEMMA FirstExists ==
  ASSUME NEW S \in SUBSET Nat, S # {}
  PROVE  First(S) \in S
<1> DEFINE R == {ss \in Nat \X Nat : ss[1] < ss[2]}
<1>1. IsWellFoundedOn(R, Nat)
  BY NatLessThanWellFounded, Zenon DEF OpToRel
<1>2. PICK x \in S : \A y \in S : <<y, x>> \notin R
  BY <1>1, WFMin, Zenon
<1>3. \A y \in S : ~(y < x)
  BY <1>2
<1>4. \A y \in S : x <= y
  BY <1>3
<1>5. QED
  BY <1>4 DEF First

(* What the next commit does, by the kind of its key. *)
LEMMA CommitField ==
  ASSUME TypeOK, Commit, queue[1].key \in Fields
  PROVE  LET w == queue[1] IN
         /\ w.slot \in Slots /\ w.val \in Values
         /\ slots' \in [Slots -> Profiles]
         /\ slots'[w.slot][w.key] = w.val
         /\ \A g \in Fields \ {w.key} : slots'[w.slot][g] = slots[w.slot][g]
         /\ \A i \in Slots \ {w.slot} : slots'[i] = slots[i]
         /\ UNCHANGED <<count, active, legacy>>
<1> DEFINE w == queue[1]
<1>1. /\ w \in Commits /\ Head(queue) = w
  BY Take DEF Commit, TypeOK
<1>2. w \in [key : Fields, slot : Slots, val : Values]
  BY <1>1 DEF Commits, Fields
<1>3. slots' = [slots EXCEPT ![w.slot] = [@ EXCEPT ![w.key] = w.val]]
  BY <1>1 DEF Commit
<1>4. w.key \notin {"count", "active", "legacy"}
  BY <1>2 DEF Fields
<1>5. UNCHANGED <<count, active, legacy>>
  BY <1>1, <1>4 DEF Commit
<1>6. slots \in [Slots -> Profiles]
  BY DEF TypeOK
<1>7. [slots[w.slot] EXCEPT ![w.key] = w.val] \in Profiles
  BY <1>2, <1>6 DEF Profiles, Fields
<1>8. QED
  BY <1>2, <1>3, <1>5, <1>6, <1>7 DEF Profiles, Fields

LEMMA CommitNumber ==
  ASSUME TypeOK, Commit, queue[1].key \notin Fields
  PROVE  LET w == queue[1] IN
         /\ slots' = slots
         /\ w.key = "count" =>
              w.slot \in 0..MaxProfiles /\ count' = w.slot /\ UNCHANGED <<active, legacy>>
         /\ w.key = "active" =>
              w.slot \in Slots /\ active' = w.slot /\ UNCHANGED <<count, legacy>>
         /\ w.key = "legacy" =>
              w.slot \in 0..3 /\ legacy' = w.slot /\ UNCHANGED <<count, active>>
         /\ w.key \in {"count", "active", "legacy"}
<1> DEFINE w == queue[1]
<1>1. /\ w \in Commits /\ Head(queue) = w
  BY Take DEF Commit, TypeOK
<1>2. \/ w \in [key : {"count"}, slot : 0..MaxProfiles, val : {None}]
      \/ w \in [key : {"active"}, slot : Slots, val : {None}]
      \/ w \in [key : {"legacy"}, slot : 0..3, val : {None}]
  BY <1>1 DEF Commits, Fields
<1>3. QED
  BY <1>1, <1>2 DEF Commit, Fields

(* The commits of a save, one by one. *)
SaveKey(i, p, n) == IF n = 4 THEN Key("count", i + 1, None)
                    ELSE Key(FieldNo(n - 1), i, p[FieldNo(n - 1)])

(* The three keys in the order in which they are written. *)
LEMMA FieldsAre == /\ FieldNo(0) = "ser" /\ FieldNo(1) = "host" /\ FieldNo(2) = "acc"
                   /\ \A n \in 0..2 : FieldNo(n) \in Fields
BY DEF FieldNo, Fields

(* The commits are well typed. *)
LEMMA KeyTyped ==
  /\ \A f \in Fields, i \in Slots, v \in Values : Key(f, i, v) \in Commits
  /\ \A n \in 0..MaxProfiles : Key("count", n, None) \in Commits
  /\ \A n \in Slots : Key("active", n, None) \in Commits
  /\ \A n \in 0..3 : Key("legacy", n, None) \in Commits
BY DEF Key, Commits

(* save_printer_profile: serial, host, access code, and the count only for a new slot. *)
LEMMA SaveWritesAre ==
  ASSUME count \in 0..MaxProfiles, NEW i \in Slots, NEW p \in Profiles
  PROVE  /\ SaveWrites(i, p) \in Seq(Commits)
         /\ Len(SaveWrites(i, p)) = IF i >= count THEN 4 ELSE 3
         /\ \A n \in 1..Len(SaveWrites(i, p)) : SaveWrites(i, p)[n] = SaveKey(i, p, n)
<1> DEFINE u == PutProfile(i, p)
           v == IF i >= count THEN <<Key("count", i + 1, None)>> ELSE <<>>
<1>1. p.ser \in Values /\ p.host \in Values /\ p.acc \in Values
  BY DEF Profiles
<1>2. u \in Seq(Commits) /\ Len(u) = 3
      /\ u[1] = Key("ser", i, p.ser) /\ u[2] = Key("host", i, p.host) /\ u[3] = Key("acc", i, p.acc)
  <2> DEFINE k1 == Key("ser", i, p.ser)
             k2 == Key("host", i, p.host)
             k3 == Key("acc", i, p.acc)
  <2>1. k1 \in Commits /\ k2 \in Commits /\ k3 \in Commits
    BY <1>1, KeyTyped DEF Fields
  <2>2. u = <<k1, k2, k3>>
    BY DEF PutProfile
  <2> HIDE DEF k1, k2, k3, u
  <2>3. QED
    BY <2>1, <2>2 DEF k1, k2, k3
<1>3. /\ v \in Seq(Commits) /\ Len(v) = (IF i >= count THEN 1 ELSE 0)
      /\ i >= count => v[1] = Key("count", i + 1, None)
  <2> DEFINE k == Key("count", i + 1, None)
  <2>1. k \in Commits
    BY KeyTyped, StoreAssumption DEF Slots
  <2> HIDE DEF k
  <2>2. QED
    BY <2>1 DEF k
<1>4. SaveWrites(i, p) = u \o v
  BY DEF SaveWrites
<1> HIDE DEF u, v
<1>5. /\ u \o v \in Seq(Commits) /\ Len(u \o v) = Len(u) + Len(v)
      /\ \A n \in 1..Len(u) + Len(v) :
           (u \o v)[n] = IF n <= Len(u) THEN u[n] ELSE v[n - Len(u)]
  BY <1>2, <1>3, ConcatProperties
<1>6. \A n \in 1..Len(u) + Len(v) : (u \o v)[n] = SaveKey(i, p, n)
  <2> SUFFICES ASSUME NEW n \in 1..Len(u) + Len(v)
               PROVE  (u \o v)[n] = SaveKey(i, p, n)
    OBVIOUS
  <2>1. n \in 1..4 /\ (n = 4 => i >= count)
    BY <1>2, <1>3
  <2>2. CASE n = 1
    BY <1>2, <1>3, <1>5, <2>2, FieldsAre DEF SaveKey
  <2>3. CASE n = 2
    BY <1>2, <1>3, <1>5, <2>3, FieldsAre DEF SaveKey
  <2>4. CASE n = 3
    BY <1>2, <1>3, <1>5, <2>4, FieldsAre DEF SaveKey
  <2>5. CASE n = 4
    BY <1>2, <1>3, <1>5, <2>1, <2>5 DEF SaveKey
  <2>6. QED
    BY <2>1, <2>2, <2>3, <2>4, <2>5
<1>7. QED
  BY <1>2, <1>3, <1>4, <1>5, <1>6

(* The slot of an upsert. *)
LEMMA ListedCount ==
  ASSUME count \in 0..MaxProfiles
  PROVE  /\ IsFiniteSet(Listed) /\ Cardinality(Listed) \in 0..count
         /\ (\A i \in Slots : i < count => i \in Listed) => Cardinality(Listed) = count
         /\ Cardinality(Listed) = count => \A i \in Slots : i < count => i \in Listed
         /\ (\A i \in Slots : i < count - 1 => i \in Listed) => Cardinality(Listed) \notin Listed
<1> DEFINE Used == 0..count - 1
<1>1. IsFiniteSet(Used) /\ Cardinality(Used) = count
  BY FS_Interval, SMT
<1>2. Listed \in SUBSET Used
  BY DEF Listed, Slots
<1>3. /\ IsFiniteSet(Listed) /\ Cardinality(Listed) <= count
      /\ Cardinality(Listed) = count => Listed = Used
  BY <1>1, <1>2, FS_Subset, Zenon
<1>4. Cardinality(Listed) \in Nat
  BY <1>3, FS_CardinalityType
<1>5. \A i \in Used : i \in Slots /\ i < count
  BY StoreAssumption DEF Slots
<1>6. (\A i \in Slots : i < count => i \in Listed) => Listed = Used
  <2> HIDE DEF Used
  <2>1. QED
    BY <1>2, <1>5
<1>7. Cardinality(Listed) = count => \A i \in Slots : i < count => i \in Listed
  BY <1>3 DEF Slots
<1>8. ASSUME \A i \in Slots : i < count - 1 => i \in Listed
      PROVE  Cardinality(Listed) \notin Listed
  <2>1. CASE count - 1 \in Listed
    <3>1. \A i \in Slots : i < count => i \in Listed
      BY <1>8, <2>1 DEF Slots
    <3>2. QED
      BY <3>1, <1>1, <1>5, <1>6
  <2>2. CASE count - 1 \notin Listed
    <3>1. Listed = 0..count - 2
      <4>1. \A i \in Listed : i \in 0..count - 2
        BY <1>2, <2>2
      <4>2. \A i \in 0..count - 2 : i \in Listed
        BY <1>8, StoreAssumption DEF Slots
      <4>3. QED
        BY <4>1, <4>2
    <3>2. Cardinality(0..count - 2) = IF 0 > count - 2 THEN 0 ELSE count - 2 - 0 + 1
      BY FS_Interval, SMT
    <3>3. QED
      BY <3>1, <3>2
  <2>3. QED
    BY <2>1, <2>2
<1>9. QED
  BY <1>1, <1>3, <1>4, <1>6, <1>7, <1>8

(* An upsert goes to a listed slot of that serial, or to the number of the listed ones. *)
LEMMA SlotOfIs ==
  ASSUME TypeOK, NEW serial
  PROVE  /\ SlotOf(serial) \in 0..count
         /\ \/ SlotOf(serial) \in Listed /\ slots[SlotOf(serial)].ser = serial
            \/ SlotOf(serial) = Cardinality(Listed)
<1> DEFINE same == {i \in Listed : slots[i].ser = serial}
<1>1. CASE same # {}
  <2>1. same \in SUBSET Nat
    BY DEF Listed, Slots
  <2>2. First(same) \in same
    BY <1>1, <2>1, FirstExists
  <2>3. SlotOf(serial) = First(same)
    BY <1>1, Zenon DEF SlotOf
  <2>4. SlotOf(serial) \in Listed /\ slots[SlotOf(serial)].ser = serial
    BY <2>2, <2>3, Zenon
  <2>5. count \in Nat
    BY StoreAssumption DEF TypeOK
  <2> HIDE DEF same
  <2>6. SlotOf(serial) \in 0..count
    BY <2>4, <2>5 DEF Listed, Slots
  <2>7. QED
    BY <2>4, <2>6
<1>2. CASE same = {}
  <2>1. SlotOf(serial) = Cardinality(Listed)
    BY <1>2 DEF SlotOf
  <2>2. QED
    BY <2>1, ListedCount DEF TypeOK
<1>3. QED
  BY <1>1, <1>2

(* A function on 1..n is a sequence of length n. *)
LEMMA FunctionIsSeq ==
  ASSUME NEW S, NEW n \in Nat, NEW f \in [1..n -> S]
  PROVE  f \in Seq(S) /\ Len(f) = n
<1>1. f \in Seq(S)
  BY SeqDef
<1>2. Len(f) \in Nat /\ DOMAIN f = 1..Len(f)
  BY <1>1, LenProperties, Zenon
<1>3. 1..Len(f) = 1..n
  BY <1>2
<1>4. QED
  BY <1>1, <1>2, <1>3

(* What the flat keys hold is a profile, however many of them have been emptied. *)
LEMMA OldIsProfile == ASSUME legacy \in 0..3 PROVE OldProfile \in Profiles
BY StoreAssumption DEF OldProfile, Profiles, Values

(* The commits of a migration: slot 0, the active index, and the flat keys. *)
LEMMA MigrateWritesAre ==
  ASSUME TypeOK, count = 0, legacy \in 1..3
  PROVE  /\ MigrateWrites \in Seq(Commits) /\ Len(MigrateWrites) = 5 + legacy
         /\ \A t \in 1..4 : MigrateWrites[t] = SaveKey(0, OldProfile, t)
         /\ MigrateWrites[5] = Key("active", 0, None)
         /\ \A t \in 6..5 + legacy : MigrateWrites[t] = Key("legacy", legacy - (t - 5), None)
<1> DEFINE s == SaveWrites(0, OldProfile)
           k == Key("active", 0, None)
           a == <<k>>
<1>1. /\ s \in Seq(Commits) /\ Len(s) = 4
      /\ \A n \in 1..4 : s[n] = SaveKey(0, OldProfile, n)
  <2>1. 0 \in Slots /\ count \in 0..MaxProfiles /\ 0 >= count
    BY StoreAssumption DEF Slots, TypeOK
  <2>2. OldProfile \in Profiles
    BY OldIsProfile
  <2> HIDE DEF s
  <2>3. /\ s \in Seq(Commits) /\ Len(s) = (IF 0 >= count THEN 4 ELSE 3)
        /\ \A n \in 1..Len(s) : s[n] = SaveKey(0, OldProfile, n)
    BY <2>1, <2>2, SaveWritesAre, Zenon DEF s
  <2>4. QED
    BY <2>1, <2>3
<1>2. k \in Commits
  BY KeyTyped, StoreAssumption DEF Slots
<1>3. /\ ClearOld \in Seq(Commits) /\ Len(ClearOld) = legacy
      /\ \A t \in 1..legacy : ClearOld[t] = Key("legacy", legacy - t, None)
  <2>1. \A t \in 1..legacy : Key("legacy", legacy - t, None) \in Commits
    BY KeyTyped
  <2>2. ClearOld \in [1..legacy -> Commits]
    BY <2>1 DEF ClearOld
  <2>3. ClearOld \in Seq(Commits) /\ Len(ClearOld) = legacy
    BY <2>2, FunctionIsSeq
  <2>4. QED
    BY <2>3 DEF ClearOld
<1> HIDE DEF s, k
<1>4. a \in Seq(Commits) /\ Len(a) = 1 /\ a[1] = k
  BY <1>2
<1>5. MigrateWrites = (s \o a) \o ClearOld
  BY DEF MigrateWrites, s, a, k
<1> HIDE DEF a
<1>6. /\ s \o a \in Seq(Commits) /\ Len(s \o a) = Len(s) + Len(a)
      /\ \A t \in 1..Len(s) + Len(a) :
           (s \o a)[t] = IF t <= Len(s) THEN s[t] ELSE a[t - Len(s)]
  BY <1>1, <1>4, ConcatProperties
<1> DEFINE sa == s \o a
<1> HIDE DEF sa
<1>7. /\ sa \o ClearOld \in Seq(Commits) /\ Len(sa \o ClearOld) = Len(sa) + Len(ClearOld)
      /\ \A t \in 1..Len(sa) + Len(ClearOld) :
           (sa \o ClearOld)[t] = IF t <= Len(sa) THEN sa[t] ELSE ClearOld[t - Len(sa)]
  <2>1. sa \in Seq(Commits) /\ ClearOld \in Seq(Commits)
    BY <1>3, <1>6 DEF sa
  <2>2. QED
    BY <2>1, ConcatProperties
<1>8. /\ Len(sa) = 5 /\ \A t \in 1..5 : sa[t] = IF t <= 4 THEN s[t] ELSE a[t - 4]
  BY <1>1, <1>4, <1>6 DEF sa
<1>9. MigrateWrites = sa \o ClearOld
  BY <1>5 DEF sa
<1>10. Len(MigrateWrites) = 5 + legacy
       /\ \A t \in 1..5 + legacy :
            MigrateWrites[t] = IF t <= 4 THEN s[t] ELSE IF t = 5 THEN k ELSE ClearOld[t - 5]
  BY <1>3, <1>4, <1>7, <1>8, <1>9
<1>11. \A t \in 6..5 + legacy : MigrateWrites[t] = Key("legacy", legacy - (t - 5), None)
  BY <1>3, <1>10
<1>12. \A t \in 1..4 : MigrateWrites[t] = SaveKey(0, OldProfile, t)
  BY <1>1, <1>10
<1>13. MigrateWrites[5] = Key("active", 0, None)
  BY <1>10 DEF k
<1>14. QED
  BY <1>7, <1>9, <1>10, <1>11, <1>12, <1>13

(* The n-th commit of a delete of slot i, as the slots p and their number c stand. *)
ShiftKey(p, c, i, n) ==
  IF n = 3 * (c - i) + 1 THEN Key("count", c - 1, None)
  ELSE LET s == i + ((n - 1) \div 3)
           f == FieldNo((n - 1) % 3)
       IN  Key(f, s, IF s = c - 1 THEN None ELSE p[s + 1][f])

(* Counting the keys of a delete in threes. *)
LEMMA Thirds ==
  \A n \in Nat : /\ n % 3 \in 0..2 /\ n \div 3 \in Nat /\ n = 3 * (n \div 3) + (n % 3)
BY SMT

(* delete_printer_profile: three keys of each slot from the deleted one up, then the count. *)
LEMMA DeleteWritesAre ==
  ASSUME TypeOK, NEW i \in 0..count - 1
  PROVE  /\ DeleteWrites(i) \in Seq(Commits) /\ Len(DeleteWrites(i)) = 3 * (count - i) + 1
         /\ \A n \in 1..3 * (count - i) + 1 : DeleteWrites(i)[n] = ShiftKey(slots, count, i, n)
<1> DEFINE N == 3 * (count - i)
           u == [n \in 1..N |->
                   LET s == i + ((n - 1) \div 3)
                       f == FieldNo((n - 1) % 3)
                   IN  Key(f, s, IF s = count - 1 THEN None ELSE slots[s + 1][f])]
           k == Key("count", count - 1, None)
           v == <<k>>
<1>1. count \in 1..MaxProfiles /\ N \in Nat
  BY StoreAssumption DEF TypeOK
<1>2. \A n \in 1..N : u[n] = ShiftKey(slots, count, i, n)
  BY <1>1 DEF ShiftKey
<1>3. ASSUME NEW n \in 1..N PROVE ShiftKey(slots, count, i, n) \in Commits
  <2> DEFINE s == i + ((n - 1) \div 3)
             f == FieldNo((n - 1) % 3)
             x == IF s = count - 1 THEN None ELSE slots[s + 1][f]
  <2>1. s \in Slots /\ s < count /\ f \in Fields
    <3>1. n - 1 \in Nat /\ n - 1 < N
      BY <1>1
    <3>2. (n - 1) % 3 \in 0..2 /\ (n - 1) \div 3 \in Nat
          /\ n - 1 = 3 * ((n - 1) \div 3) + ((n - 1) % 3)
      BY <3>1, Thirds
    <3>3. QED
      BY <1>1, <3>1, <3>2, FieldsAre, StoreAssumption DEF Slots
  <2>2. x \in Values
    <3> HIDE DEF s, f
    <3>1. CASE s = count - 1
      BY <3>1 DEF Values
    <3>2. CASE s # count - 1
      <4>1. s + 1 \in Slots
        BY <1>1, <2>1, <3>2, StoreAssumption DEF Slots
      <4>2. slots[s + 1] \in Profiles
        BY <4>1 DEF TypeOK
      <4>3. QED
        BY <2>1, <3>2, <4>2 DEF Profiles, Fields
    <3>3. QED
      BY <3>1, <3>2
  <2>3. ShiftKey(slots, count, i, n) = Key(f, s, x)
    BY <1>1 DEF ShiftKey
  <2> HIDE DEF s, f, x
  <2>4. QED
    BY <2>1, <2>2, <2>3, KeyTyped
<1>4. u \in Seq(Commits) /\ Len(u) = N
  <2>1. u \in [1..N -> Commits]
    BY <1>2, <1>3
  <2> HIDE DEF u, N
  <2>2. QED
    BY <1>1, <2>1, FunctionIsSeq
<1>5. DeleteWrites(i) = u \o v
  BY DEF DeleteWrites
<1>6. k \in Commits
  BY <1>1, KeyTyped, StoreAssumption
<1> HIDE DEF u, N, k
<1>7. v \in Seq(Commits) /\ Len(v) = 1 /\ v[1] = k
  BY <1>6
<1> HIDE DEF v
<1>8. /\ u \o v \in Seq(Commits) /\ Len(u \o v) = Len(u) + Len(v)
      /\ \A n \in 1..Len(u) + Len(v) :
           (u \o v)[n] = IF n <= Len(u) THEN u[n] ELSE v[n - Len(u)]
  BY <1>4, <1>7, ConcatProperties
<1>9. \A n \in 1..N + 1 : (u \o v)[n] = ShiftKey(slots, count, i, n)
  <2>1. ShiftKey(slots, count, i, N + 1) = k
    BY DEF ShiftKey, N, k
  <2>2. QED
    BY <1>1, <1>2, <1>4, <1>7, <1>8, <2>1
<1>10. QED
  BY <1>4, <1>5, <1>7, <1>8, <1>9 DEF N

----------------------------------------------------------------------------------
(* The types, and the phases of the writing task. *)
(* The writing task has commits before it: printer_profile_mutex_ is held. *)
Writing == queue # <<>>
(* The type invariant in five parts, each with a proof of its own. *)
Steps == {"boot", "start", "idle", "form", "reboot", "activate", "serve", "delete",
          "adjust", "adjusted", "drop", "cleared"}
Ops == {"none", "form", "connect", "save", "select", "delete", "clear"}
Reqs == [op : Ops, slot : 0..MaxProfiles, conn : Profiles, flag : BOOLEAN]

FlashOK == /\ slots \in [Slots -> Profiles] /\ count \in 0..MaxProfiles
           /\ active \in Slots /\ legacy \in 0..3
           /\ queue \in Seq(Commits)
TaskOK == pc \in Steps /\ req \in Reqs

(* Where the one writing task stands: which of its steps have commits to make, for   *)
(* which request, and what that request says.                                        *)
Phase ==
  /\ Writing => pc \in {"start", "idle", "activate", "cleared", "reboot", "adjust"}
  /\ Writing /\ pc = "idle" => req.op = "save"
  /\ Writing /\ pc = "activate" => req.op = "connect"
  /\ pc = "cleared" => req.op = "clear"
  /\ pc \in {"form", "reboot"} => req.op = "form"
  /\ pc \in {"boot", "start"} => req = NoRequest
  /\ pc \in {"delete", "adjust"} => req.op = "delete"
  /\ pc = "delete" => req.slot < count /\ req.conn = slots[req.slot]
  /\ pc \in {"activate", "adjusted"} => req.slot \in Slots
(* The inductive invariant of type correctness. *)
Types == TypeOK /\ Phase

(* The two parts of the types that the proofs below use most. *)
LEMMA TypesAre == TypeOK => FlashOK /\ TaskOK
BY DEF TypeOK, FlashOK, TaskOK, Steps, Ops, Reqs

(* While there are commits to make, only they, a loss of power and the application  *)
(* take steps; while there are none, the profiles do not change.                     *)
LEMMA Busy ==
  ASSUME Types, Writing, [Next]_vars
  PROVE  Commit \/ Crash \/ UNCHANGED <<slots, count, legacy, queue, pc, req>>
<1> USE DEF Types, Phase, Writing
<1>1. CASE Boot \/ Start
  BY <1>1 DEF Boot, Start
<1>2. CASE Application
  BY <1>2 DEF Application, AppCards, AppSwitch, AppRead, AppList, AppServe, flash
<1>3. CASE Portal
  <2>1. CASE FormPost \/ FormStore \/ FormDone \/ LocalConnect \/ Save \/ Select
    BY <2>1 DEF FormPost, FormStore, FormDone, LocalConnect, Save, Select, Request
  <2>2. CASE Delete \/ DeleteStart \/ Adjust \/ AdjustWrite \/ Drop
    BY <2>2 DEF Delete, DeleteStart, Adjust, AdjustWrite, Drop, Request
  <2>3. CASE ClearLocal \/ Cleared \/ Activate \/ Serve
    BY <2>3 DEF ClearLocal, Cleared, Activate, Serve, Request
  <2>4. QED
    BY <1>3, <2>1, <2>2, <2>3 DEF Portal
<1>4. CASE UNCHANGED vars
  BY <1>4 DEF vars, flash
<1>5. QED
  BY <1>1, <1>2, <1>3, <1>4 DEF Next

(* A step taken while nothing is being written changes no profile, and begins a job or none. *)
LEMMA Waiting ==
  ASSUME ~Writing, [Next]_vars
  PROVE  /\ UNCHANGED <<slots, count, legacy>>
         /\ \/ queue' = <<>>
            \/ Boot \/ FormStore \/ LocalConnect \/ Save \/ DeleteStart \/ ClearLocal
<1> USE DEF Writing, flash
<1>1. CASE Commit
  BY <1>1 DEF Commit
<1>2. CASE Boot \/ Start \/ Crash
  BY <1>2 DEF Boot, Start, Crash
<1>3. CASE Application
  BY <1>3 DEF Application, AppCards, AppSwitch, AppRead, AppList, AppServe
<1>4. CASE FormPost \/ FormStore \/ FormDone \/ LocalConnect \/ Save \/ Select
  BY <1>4 DEF FormPost, FormStore, FormDone, LocalConnect, Save, Select
<1>5. CASE Delete \/ DeleteStart \/ Adjust \/ AdjustWrite \/ Drop
  BY <1>5 DEF Delete, DeleteStart, Adjust, AdjustWrite, Drop
<1>6. CASE ClearLocal \/ Cleared \/ Activate \/ Serve
  BY <1>6 DEF ClearLocal, Cleared, Activate, Serve
<1>7. CASE UNCHANGED vars
  BY <1>7 DEF vars
<1>8. QED
  BY <1>1, <1>2, <1>3, <1>4, <1>5, <1>6, <1>7 DEF Next, Portal

(* What the handlers read from flash and make of it are profiles and slots. *)
LEMMA ReadsTyped ==
  ASSUME TypeOK
  PROVE  /\ Empty \in Profiles /\ NoRequest \in Reqs
         /\ \A i \in Slots : slots[i] \in Profiles
         /\ \A i \in Listed : i \in Slots /\ i \in 0..MaxProfiles
         /\ \A i : ActiveProfile(i) \in Profiles
         /\ \A f \in Profiles : Merged(f) \in Profiles
<1>1. Empty \in Profiles
  BY DEF Empty, Profiles, Values
<1>2. NoRequest \in Reqs
  BY <1>1, StoreAssumption DEF NoRequest, Reqs, Ops
<1>3. \A i \in Slots : slots[i] \in Profiles
  BY DEF TypeOK
<1>4. \A i : ActiveProfile(i) \in Profiles
  BY <1>1, <1>3 DEF ActiveProfile, Listed
<1>5. ASSUME NEW f \in Profiles PROVE Merged(f) \in Profiles
  <2>1. ActiveProfile(active).acc \in Values
    BY <1>4 DEF Profiles
  <2>2. [f EXCEPT !.acc = ActiveProfile(active).acc] \in Profiles
    BY <2>1 DEF Profiles
  <2>3. QED
    BY <2>2 DEF Merged
<1>6. QED
  BY <1>1, <1>2, <1>3, <1>4, <1>5, StoreAssumption DEF Listed, Slots

(* A request is noted as it was made. *)
LEMMA WorkingTyped ==
  ASSUME NEW op \in Ops, NEW i \in 0..MaxProfiles, NEW c \in Profiles, NEW flag \in BOOLEAN,
         Working(op, i, c, flag)
  PROVE  /\ req' \in Reqs
         /\ req'.op = op /\ req'.slot = i /\ req'.conn = c /\ req'.flag = flag
<1>1. req' = [op |-> op, slot |-> i, conn |-> c, flag |-> flag]
  BY DEF Working
<1>2. QED
  BY <1>1 DEF Reqs

(* The request a handler notes, and the commits it makes of it. *)
LEMMA RequestTyped ==
  ASSUME Types
  PROVE  /\ LocalConnect \/ Save \/ Select \/ Delete \/ ClearLocal \/ FormPost => req' \in Reqs
         /\ LocalConnect => req'.op = "connect"
         /\ Save => req'.op = "save" /\ req'.slot \in Slots
         /\ Select => req'.op = "select" /\ req'.slot \in Slots
         /\ Delete => /\ req'.op = "delete" /\ req'.slot < count
                      /\ req'.slot \in Slots /\ req'.conn = slots[req'.slot]
         /\ ClearLocal => req'.op = "clear" /\ req'.slot \in Slots
         /\ FormPost => req'.op = "form"
<1> USE DEF Types
<1>0. count \in 0..MaxProfiles /\ count \in Nat /\ MaxProfiles \in Nat
  BY StoreAssumption DEF TypeOK
<1>1. ASSUME LocalConnect PROVE req' \in Reqs /\ req'.op = "connect"
  <2>1. PICK f \in Forms, configures \in BOOLEAN :
          Working("connect", SlotOf(Merged(f).ser), Merged(f), configures)
    BY <1>1 DEF LocalConnect
  <2>2. Merged(f) \in Profiles
    BY ReadsTyped DEF Forms
  <2>3. SlotOf(Merged(f).ser) \in 0..MaxProfiles
    BY <1>0, SlotOfIs
  <2>4. QED
    BY <2>1, <2>2, <2>3, WorkingTyped DEF Ops
<1>2. ASSUME Save PROVE req' \in Reqs /\ req'.op = "save" /\ req'.slot \in Slots
  <2>1. PICK f \in Forms :
          LET i == SlotOf(f.ser)
              was == IF i \in Listed /\ slots[i].ser = f.ser THEN slots[i] ELSE Empty
          IN  /\ i < MaxProfiles
              /\ Working("save", i,
                         [ser |-> f.ser,
                          host |-> IF f.host = None THEN was.host ELSE f.host,
                          acc |-> IF f.acc = None THEN was.acc ELSE f.acc], FALSE)
    BY <1>2 DEF Save
  <2> DEFINE i == SlotOf(f.ser)
             was == IF i \in Listed /\ slots[i].ser = f.ser THEN slots[i] ELSE Empty
             c == [ser |-> f.ser, host |-> IF f.host = None THEN was.host ELSE f.host,
                   acc |-> IF f.acc = None THEN was.acc ELSE f.acc]
  <2>2. was \in Profiles /\ f \in Profiles
    BY ReadsTyped DEF Forms
  <2>3. i \in 0..MaxProfiles /\ i < MaxProfiles
    BY <1>0, <2>1, SlotOfIs
  <2>4. c \in Profiles
    <3> HIDE DEF was
    <3>1. QED
      BY <2>2 DEF Profiles
  <2>5. Working("save", i, c, FALSE)
    BY <2>1
  <2> HIDE DEF c, i
  <2>6. "save" \in Ops /\ FALSE \in BOOLEAN /\ i \in Slots
    BY <1>0, <2>3 DEF Ops, Slots
  <2>7. req' \in Reqs /\ req'.op = "save" /\ req'.slot = i
    BY <2>3, <2>4, <2>5, <2>6, WorkingTyped, Zenon
  <2>8. QED
    BY <2>6, <2>7
<1>3. ASSUME Select PROVE req' \in Reqs /\ req'.op = "select" /\ req'.slot \in Slots
  <2>1. PICK i \in Listed : Working("select", i, slots[i], TRUE)
    BY <1>3 DEF Select
  <2>2. QED
    BY <2>1, ReadsTyped, WorkingTyped DEF Ops
<1>4. ASSUME Delete
      PROVE  /\ req' \in Reqs /\ req'.op = "delete" /\ req'.slot < count
             /\ req'.slot \in Slots /\ req'.conn = slots[req'.slot]
  <2>1. PICK i \in 0..count - 1 : Working("delete", i, slots[i], i = active)
    BY <1>4 DEF Delete
  <2>2. i \in Slots /\ i \in 0..MaxProfiles /\ i < count
    BY <1>0 DEF Slots
  <2>3. (i = active) \in BOOLEAN /\ "delete" \in Ops
    BY DEF Ops
  <2>4. slots[i] \in Profiles
    BY <2>2, ReadsTyped
  <2>5. /\ req' \in Reqs /\ req'.op = "delete" /\ req'.slot = i /\ req'.conn = slots[i]
    BY <2>1, <2>2, <2>3, <2>4, WorkingTyped, Zenon
  <2>6. QED
    BY <2>2, <2>5
<1>5. ASSUME ClearLocal PROVE req' \in Reqs /\ req'.op = "clear" /\ req'.slot \in Slots
  <2>1. PICK i \in Listed :
          Working("clear", i, [slots[i] EXCEPT !.host = None, !.acc = None], FALSE)
    BY <1>5 DEF ClearLocal
  <2>2. [slots[i] EXCEPT !.host = None, !.acc = None] \in Profiles
    BY ReadsTyped DEF Profiles, Values
  <2>3. QED
    BY <2>1, <2>2, ReadsTyped, WorkingTyped DEF Ops
<1>6. ASSUME FormPost PROVE req' \in Reqs /\ req'.op = "form"
  <2>1. PICK f \in Forms \cup {Empty} : Working("form", 0, Merged(f), FALSE)
    BY <1>6 DEF FormPost
  <2>2. Merged(f) \in Profiles
    BY ReadsTyped DEF Forms
  <2>3. "form" \in Ops /\ FALSE \in BOOLEAN /\ 0 \in 0..MaxProfiles
    BY <1>0 DEF Ops
  <2>4. QED
    BY <2>1, <2>2, <2>3, WorkingTyped, Zenon
<1>7. QED
  BY <1>1, <1>2, <1>3, <1>4, <1>5, <1>6

(* The settings form is stored in the slot that is active then, or in the first one. *)
LEMMA FormTyped ==
  ASSUME Types, FormStore
  PROVE  /\ req' \in Reqs /\ req'.op = "form" /\ req'.slot \in Slots /\ req'.conn = req.conn
         /\ req'.slot \in Listed \/ req'.slot = 0
<1>1. req \in Reqs /\ req.op = "form"
  BY TypesAre DEF Types, TaskOK, Phase, FormStore
<1>2. active \in Slots /\ 0 \in Slots /\ \A i \in Slots : i \in 0..MaxProfiles
  BY StoreAssumption DEF Types, TypeOK, Slots
<1>3. req' = [req EXCEPT !.slot = IF active \in Listed THEN active ELSE 0]
  BY DEF FormStore
<1>4. QED
  BY <1>1, <1>2, <1>3 DEF Reqs

(* Every sequence of commits a step begins is one. *)
LEMMA QueueStep == ASSUME Types, [Next]_vars PROVE queue' \in Seq(Commits)
<1> USE DEF Types
<1>0. /\ FlashOK /\ TaskOK
      /\ <<>> \in Seq(Commits)
  BY TypesAre, EmptySeq
<1>1. CASE Writing
  <2>1. CASE Commit
    BY <1>0, <1>1, <2>1, Take DEF Commit, Writing, FlashOK
  <2>2. CASE Crash
    BY <1>0, <2>2 DEF Crash
  <2>3. CASE UNCHANGED queue
    BY <1>0, <2>3 DEF FlashOK
  <2>4. QED
    BY <1>1, <2>1, <2>2, <2>3, Busy
<1>2. CASE ~Writing
  <2>1. CASE Boot
    <3>1. CASE count = 0 /\ legacy > 0
      <4>1. legacy \in 1..3
        BY <1>0, <3>1 DEF FlashOK
      <4>2. QED
        BY <2>1, <3>1, <4>1, MigrateWritesAre DEF Boot
    <3>2. QED
      BY <1>0, <2>1, <3>1 DEF Boot
  <2>2. CASE FormStore
    BY <1>0, <2>2, FormTyped, SaveWritesAre DEF FormStore, FlashOK, TaskOK, Reqs
  <2>3. CASE LocalConnect
    <3>1. CASE req'.slot < MaxProfiles
      <4>1. req'.slot \in Slots /\ req'.conn \in Profiles
        BY <2>3, <3>1, RequestTyped, StoreAssumption DEF Reqs, Slots
      <4>2. QED
        BY <1>0, <2>3, <3>1, <4>1, SaveWritesAre DEF LocalConnect, FlashOK
    <3>2. QED
      BY <1>0, <2>3, <3>1 DEF LocalConnect
  <2>4. CASE Save \/ ClearLocal
    <3>1. req'.slot \in Slots /\ req'.conn \in Profiles
      BY <2>4, RequestTyped DEF Reqs
    <3>2. queue' = SaveWrites(req'.slot, req'.conn)
      BY <2>4 DEF Save, ClearLocal
    <3>3. QED
      BY <1>0, <3>1, <3>2, SaveWritesAre DEF FlashOK
  <2>5. CASE DeleteStart
    <3>1. req.slot \in 0..count - 1
      BY <1>0, <2>5 DEF Phase, DeleteStart, FlashOK, TaskOK, Reqs
    <3>2. QED
      BY <2>5, <3>1, DeleteWritesAre DEF DeleteStart
  <2>6. QED
    BY <1>0, <1>2, <2>1, <2>2, <2>3, <2>4, <2>5, Waiting
<1>3. QED
  BY <1>1, <1>2

(* The active index: the application takes one from its cards, the portal the slot of  *)
(* its request, a migration the first.                                                *)
LEMMA ActiveStep == ASSUME Types, [Next]_vars PROVE active' \in Slots
<1> USE DEF Types
<1>0. active \in Slots /\ cards \subseteq Slots
  BY DEF TypeOK
<1> USE DEF flash
<1>1. CASE Commit
  BY <1>0, <1>1, CommitField, CommitNumber
<1>2. CASE Boot \/ Start \/ Crash
  BY <1>0, <1>2 DEF Boot, Start, Crash
<1>3. CASE Application
  BY <1>0, <1>3 DEF Application, AppCards, AppSwitch, AppRead, AppList, AppServe
<1>4. CASE FormPost \/ FormStore \/ FormDone \/ LocalConnect \/ Save \/ Select
  BY <1>0, <1>4 DEF FormPost, FormStore, FormDone, LocalConnect, Save, Select
<1>5. CASE Delete \/ DeleteStart \/ Adjust \/ Drop
  BY <1>0, <1>5 DEF Delete, DeleteStart, Adjust, Drop
<1>6. CASE AdjustWrite \/ Activate
  BY <1>6 DEF Phase, AdjustWrite, Activate
<1>7. CASE ClearLocal \/ Cleared \/ Serve
  BY <1>0, <1>7 DEF ClearLocal, Cleared, Serve
<1>8. CASE UNCHANGED vars
  BY <1>0, <1>8 DEF vars
<1>9. QED
  BY <1>1, <1>2, <1>3, <1>4, <1>5, <1>6, <1>7, <1>8 DEF Next, Portal

(* The flash keys keep their types: a commit writes what its key may hold. *)
LEMMA FlashStep == ASSUME Types, [Next]_vars PROVE FlashOK'
<1>1. active' \in Slots /\ queue' \in Seq(Commits)
  BY ActiveStep, QueueStep
<1>2. slots' \in [Slots -> Profiles] /\ count' \in 0..MaxProfiles /\ legacy' \in 0..3
  <2>0. FlashOK
    BY TypesAre DEF Types
  <2>1. CASE Commit
    <3>1. CASE queue[1].key \in Fields
      BY <2>0, <2>1, <3>1, CommitField DEF FlashOK, Types
    <3>2. CASE queue[1].key \notin Fields
      BY <2>0, <2>1, <3>2, CommitNumber DEF FlashOK, Types
    <3>3. QED
      BY <3>1, <3>2
  <2>2. CASE UNCHANGED <<slots, count, legacy>>
    BY <2>0, <2>2 DEF FlashOK
  <2>3. CASE Crash
    BY <2>0, <2>3 DEF FlashOK, Crash, flash
  <2>4. QED
    BY <2>1, <2>2, <2>3, Busy, Waiting
<1>3. QED
  BY <1>1, <1>2 DEF FlashOK

(* The writing task goes from step to step with a well-typed request. *)
LEMMA TaskStep == ASSUME Types, [Next]_vars PROVE TaskOK'
<1> USE DEF Types
<1>0. TaskOK /\ NoRequest \in Reqs /\ count \in 0..MaxProfiles
  BY TypesAre, ReadsTyped DEF FlashOK
<1>1. CASE Commit \/ Boot \/ Start \/ Crash
  BY <1>0, <1>1 DEF Commit, Boot, Start, Crash, TaskOK, Steps
<1>2. CASE Application
  BY <1>0, <1>2 DEF Application, AppCards, AppSwitch, AppRead, AppList, AppServe, TaskOK
<1>3. CASE FormPost \/ FormStore
  BY <1>3, RequestTyped, FormTyped DEF FormPost, FormStore, TaskOK, Steps
<1>4. CASE LocalConnect
  BY <1>0, <1>4, RequestTyped DEF LocalConnect, TaskOK, Steps
<1>5. CASE Save \/ Select \/ Delete \/ ClearLocal
  BY <1>0, <1>5, RequestTyped DEF Save, Select, Delete, ClearLocal, TaskOK, Steps
<1>6. CASE Adjust
  <2>1. active \in Slots /\ req.slot \in 0..MaxProfiles /\ MaxProfiles \in Nat
    BY <1>0, StoreAssumption DEF TypeOK, TaskOK, Reqs
  <2>2. AfterDelete \in Steps
    BY DEF AfterDelete, Steps
  <2>3. CASE active >= req.slot
    <3>1. (IF active = req.slot THEN 0 ELSE active - 1) \in 0..MaxProfiles
      BY <2>1, <2>3 DEF Slots
    <3>2. QED
      BY <1>0, <1>6, <2>1, <2>2, <2>3, <3>1 DEF Adjust, TaskOK, Reqs, Steps, Slots
  <2>4. CASE active < req.slot
    BY <1>0, <1>6, <2>1, <2>2, <2>4 DEF Adjust, TaskOK, Slots
  <2>5. QED
    BY <2>1, <2>3, <2>4 DEF Slots
<1>7. CASE Drop
  <2>1. CASE Listed # {}
    <3>1. First(Listed) \in Listed
      BY <2>1, FirstExists DEF Listed, Slots
    <3>2. Working("delete", First(Listed), slots[First(Listed)], TRUE)
      BY <1>7, <2>1 DEF Drop
    <3>3. "delete" \in Ops /\ TRUE \in BOOLEAN
      BY DEF Ops
    <3>4. req' \in Reqs
      BY <3>1, <3>2, <3>3, ReadsTyped, WorkingTyped, Zenon
    <3>5. QED
      BY <1>7, <2>1, <3>4 DEF Drop, TaskOK, Steps
  <2>2. CASE Listed = {}
    BY <1>0, <1>7, <2>2 DEF Drop, TaskOK, Steps
  <2>3. QED
    BY <2>1, <2>2
<1>8. CASE FormDone \/ Cleared \/ Activate \/ Serve \/ DeleteStart \/ AdjustWrite
  BY <1>0, <1>8 DEF FormDone, Cleared, Activate, Serve, DeleteStart, AdjustWrite, AfterDelete,
                    TaskOK, Steps
<1>9. CASE UNCHANGED vars
  BY <1>0, <1>9 DEF vars, TaskOK
<1>10. QED
  BY <1>1, <1>2, <1>3, <1>4, <1>5, <1>6, <1>7, <1>8, <1>9 DEF Next, Portal

(* No step leaves commits behind in a phase that has none to make. *)
LEMMA PhaseStep == ASSUME Types, [Next]_vars PROVE Phase'
<1>0. /\ FlashOK /\ TaskOK /\ FlashOK' /\ TaskOK'
  BY TypesAre, FlashStep, TaskStep DEF Types
<1>1. CASE Commit
  <2>1. Writing
    BY <1>1 DEF Commit, Writing
  <2>2. pc # "delete" /\ UNCHANGED <<pc, req>>
    BY <1>1, <2>1 DEF Types, Phase, Commit
  <2>3. QED
    BY <2>1, <2>2 DEF Types, Phase
<1> USE DEF flash
<1>2. CASE Boot \/ Start \/ Crash
  BY <1>0, <1>2 DEF Types, Phase, Boot, Start, Crash, Writing
<1>3. CASE Application
  BY <1>3 DEF Application, AppCards, AppSwitch, AppRead, AppList, AppServe, Types, Phase, Writing
<1>4. CASE FormPost
  BY <1>4, RequestTyped DEF Types, Phase, Writing, FormPost, Request
<1>5. CASE FormStore
  BY <1>5, FormTyped DEF Types, Phase, Writing, FormStore
<1>6. CASE FormDone \/ Serve
  BY <1>6 DEF Types, Phase, Writing, FormDone, Serve
<1>7. CASE LocalConnect
  <2>1. req'.op = "connect" /\ req' \in Reqs
    BY <1>7, RequestTyped
  <2>2. req'.slot < MaxProfiles => req'.slot \in Slots
    BY <2>1, StoreAssumption DEF Reqs, Slots
  <2>3. pc' = (IF req'.slot < MaxProfiles THEN "activate" ELSE "serve")
        /\ (req'.slot < MaxProfiles \/ queue' = <<>>)
    BY <1>7 DEF LocalConnect
  <2>4. QED
    BY <2>1, <2>2, <2>3 DEF Phase, Writing
<1>8. CASE Save
  BY <1>8, RequestTyped DEF Types, Phase, Writing, Save, Request
<1>9. CASE Select
  BY <1>9, RequestTyped DEF Types, Phase, Writing, Select, Request
<1>10. CASE Delete
  BY <1>10, RequestTyped DEF Types, Phase, Writing, Delete, Request
<1>11. CASE DeleteStart
  BY <1>11 DEF Types, Phase, Writing, DeleteStart
<1>12. CASE Adjust
  <2>1. active \in Slots /\ req \in Reqs /\ MaxProfiles \in Nat
    BY <1>0, StoreAssumption DEF FlashOK, TaskOK
  <2>2. CASE active >= req.slot
    <3>1. (IF active = req.slot THEN 0 ELSE active - 1) \in Slots
      BY <2>1, <2>2 DEF Slots, Reqs
    <3>2. pc' = "adjusted" /\ queue' = <<>> /\ req'.slot \in Slots
      BY <1>12, <2>1, <2>2, <3>1 DEF Adjust, Reqs, Slots
    <3>3. QED
      BY <3>2 DEF Phase, Writing
  <2>3. CASE active < req.slot
    <3>1. pc' \in {"drop", "idle"} /\ queue' = <<>>
      BY <1>12, <2>1, <2>3 DEF Adjust, Reqs, Slots, AfterDelete
    <3>2. QED
      BY <3>1 DEF Phase, Writing
  <2>4. QED
    BY <2>1, <2>2, <2>3 DEF Reqs, Slots
<1>13. CASE AdjustWrite
  BY <1>13 DEF Types, Phase, Writing, AdjustWrite, AfterDelete
<1>14. CASE Drop
  <2>0. ~Writing
    BY <1>14 DEF Types, Phase, Drop
  <2>1. CASE Listed # {}
    <3>1. First(Listed) \in Listed
      BY <2>1, FirstExists DEF Listed, Slots
    <3>2. req'.slot = First(Listed)
      BY <1>14, <2>1 DEF Drop, Working
    <3>3. QED
      BY <1>14, <2>0, <2>1, <3>1, <3>2 DEF Drop, Phase, Writing, Listed
  <2>2. CASE Listed = {}
    BY <1>14, <2>0, <2>2 DEF Drop, Phase, Writing
  <2>3. QED
    BY <2>1, <2>2
<1>15. CASE ClearLocal
  BY <1>15, RequestTyped DEF Types, Phase, Writing, ClearLocal, Request
<1>16. CASE Cleared \/ Activate
  BY <1>16 DEF Types, Phase, Writing, Cleared, Activate
<1>17. CASE UNCHANGED vars
  BY <1>17 DEF Types, Phase, Writing, vars
<1>18. QED
  BY <1>1, <1>2, <1>3, <1>4, <1>5, <1>6, <1>7, <1>8, <1>9, <1>10, <1>11, <1>12, <1>13, <1>14,
     <1>15, <1>16, <1>17 DEF Next, Portal

(* The other three parts of the types. *)
AppOK == /\ app \in [pc : {"off", "idle", "read", "list", "serve"}, idx : Slots, conn : Profiles]
         /\ cards \subseteq Slots
         /\ conn \in Profiles /\ bound \in Values
HistoryOK == /\ requests \in 0..MaxRequests /\ crashes \in 0..MaxCrashes
             /\ torn \in 0..2 /\ follows \in Values /\ others \subseteq Printers
FlagsOK == reboot \in BOOLEAN /\ cut \in BOOLEAN /\ touched \in BOOLEAN

(* The five parts are the whole. *)
LEMMA TypesSplit == TypeOK <=> FlashOK /\ TaskOK /\ AppOK /\ HistoryOK /\ FlagsOK
BY DEF TypeOK, FlashOK, TaskOK, AppOK, HistoryOK, FlagsOK, Steps, Ops, Reqs

(* The application and the clients hold slots and profiles. *)
LEMMA AppStep == ASSUME Types, [Next]_vars PROVE AppOK'
<1>0. /\ AppOK /\ FlashOK /\ TaskOK /\ 0 \in Slots /\ None \in Values
      /\ Empty \in Profiles /\ \A i : ActiveProfile(i) \in Profiles
      /\ \A i \in Slots : slots[i] \in Profiles
  BY TypesSplit, ReadsTyped, StoreAssumption DEF Types, Slots, Values
<1> USE DEF AppOK, clients
<1>1. CASE Commit \/ Boot \/ Start \/ Crash
  BY <1>0, <1>1 DEF Commit, Boot, Start, Crash, AppOff
<1>2. CASE AppCards \/ AppSwitch \/ AppRead \/ AppList
  BY <1>0, <1>2 DEF AppCards, AppSwitch, AppRead, AppList, Listed, FlashOK
<1>3. CASE AppServe
  <2>1. app.conn \in Profiles /\ app.conn.ser \in Values
    BY <1>0 DEF Profiles
  <2>2. QED
    BY <1>0, <1>3, <2>1 DEF AppServe
<1>4. CASE FormPost \/ FormStore \/ FormDone \/ LocalConnect \/ Save \/ Select
  BY <1>0, <1>4 DEF FormPost, FormStore, FormDone, LocalConnect, Save, Select
<1>5. CASE Delete \/ DeleteStart \/ Adjust \/ AdjustWrite \/ ClearLocal \/ Activate
  BY <1>0, <1>5 DEF Delete, DeleteStart, Adjust, AdjustWrite, ClearLocal, Activate
<1>6. CASE Drop \/ Cleared
  BY <1>0, <1>6 DEF Drop, Cleared
<1>7. CASE Serve
  <2>1. req.conn \in Profiles /\ req.conn.ser \in Values
    BY <1>0 DEF TaskOK, Reqs, Profiles
  <2>2. QED
    BY <1>0, <1>7, <2>1 DEF Serve
<1>8. CASE UNCHANGED vars
  BY <1>0, <1>8 DEF vars
<1>9. QED
  BY <1>1, <1>2, <1>3, <1>4, <1>5, <1>6, <1>7, <1>8 DEF Next, Application, Portal

(* The bounds and the history keep their types. *)
LEMMA HistoryStep == ASSUME Types, [Next]_vars PROVE HistoryOK'
<1>0. /\ HistoryOK /\ None \in Values /\ \A i \in Slots : slots[i].ser \in Values
      /\ MaxRequests \in Nat /\ MaxCrashes \in Nat
  BY TypesSplit, ReadsTyped, StoreAssumption DEF Types, Values, Profiles
<1>r. Request => requests' \in 0..MaxRequests
  BY <1>0 DEF HistoryOK, Request
<1> USE DEF HistoryOK, history
<1>1. CASE Commit \/ Boot \/ Start
  BY <1>0, <1>1 DEF Commit, Boot, Start
<1>2. CASE Crash
  <2>1. crashes' \in 0..MaxCrashes
    BY <1>0, <1>2 DEF Crash
  <2>2. QED
    BY <1>0, <1>2, <2>1 DEF Crash
<1>3. CASE Application
  BY <1>0, <1>3 DEF Application, AppCards, AppSwitch, AppRead, AppList, AppServe
<1>4. CASE FormPost \/ LocalConnect \/ Save \/ Select \/ Delete
  BY <1>0, <1>r, <1>4 DEF FormPost, LocalConnect, Save, Select, Delete
<1>5. CASE FormStore \/ FormDone \/ Adjust \/ AdjustWrite \/ Drop
  BY <1>0, <1>5 DEF FormStore, FormDone, Adjust, AdjustWrite, Drop
<1>6. CASE DeleteStart
  BY <1>0, <1>6 DEF DeleteStart, Listed
<1>7. CASE ClearLocal
  BY <1>0, <1>r, <1>7 DEF ClearLocal
<1>8. CASE Cleared \/ Activate \/ Serve
  BY <1>0, <1>8 DEF Cleared, Activate, Serve
<1>9. CASE UNCHANGED vars
  BY <1>0, <1>9 DEF vars
<1>10. QED
  BY <1>1, <1>2, <1>3, <1>4, <1>5, <1>6, <1>7, <1>8, <1>9 DEF Next, Portal

(* The flags stay flags. *)
LEMMA FlagsStep == ASSUME Types, [Next]_vars PROVE FlagsOK'
<1>0. FlagsOK
  BY TypesSplit DEF Types
<1> USE DEF FlagsOK, history
<1>1. CASE Commit \/ Boot \/ Start
  BY <1>0, <1>1, Zenon DEF Commit, Boot, Start
<1>2. CASE Crash
  BY <1>0, <1>2, Zenon DEF Crash
<1>3. CASE Application
  BY <1>0, <1>3, Zenon DEF Application, AppCards, AppSwitch, AppRead, AppList, AppServe
<1>4. CASE FormPost \/ FormDone \/ Select
  BY <1>0, <1>4, Zenon DEF FormPost, FormDone, Select
<1>5. CASE FormStore
  BY <1>0, <1>5, Zenon DEF FormStore
<1>6. CASE LocalConnect \/ Save
  BY <1>0, <1>6, Zenon DEF LocalConnect, Save
<1>7. CASE Delete \/ DeleteStart \/ Adjust \/ AdjustWrite \/ Drop
  BY <1>0, <1>7, Zenon DEF Delete, DeleteStart, Adjust, AdjustWrite, Drop
<1>8. CASE ClearLocal \/ Cleared \/ Activate \/ Serve
  BY <1>0, <1>8, Zenon DEF ClearLocal, Cleared, Activate, Serve
<1>9. CASE UNCHANGED vars
  BY <1>0, <1>9, Zenon DEF vars
<1>10. QED
  BY <1>1, <1>2, <1>3, <1>4, <1>5, <1>6, <1>7, <1>8, <1>9 DEF Next, Portal

(* A store that firmware 1.4 wrote, or one to be migrated, is well typed. *)
LEMMA TypesInit == Init => Types
<1> SUFFICES ASSUME Init PROVE Types
  OBVIOUS
<1>0. 0 \in Slots /\ MaxProfiles \in Nat /\ None \in Values /\ Empty \in Profiles
  BY StoreAssumption DEF Slots, Values, Empty, Profiles
<1>1. FlashOK
  <2>1. \A p \in Printers : WithLocal(p) \in Profiles /\ CloudOnly(p) \in Profiles
    BY DEF WithLocal, CloudOnly, Empty, Profiles, Values
  <2>2. slots \in [Slots -> Profiles]
    BY <1>0, <2>1 DEF Init
  <2>3. count \in 0..MaxProfiles /\ legacy \in 0..3
    BY <1>0, StoreAssumption DEF Init
  <2>4. queue \in Seq(Commits) /\ active \in Slots
    BY EmptySeq DEF Init
  <2>5. QED
    BY <2>2, <2>3, <2>4 DEF FlashOK
<1>2. TaskOK
  <2>1. NoRequest \in Reqs
    BY <1>0 DEF NoRequest, Reqs, Ops
  <2>2. QED
    BY <2>1 DEF Init, TaskOK, Steps
<1>3. AppOK
  BY <1>0 DEF Init, AppOK, AppOff
<1>4. HistoryOK
  BY <1>0, StoreAssumption DEF Init, HistoryOK
<1>5. FlagsOK
  BY Zenon DEF Init, FlagsOK
<1>6. Phase
  BY DEF Init, Phase, Writing
<1>7. QED
  BY <1>1, <1>2, <1>3, <1>4, <1>5, <1>6, TypesSplit DEF Types

(* The types are inductive with the phases of the writing task. *)
LEMMA TypesStep == Types /\ [Next]_vars => Types'
<1> SUFFICES ASSUME Types, [Next]_vars PROVE Types'
  OBVIOUS
<1>1. FlashOK' /\ TaskOK' /\ AppOK' /\ HistoryOK' /\ FlagsOK'
  BY FlashStep, TaskStep, AppStep, HistoryStep, FlagsStep
<1>2. TypeOK'
  BY <1>1 DEF TypeOK, FlashOK, TaskOK, AppOK, HistoryOK, FlagsOK, Steps, Ops, Reqs
<1>3. QED
  BY <1>2, PhaseStep DEF Types

(* Every variable has its type: each commit writes a value its key may hold, and each     *)
(* handler leaves its request and the task in a step that fits.                           *)
THEOREM TypeCorrect == Spec => []TypeOK
<1>1. Types => TypeOK
  BY DEF Types
<1>2. QED
  BY TypesInit, TypesStep, <1>1, PTL DEF Spec

----------------------------------------------------------------------------------
(* The jobs: a save. *)
(* A save in progress (form, connect, save, clear-local): how many of its commits are done, *)
(* which are left, and what the slot holds so far.                                          *)
SaveLen == IF req.slot >= count THEN 4 ELSE 3
Saved == SaveLen - Len(queue)
InSave == Writing /\ pc \in {"idle", "activate", "cleared", "reboot"}
Saving == InSave =>
  /\ req.slot \in Slots /\ req.slot <= count /\ Saved \in 0..3
  /\ \A t \in 1..Len(queue) : queue[t] = SaveKey(req.slot, req.conn, Saved + t)
  /\ Saved >= 1 => slots[req.slot].ser = req.conn.ser
  /\ Saved >= 2 => slots[req.slot].host = req.conn.host
  /\ Saved >= 3 => slots[req.slot].acc = req.conn.acc

(* One commit of a save writes the next key of its slot, or the count, last. *)
LEMMA SaveCommit ==
  ASSUME Types, Saving, InSave, Commit
  PROVE  /\ UNCHANGED <<pc, req, active, legacy>>
         /\ \A i \in Slots \ {req.slot} : slots'[i] = slots[i]
         /\ Saved = 0 => /\ slots'[req.slot].ser = req.conn.ser
                         /\ slots'[req.slot].host = slots[req.slot].host
                         /\ slots'[req.slot].acc = slots[req.slot].acc
         /\ Saved = 1 => /\ slots'[req.slot].ser = slots[req.slot].ser
                         /\ slots'[req.slot].host = req.conn.host
                         /\ slots'[req.slot].acc = slots[req.slot].acc
         /\ Saved = 2 => /\ slots'[req.slot].ser = slots[req.slot].ser
                         /\ slots'[req.slot].host = slots[req.slot].host
                         /\ slots'[req.slot].acc = req.conn.acc
         /\ Saved # 3 => count' = count
         /\ Saved = 3 => slots' = slots /\ req.slot = count /\ count' = count + 1 /\ ~Writing'
         /\ ~Writing' => slots'[req.slot] = req.conn
         /\ Writing' => Saved' = Saved + 1
         /\ Saving'
<1> DEFINE S == req.slot
           P == req.conn
           w == queue[1]
<1>1. /\ S \in Slots /\ S <= count /\ Saved \in 0..3 /\ count \in Nat /\ S \in Nat
      /\ \A t \in 1..Len(queue) : queue[t] = SaveKey(S, P, Saved + t)
  BY StoreAssumption, TypesSplit DEF Saving, Types, FlashOK, Slots
<1>2. /\ Len(queue) \in Nat \ {0} /\ queue' = Tail(queue) /\ Len(queue') = Len(queue) - 1
      /\ \A t \in 1..Len(queue) - 1 : queue'[t] = queue[t + 1]
      /\ queue' = <<>> <=> Len(queue) = 1
  BY Take DEF Commit, InSave, Writing, Types, TypeOK
<1>3. w = SaveKey(S, P, Saved + 1)
  BY <1>1, <1>2
<1>4. UNCHANGED <<pc, req>>
  BY DEF Commit
<1>5. /\ SaveLen \in {3, 4} /\ Len(queue) = SaveLen - Saved
      /\ Saved = 3 => S >= count /\ Len(queue) = 1
      /\ SaveLen = 4 <=> S >= count
  BY <1>1, <1>2 DEF Saved, SaveLen
<1>6. P \in Profiles /\ slots \in [Slots -> Profiles]
  BY TypesSplit DEF Types, TaskOK, FlashOK, Reqs
<1>7. CASE Saved = 3
  <2>1. w = Key("count", S + 1, None)
    BY <1>3, <1>7 DEF SaveKey
  <2>2. w.key = "count" /\ w.slot = S + 1
    BY <2>1 DEF Key
  <2>3. slots' = slots /\ count' = S + 1 /\ UNCHANGED <<active, legacy>>
    BY <2>2, CommitNumber DEF Fields, Types
  <2>4. S = count /\ ~Writing'
    BY <1>1, <1>2, <1>5, <1>7 DEF Writing
  <2>5. slots[S].ser = P.ser /\ slots[S].host = P.host /\ slots[S].acc = P.acc
    BY <1>7 DEF Saving
  <2>6. slots[S] = P
    BY <1>1, <1>6, <2>5, SameProfile
  <2>7. QED
    BY <1>4, <1>7, <2>3, <2>4, <2>6 DEF Saving, InSave
<1>8. CASE Saved # 3
  <2> DEFINE f == FieldNo(Saved)
  <2>1. Saved \in 0..2 /\ Saved + 1 # 4 /\ Saved + 1 - 1 = Saved
    BY <1>1, <1>8
  <2>2. w = Key(f, S, P[f])
    BY <1>3, <2>1 DEF SaveKey
  <2>3. w.key = f /\ w.slot = S /\ w.val = P[f] /\ f \in Fields
    BY <2>1, <2>2, FieldsAre DEF Key
  <2>4. /\ slots' \in [Slots -> Profiles] /\ slots'[S][f] = P[f]
        /\ \A g \in Fields \ {f} : slots'[S][g] = slots[S][g]
        /\ \A i \in Slots \ {S} : slots'[i] = slots[i]
        /\ UNCHANGED <<count, active, legacy>>
    BY <2>3, CommitField DEF Types
  <2> HIDE DEF f
  <2>5. /\ Saved = 0 => /\ slots'[S].ser = P.ser /\ slots'[S].host = slots[S].host
                        /\ slots'[S].acc = slots[S].acc
        /\ Saved = 1 => /\ slots'[S].ser = slots[S].ser /\ slots'[S].host = P.host
                        /\ slots'[S].acc = slots[S].acc
        /\ Saved = 2 => /\ slots'[S].ser = slots[S].ser /\ slots'[S].host = slots[S].host
                        /\ slots'[S].acc = P.acc
    BY <2>4, FieldsAre DEF Fields, f
  <2>6. SaveLen' = SaveLen
    BY <1>4, <2>4 DEF SaveLen
  <2>7. Saved' = Saved + 1
    <3>1. Saved' = SaveLen' - Len(queue') /\ Saved = SaveLen - Len(queue)
      BY DEF Saved
    <3>2. QED
      BY <1>1, <1>2, <1>5, <2>6, <3>1
  <2>8. /\ Saved' >= 1 => slots'[S].ser = P.ser
        /\ Saved' >= 2 => slots'[S].host = P.host
        /\ Saved' >= 3 => slots'[S].acc = P.acc
    BY <1>1, <2>1, <2>5, <2>7 DEF Saving
  <2>9. \A t \in 1..Len(queue') : queue'[t] = SaveKey(S, P, Saved' + t)
    <3> SUFFICES ASSUME NEW t \in 1..Len(queue') PROVE queue'[t] = SaveKey(S, P, Saved' + t)
      OBVIOUS
    <3>1. t + 1 \in 1..Len(queue) /\ t \in 1..Len(queue) - 1
      BY <1>2
    <3>2. Saved + (t + 1) = Saved' + t
      BY <1>1, <2>7, <3>1
    <3>3. QED
      BY <1>1, <1>2, <3>1, <3>2
  <2>10. Writing' => Saved' \in 0..3
    BY <1>1, <1>2, <2>1, <2>7
  <2>11. Saving'
    BY <1>1, <1>4, <2>4, <2>8, <2>9, <2>10 DEF Saving, InSave
  <2>12. ~Writing' => Saved' = 3 \/ Saved' = 4
    BY <1>2, <1>5, <1>1, <2>7 DEF Writing
  <2>13. ~Writing' => slots'[S] = P
    BY <1>1, <1>6, <2>4, <2>8, <2>12, SameProfile
  <2>14. QED
    BY <1>4, <1>8, <2>4, <2>5, <2>7, <2>11, <2>13
<1>9. QED
  BY <1>7, <1>8

(* A save begins with all of its commits before it. *)
LEMMA SaveStarts ==
  ASSUME Types, NEW i \in Slots, NEW p \in Profiles, i <= count,
         queue' = SaveWrites(i, p), UNCHANGED <<count, slots>>,
         req'.slot = i, req'.conn = p
  PROVE  Saving' /\ Saved' = 0 /\ Writing'
<1>1. /\ count \in 0..MaxProfiles /\ count \in Nat /\ i \in Nat
  BY StoreAssumption, TypesSplit DEF Types, FlashOK, Slots
<1>2. /\ Len(queue') = IF i >= count THEN 4 ELSE 3
      /\ \A n \in 1..Len(queue') : queue'[n] = SaveKey(i, p, n)
  BY <1>1, SaveWritesAre
<1>3. SaveLen' = IF i >= count THEN 4 ELSE 3
  BY DEF SaveLen
<1>4. Saved' = 0
  BY <1>2, <1>3 DEF Saved
<1>5. queue' # <<>>
  BY <1>2, EmptySeq
<1>6. \A t \in 1..Len(queue') : queue'[t] = SaveKey(i, p, Saved' + t)
  BY <1>2, <1>4
<1>7. QED
  BY <1>4, <1>5, <1>6 DEF Saving, Writing

(* A handler that saves begins a save of its request; nothing else does. *)
LEMMA Starters ==
  ASSUME Types, ~Writing, LocalConnect \/ Save \/ ClearLocal \/ FormStore, queue' # <<>>
  PROVE  /\ Saving' /\ Saved' = 0 /\ InSave'
         /\ UNCHANGED <<slots, count, active, legacy>>
<1>0. /\ count \in 0..MaxProfiles /\ count \in Nat /\ MaxProfiles \in Nat /\ NoRequest \in Reqs
  BY StoreAssumption, TypesSplit, ReadsTyped DEF Types, FlashOK
<1>1. UNCHANGED <<slots, count, active, legacy>>
  BY DEF LocalConnect, Save, ClearLocal, FormStore, flash
<1>2. pc' \in {"idle", "activate", "cleared", "reboot"}
  BY DEF LocalConnect, Save, ClearLocal, FormStore, Request
<1>3. req' \in Reqs /\ req'.conn \in Profiles
  BY RequestTyped, FormTyped DEF Reqs
<1>4. req'.slot \in Slots
  <2>1. CASE LocalConnect
    <3>1. req'.slot < MaxProfiles
      BY <2>1 DEF LocalConnect
    <3>2. QED
      BY <1>0, <1>3, <3>1 DEF Reqs, Slots
  <2>2. QED
    BY <2>1, RequestTyped, FormTyped
<1>5. req'.slot <= count
  <2>1. CASE LocalConnect
    <3>1. PICK f \in Forms, configures \in BOOLEAN :
            Working("connect", SlotOf(Merged(f).ser), Merged(f), configures)
      BY <2>1 DEF LocalConnect
    <3>2. req'.slot = SlotOf(Merged(f).ser)
      BY <3>1 DEF Working
    <3>3. QED
      BY <1>0, <3>2, SlotOfIs DEF Types
  <2>2. CASE Save
    <3>1. PICK f \in Forms : req'.slot = SlotOf(f.ser)
      BY <2>2 DEF Save, Working
    <3>2. QED
      BY <1>0, <3>1, SlotOfIs DEF Types
  <2>3. CASE ClearLocal
    <3>1. PICK i \in Listed :
            Working("clear", i, [slots[i] EXCEPT !.host = None, !.acc = None], FALSE)
      BY <2>3 DEF ClearLocal
    <3>2. req'.slot = i
      BY <3>1 DEF Working
    <3>3. QED
      BY <1>0, <3>2 DEF Listed, Slots
  <2>4. CASE FormStore
    BY <1>0, <2>4, FormTyped DEF Listed, Slots
  <2>5. QED
    BY <2>1, <2>2, <2>3, <2>4
<1>6. queue' = SaveWrites(req'.slot, req'.conn)
  BY FormTyped DEF LocalConnect, Save, ClearLocal, FormStore
<1>7. QED
  BY <1>1, <1>2, <1>3, <1>4, <1>5, <1>6, SaveStarts DEF InSave

(* A save is followed from its first commit to its last. *)
LEMMA SavingStep == ASSUME Types, Saving, [Next]_vars PROVE Saving'
<1>1. CASE Writing
  <2>1. CASE Commit
    <3>1. CASE InSave
      BY <2>1, <3>1, SaveCommit
    <3>2. CASE ~InSave
      BY <1>1, <2>1, <3>2 DEF Commit, InSave, Saving
    <3>3. QED
      BY <3>1, <3>2
  <2>2. CASE Crash
    BY <2>2 DEF Crash, Saving, InSave, Writing
  <2>3. CASE UNCHANGED <<slots, count, legacy, queue, pc, req>>
    BY <2>3 DEF Saving, InSave, Writing, Saved, SaveLen
  <2>4. QED
    BY <1>1, <2>1, <2>2, <2>3, Busy
<1>2. CASE ~Writing
  <2>1. CASE queue' = <<>>
    BY <2>1 DEF Saving, InSave, Writing
  <2>2. CASE Boot \/ DeleteStart
    BY <2>2 DEF Boot, DeleteStart, Saving, InSave
  <2>3. CASE queue' # <<>> /\ (LocalConnect \/ Save \/ ClearLocal \/ FormStore)
    BY <1>2, <2>3, Starters
  <2>4. QED
    BY <1>2, <2>1, <2>2, <2>3, Waiting
<1>3. QED
  BY <1>1, <1>2

(* A migration in progress: Left counts the commits before the flat keys are emptied. *)
InMigration == Writing /\ pc = "start"
Left == Len(queue) - legacy
Migrating == InMigration =>
  /\ Left \in 0..5
  /\ \A t \in 1..Left : t < Left => queue[t] = SaveKey(0, OldProfile, 5 - Left + t)
  /\ Left > 0 => queue[Left] = Key("active", 0, None)
  /\ \A t \in Left + 1..Len(queue) : queue[t] = Key("legacy", legacy - (t - Left), None)
  /\ Left \in 1..4 => slots[0].ser = OldProfile.ser
  /\ Left \in 1..3 => slots[0].host = OldProfile.host
  /\ Left \in 1..2 => slots[0].acc = OldProfile.acc
  /\ count = IF Left <= 1 THEN 1 ELSE 0

(* One commit of a migration writes the next key of slot 0, the count, the active index, *)
(* or clears a flat key.                                                                *)
LEMMA MigrateCommit ==
  ASSUME Types, Migrating, InMigration, Commit
  PROVE  /\ UNCHANGED <<pc, req>>
         /\ Left \in 3..5 => legacy' = legacy /\ count' = count /\ count = 0
         /\ Left = 2 => /\ slots' = slots /\ legacy' = legacy /\ count' = 1
                        /\ slots[0] = OldProfile
         /\ Left = 1 => slots' = slots /\ legacy' = legacy /\ count' = count /\ slots[0] = OldProfile
         /\ Left = 0 => /\ slots' = slots /\ legacy' = legacy - 1 /\ count' = count
                        /\ Len(queue') = legacy'
         /\ Left > 0 => Left' = Left - 1
         /\ Left > 1 => Writing'
         /\ Left = 0 => Left' = 0
         /\ Migrating'
<1> DEFINE w == queue[1]
<1>0. /\ 0 \in Slots /\ legacy \in 0..3 /\ count \in 0..MaxProfiles /\ OldProfile \in Profiles
      /\ slots \in [Slots -> Profiles] /\ MaxProfiles \in Nat
  BY StoreAssumption, TypesSplit, OldIsProfile DEF Types, FlashOK, Slots
<1>1. /\ Left \in 0..5
      /\ \A t \in 1..Left : t < Left => queue[t] = SaveKey(0, OldProfile, 5 - Left + t)
      /\ Left > 0 => queue[Left] = Key("active", 0, None)
      /\ \A t \in Left + 1..Len(queue) : queue[t] = Key("legacy", legacy - (t - Left), None)
      /\ count = IF Left <= 1 THEN 1 ELSE 0
  BY DEF Migrating
<1>2. /\ Len(queue) \in Nat \ {0} /\ queue' = Tail(queue) /\ Len(queue') = Len(queue) - 1
      /\ \A t \in 1..Len(queue) - 1 : queue'[t] = queue[t + 1]
      /\ queue' = <<>> <=> Len(queue) = 1
  BY Take DEF Commit, InMigration, Writing, Types, TypeOK
<1>3. UNCHANGED <<pc, req>>
  BY DEF Commit
<1>4. Len(queue) = Left + legacy /\ Left' = Len(queue') - legacy'
  <2>1. Left = Len(queue) - legacy /\ Left' = Len(queue') - legacy'
    BY DEF Left
  <2>2. legacy \in Int /\ Len(queue) \in Int
    BY <1>0, <1>2
  <2>3. QED
    BY <2>1, <2>2
<1>5. CASE Left \in 3..5
  <2> DEFINE f == FieldNo(5 - Left)
  <2>1. 5 - Left \in 0..2 /\ 1 \in 1..Left /\ 1 < Left /\ 5 - Left + 1 # 4 /\ 5 - Left + 1 - 1 = 5 - Left
    BY <1>5
  <2>2. w = SaveKey(0, OldProfile, 5 - Left + 1)
    BY <1>1, <2>1
  <2>3. w = Key(f, 0, OldProfile[f])
    BY <2>1, <2>2 DEF SaveKey
  <2>4. w.key = f /\ w.slot = 0 /\ w.val = OldProfile[f] /\ f \in Fields
    BY <2>1, <2>3, FieldsAre DEF Key
  <2>5. /\ slots' \in [Slots -> Profiles] /\ slots'[0][f] = OldProfile[f]
        /\ \A g \in Fields \ {f} : slots'[0][g] = slots[0][g]
        /\ UNCHANGED <<count, active, legacy>>
    BY <2>4, CommitField DEF Types
  <2> HIDE DEF f
  <2>6. Left' = Left - 1 /\ OldProfile' = OldProfile /\ Writing'
    BY <1>0, <1>2, <1>4, <1>5, <2>5 DEF OldProfile, Writing
  <2>7. /\ Left' \in 1..4 => slots'[0].ser = OldProfile'.ser
        /\ Left' \in 1..3 => slots'[0].host = OldProfile'.host
        /\ Left' \in 1..2 => slots'[0].acc = OldProfile'.acc
    <3>1. CASE Left = 5
      BY <2>5, <2>6, <3>1, FieldsAre DEF Fields, f
    <3>2. CASE Left = 4
      BY <2>5, <2>6, <3>2, FieldsAre DEF Fields, f, Migrating
    <3>3. CASE Left = 3
      BY <2>5, <2>6, <3>3, FieldsAre DEF Fields, f, Migrating
    <3>4. QED
      BY <1>5, <3>1, <3>2, <3>3
  <2>8. \A t \in 1..Left' : t < Left' => queue'[t] = SaveKey(0, OldProfile', 5 - Left' + t)
    <3> SUFFICES ASSUME NEW t \in 1..Left', t < Left'
                 PROVE  queue'[t] = SaveKey(0, OldProfile', 5 - Left' + t)
      OBVIOUS
    <3>1. t + 1 \in 1..Left /\ t + 1 < Left /\ t \in 1..Len(queue) - 1
          /\ 5 - Left + (t + 1) = 5 - Left' + t
      BY <1>0, <1>4, <1>5, <2>6
    <3>2. QED
      BY <1>1, <1>2, <2>6, <3>1
  <2>9. queue'[Left'] = Key("active", 0, None)
    BY <1>0, <1>1, <1>2, <1>4, <1>5, <2>6
  <2>10. \A t \in Left' + 1..Len(queue') : queue'[t] = Key("legacy", legacy' - (t - Left'), None)
    <3> SUFFICES ASSUME NEW t \in Left' + 1..Len(queue')
                 PROVE  queue'[t] = Key("legacy", legacy' - (t - Left'), None)
      OBVIOUS
    <3>1. t + 1 \in Left + 1..Len(queue) /\ t \in 1..Len(queue) - 1 /\ t + 1 - Left = t - Left'
      BY <1>0, <1>2, <1>4, <1>5, <2>6
    <3>2. QED
      BY <1>1, <1>2, <2>5, <3>1
  <2>11. count' = 0 /\ count = 0
    BY <1>1, <1>5, <2>5
  <2>12. Left' \in 2..4
    BY <1>5, <2>6
  <2>13. Migrating'
    <3>1. count' = IF Left' <= 1 THEN 1 ELSE 0
      BY <2>11, <2>12
    <3>2. Left' \in 0..5
      BY <2>12
    <3>3. QED
      BY <2>7, <2>8, <2>9, <2>10, <3>1, <3>2, Zenon DEF Migrating
  <2>14. QED
    BY <1>3, <1>5, <2>5, <2>6, <2>11, <2>13
<1>6. CASE Left = 2
  <2>1. w = Key("count", 1, None)
    BY <1>1, <1>6 DEF SaveKey
  <2>2. slots' = slots /\ count' = 1 /\ UNCHANGED <<active, legacy>>
    BY <2>1, CommitNumber DEF Fields, Types, Key
  <2>3. slots[0] = OldProfile
    BY <1>0, <1>6, SameProfile DEF Migrating
  <2>4. Left' = 1 /\ OldProfile' = OldProfile /\ Writing'
    BY <1>0, <1>2, <1>4, <1>6, <2>2 DEF OldProfile, Writing
  <2>5. queue'[1] = Key("active", 0, None)
    BY <1>0, <1>1, <1>2, <1>4, <1>6
  <2>6. \A t \in 2..Len(queue') : queue'[t] = Key("legacy", legacy' - (t - 1), None)
    <3> SUFFICES ASSUME NEW t \in 2..Len(queue')
                 PROVE  queue'[t] = Key("legacy", legacy' - (t - 1), None)
      OBVIOUS
    <3>1. t + 1 \in 3..Len(queue) /\ t \in 1..Len(queue) - 1 /\ t + 1 - 2 = t - 1
      BY <1>0, <1>2, <1>4, <1>6
    <3>2. QED
      BY <1>1, <1>2, <1>6, <2>2, <3>1
  <2>7. Migrating'
    BY <2>2, <2>3, <2>4, <2>5, <2>6 DEF Migrating
  <2>8. QED
    BY <1>3, <1>6, <2>2, <2>3, <2>4, <2>7
<1>7. CASE Left = 1
  <2>1. w = Key("active", 0, None)
    BY <1>1, <1>7
  <2>2. slots' = slots /\ UNCHANGED <<count, legacy>>
    BY <2>1, CommitNumber DEF Fields, Types, Key
  <2>3. slots[0] = OldProfile
    BY <1>0, <1>7, SameProfile DEF Migrating
  <2>4. Left' = 0
    BY <1>0, <1>2, <1>4, <1>7, <2>2
  <2>5. \A t \in 1..Len(queue') : queue'[t] = Key("legacy", legacy' - t, None)
    <3> SUFFICES ASSUME NEW t \in 1..Len(queue')
                 PROVE  queue'[t] = Key("legacy", legacy' - t, None)
      OBVIOUS
    <3>1. t + 1 \in 2..Len(queue) /\ t \in 1..Len(queue) - 1 /\ t + 1 - 1 = t
      BY <1>0, <1>2, <1>4, <1>7
    <3>2. QED
      BY <1>1, <1>2, <1>7, <2>2, <3>1
  <2>6. Migrating'
    BY <1>1, <1>7, <2>2, <2>4, <2>5 DEF Migrating
  <2>7. QED
    BY <1>3, <1>7, <2>2, <2>3, <2>4, <2>6
<1>8. CASE Left = 0
  <2>1. w = Key("legacy", legacy - 1, None) /\ Len(queue) = legacy
    BY <1>0, <1>1, <1>2, <1>4, <1>8
  <2>2. slots' = slots /\ UNCHANGED <<count, active>> /\ legacy' = legacy - 1
    BY <2>1, CommitNumber DEF Fields, Types, Key
  <2>3. Left' = 0 /\ Len(queue') = legacy'
    BY <1>0, <1>2, <1>4, <1>8, <2>1, <2>2
  <2>4. \A t \in 1..Len(queue') : queue'[t] = Key("legacy", legacy' - t, None)
    <3> SUFFICES ASSUME NEW t \in 1..Len(queue')
                 PROVE  queue'[t] = Key("legacy", legacy' - t, None)
      OBVIOUS
    <3>1. t + 1 \in 1..Len(queue) /\ t \in 1..Len(queue) - 1 /\ legacy - (t + 1) = legacy' - t
      BY <1>0, <1>2, <2>1, <2>2
    <3>2. QED
      BY <1>1, <1>2, <1>8, <3>1
  <2>5. Migrating'
    BY <1>1, <1>8, <2>2, <2>3, <2>4 DEF Migrating
  <2>6. QED
    BY <1>3, <1>8, <2>2, <2>3, <2>5
<1>9. QED
  BY <1>1, <1>5, <1>6, <1>7, <1>8

----------------------------------------------------------------------------------
(* The jobs: a delete. *)
(* A migration is followed from its first commit to its last. *)
LEMMA MigratingStep == ASSUME Types, Migrating, [Next]_vars PROVE Migrating'
<1>1. CASE Writing
  <2>1. CASE Commit
    <3>1. CASE InMigration
      BY <2>1, <3>1, MigrateCommit
    <3>2. CASE ~InMigration
      BY <1>1, <2>1, <3>2 DEF Commit, InMigration, Migrating
    <3>3. QED
      BY <3>1, <3>2
  <2>2. CASE Crash
    BY <2>2 DEF Crash, Migrating, InMigration, Writing
  <2>3. CASE UNCHANGED <<slots, count, legacy, queue, pc, req>>
    BY <2>3 DEF Migrating, InMigration, Writing, Left, OldProfile
  <2>4. QED
    BY <1>1, <2>1, <2>2, <2>3, Busy
<1>2. CASE ~Writing
  <2>1. CASE queue' = <<>>
    BY <2>1 DEF Migrating, InMigration, Writing
  <2>2. CASE LocalConnect \/ Save \/ ClearLocal \/ FormStore \/ DeleteStart
    BY <2>2 DEF LocalConnect, Save, ClearLocal, FormStore, DeleteStart, Request,
                Migrating, InMigration
  <2>3. CASE Boot /\ queue' # <<>>
    <3>1. /\ count = 0 /\ legacy \in 1..3 /\ queue' = MigrateWrites
          /\ UNCHANGED <<slots, count, legacy>>
      BY <2>3, TypesSplit DEF Boot, flash, Types, FlashOK
    <3>2. /\ Len(queue') = 5 + legacy
          /\ \A t \in 1..4 : queue'[t] = SaveKey(0, OldProfile, t)
          /\ queue'[5] = Key("active", 0, None)
          /\ \A t \in 6..5 + legacy : queue'[t] = Key("legacy", legacy - (t - 5), None)
      BY <3>1, MigrateWritesAre DEF Types
    <3>3. Left' = 5 /\ OldProfile' = OldProfile
      BY <3>1, <3>2 DEF Left, OldProfile
    <3>4. \A t \in 1..Left' : t < Left' => queue'[t] = SaveKey(0, OldProfile', 5 - Left' + t)
      <4> SUFFICES ASSUME NEW t \in 1..4 PROVE queue'[t] = SaveKey(0, OldProfile', 5 - Left' + t)
        BY <3>3
      <4>1. 5 - Left' + t = t
        BY <3>3
      <4>2. QED
        BY <3>2, <3>3, <4>1
    <3>5. \A t \in Left' + 1..Len(queue') : queue'[t] = Key("legacy", legacy' - (t - Left'), None)
      BY <3>1, <3>2, <3>3
    <3>6. QED
      BY <3>1, <3>2, <3>3, <3>4, <3>5 DEF Migrating
  <2>4. QED
    BY <1>2, <2>1, <2>2, <2>3, Waiting
<1>3. QED
  BY <1>1, <1>2

(* A delete in progress: the commits done, and the slot being overwritten, the hole, which *)
(* travels from the deleted slot to the last one.                                          *)
InDelete == Writing /\ pc = "adjust"
Total == 3 * (count - req.slot)
Done == Total + 1 - Len(queue)
Hole == IF Done = Total THEN count - 1 ELSE req.slot + (Done \div 3)
Deleting == InDelete =>
  /\ req.slot < count /\ Done \in 0..Total
  /\ \A t \in 1..Len(queue) : queue[t] = ShiftKey(slots, count, req.slot, Done + t)
  /\ Hole < count - 1 /\ Done % 3 >= 1 => slots[Hole].ser = slots[Hole + 1].ser
  /\ Hole < count - 1 /\ Done % 3 >= 2 => slots[Hole].host = slots[Hole + 1].host

(* The next key is of the same slot, or the first one of the next slot. *)
LEMMA NextThird ==
  \A n \in Nat :
    /\ n % 3 < 2 => (n + 1) \div 3 = n \div 3 /\ (n + 1) % 3 = (n % 3) + 1
    /\ n % 3 = 2 => (n + 1) \div 3 = (n \div 3) + 1 /\ (n + 1) % 3 = 0
BY SMT

(* Where the delete stands. *)
LEMMA HoleIs ==
  ASSUME Types, Deleting, InDelete
  PROVE  /\ req.slot \in Nat /\ count \in Nat /\ Total \in Nat /\ Done \in Nat
         /\ Hole \in Slots /\ Hole \in Nat /\ req.slot <= Hole /\ Hole < count
         /\ Done # Total => /\ Hole = req.slot + (Done \div 3)
                            /\ Done = 3 * (Hole - req.slot) + (Done % 3) /\ Done % 3 \in 0..2
<1>1. /\ req.slot \in Nat /\ count \in 0..MaxProfiles /\ count \in Nat /\ req.slot < count
      /\ MaxProfiles \in Nat
  BY StoreAssumption, TypesSplit DEF Types, FlashOK, TaskOK, Reqs, Deleting
<1>2. Total \in Nat /\ Total = 3 * (count - req.slot)
  BY <1>1 DEF Total
<1>3. Done \in Nat /\ Done <= Total
  BY <1>2 DEF Deleting
<1>4. Done % 3 \in 0..2 /\ Done \div 3 \in Nat /\ Done = 3 * (Done \div 3) + (Done % 3)
  BY <1>3, Thirds
<1>5. CASE Done = Total
  <2>1. Hole = count - 1
    BY <1>5 DEF Hole
  <2>2. QED
    BY <1>1, <1>2, <1>3, <1>5, <2>1 DEF Slots
<1>6. CASE Done # Total
  <2>1. Hole = req.slot + (Done \div 3)
    BY <1>6 DEF Hole
  <2>2. Hole \in Nat /\ req.slot <= Hole /\ Hole < count
    BY <1>1, <1>2, <1>3, <1>4, <1>6, <2>1
  <2>3. QED
    BY <1>1, <1>2, <1>3, <1>4, <2>1, <2>2 DEF Slots
<1>7. QED
  BY <1>5, <1>6

(* One commit of a delete: the next key of the hole, until the slot above has been     *)
(* copied into it and the hole moves up; or the count, last.                           *)
LEMMA DeleteCommit ==
  ASSUME Types, Deleting, InDelete, Commit
  PROVE  /\ UNCHANGED <<pc, req, active, legacy>>
         /\ Done = Total => slots' = slots /\ Hole = count - 1 /\ count' = count - 1 /\ ~Writing'
         /\ Done # Total => /\ InDelete' /\ count' = count
                            /\ \A i \in Slots \ {Hole} : slots'[i] = slots[i]
                            /\ \/ /\ Hole' = Hole
                                  /\ \/ Hole = count - 1
                                     \/ slots'[Hole].ser \in {slots[Hole].ser, slots[Hole + 1].ser}
                               \/ /\ Hole' = Hole + 1 /\ Hole < count - 1
                                  /\ slots'[Hole] = slots[Hole + 1]
         /\ Deleting'
<1> DEFINE w == queue[1]
           S == req.slot
<1>1. /\ S \in Nat /\ count \in Nat /\ Total \in Nat /\ Done \in Nat /\ S < count
      /\ Hole \in Slots /\ Hole \in Nat /\ S <= Hole /\ Hole < count
      /\ Done # Total => /\ Hole = S + (Done \div 3)
                         /\ Done = 3 * (Hole - S) + (Done % 3) /\ Done % 3 \in 0..2
      /\ Done <= Total /\ Total = 3 * (count - S)
      /\ count \in 0..MaxProfiles /\ MaxProfiles \in Nat
  <2>1. count \in 0..MaxProfiles /\ MaxProfiles \in Nat
    BY TypesSplit, StoreAssumption DEF Types, FlashOK
  <2>2. S < count /\ Done \in 0..Total
    BY DEF Deleting
  <2>3. Total = 3 * (count - S)
    BY DEF Total
  <2>4. QED
    BY <2>1, <2>2, <2>3, HoleIs
<1>2. /\ Len(queue) \in Nat \ {0} /\ queue' = Tail(queue) /\ Len(queue') = Len(queue) - 1
      /\ \A t \in 1..Len(queue) - 1 : queue'[t] = queue[t + 1]
      /\ queue' = <<>> <=> Len(queue) = 1
  BY Take DEF Commit, InDelete, Writing, Types, TypeOK
<1>3. UNCHANGED <<pc, req>>
  BY DEF Commit
<1>4. Len(queue) = Total + 1 - Done
  <2>1. Done = Total + 1 - Len(queue)
    BY DEF Done
  <2>2. Total \in Int /\ Len(queue) \in Int
    BY <1>1, <1>2
  <2>3. QED
    BY <2>1, <2>2
<1>n. Total \in Int /\ Done \in Int /\ Len(queue) \in Int /\ Len(queue') = Len(queue) - 1
  BY <1>1, <1>2
<1>5. w = ShiftKey(slots, count, S, Done + 1)
  BY <1>2 DEF Deleting
<1>6. CASE Done = Total
  <2>1. w = Key("count", count - 1, None)
    BY <1>1, <1>5, <1>6 DEF ShiftKey
  <2>2. slots' = slots /\ count' = count - 1 /\ UNCHANGED <<active, legacy>>
    BY <2>1, CommitNumber DEF Fields, Types, Key
  <2>3. Hole = count - 1
    BY <1>6 DEF Hole
  <2>4. ~Writing'
    <3>1. Len(queue) = 1
      BY <1>n, <1>4, <1>6
    <3>2. QED
      BY <1>2, <3>1 DEF Writing
  <2>5. QED
    BY <1>3, <1>6, <2>2, <2>3, <2>4 DEF Deleting, InDelete
<1>7. CASE Done # Total
  <2> DEFINE k == Done % 3
             f == FieldNo(k)
             v == IF Hole = count - 1 THEN None ELSE slots[Hole + 1][f]
  <2>1. w = Key(f, Hole, v)
    <3>1. Done + 1 # 3 * (count - S) + 1 /\ Done + 1 - 1 = Done
      BY <1>1, <1>7
    <3>2. Hole = S + (Done \div 3)
      BY <1>1, <1>7
    <3>3. QED
      <4> DEFINE n == Done + 1
      <4>1. n # 3 * (count - S) + 1 /\ n - 1 = Done
        BY <1>n, <3>1
      <4> HIDE DEF n
      <4>2. w = Key(FieldNo((n - 1) % 3), S + ((n - 1) \div 3),
                    IF S + ((n - 1) \div 3) = count - 1 THEN None
                    ELSE slots[S + ((n - 1) \div 3) + 1][FieldNo((n - 1) % 3)])
        BY <1>5, <4>1 DEF ShiftKey, n
      <4>3. QED
        BY <3>2, <4>1, <4>2
  <2>2. k \in 0..2 /\ f \in Fields
    BY <1>1, <1>7, FieldsAre
  <2>3. w.key = f /\ w.slot = Hole /\ w.val = v
    BY <2>1 DEF Key
  <2> HIDE DEF v
  <2>4. /\ slots' \in [Slots -> Profiles] /\ slots'[Hole][f] = v
        /\ \A g \in Fields \ {f} : slots'[Hole][g] = slots[Hole][g]
        /\ \A i \in Slots \ {Hole} : slots'[i] = slots[i]
        /\ UNCHANGED <<count, active, legacy>>
    BY <2>2, <2>3, CommitField DEF Types
  <2>5. Total' = Total
    BY <1>3, <2>4 DEF Total
  <2>6. Done' = Done + 1 /\ Done + 1 <= Total
    <3>1. Done' = Total' + 1 - Len(queue')
      BY DEF Done
    <3>2. Done' = Done + 1
      BY <1>n, <1>4, <2>5, <3>1
    <3>3. Done <= Total
      BY <1>1
    <3>4. QED
      BY <1>n, <1>7, <3>2, <3>3
  <2>7. Writing'
    <3>1. Len(queue) # 1
      BY <1>n, <1>4, <1>7
    <3>2. QED
      BY <1>2, <3>1 DEF Writing
  <2>8. Hole' = IF Done + 1 = Total THEN count - 1 ELSE S + ((Done + 1) \div 3)
    BY <1>3, <2>4, <2>5, <2>6 DEF Hole
  <2>9. k = 2 /\ Hole < count - 1 => Hole' = Hole + 1 /\ Done' % 3 = 0
    BY <1>1, <1>7, <2>6, <2>8, NextThird
  <2>10. k = 2 /\ Hole = count - 1 => Hole' = Hole
    BY <1>1, <1>7, <2>6, <2>8, NextThird
  <2>11. k < 2 => Hole' = Hole /\ Done' % 3 = k + 1
    BY <1>1, <1>7, <2>6, <2>8, NextThird
  <2>12. Hole < count - 1 => Hole + 1 \in Slots /\ slots'[Hole + 1] = slots[Hole + 1]
                             /\ v = slots[Hole + 1][f]
    BY <1>1, <2>4 DEF Slots, v
  <2>13. /\ Hole < count - 1 /\ k >= 1 => slots[Hole].ser = slots[Hole + 1].ser
         /\ Hole < count - 1 /\ k >= 2 => slots[Hole].host = slots[Hole + 1].host
    BY DEF Deleting
  <2>14. Hole < count - 1 => /\ slots'[Hole].ser = slots[Hole + 1].ser
                             /\ k >= 1 => slots'[Hole].host = slots[Hole + 1].host
                             /\ k >= 2 => slots'[Hole].acc = slots[Hole + 1].acc
    <3> SUFFICES ASSUME Hole < count - 1
                 PROVE  /\ slots'[Hole].ser = slots[Hole + 1].ser
                        /\ k >= 1 => slots'[Hole].host = slots[Hole + 1].host
                        /\ k >= 2 => slots'[Hole].acc = slots[Hole + 1].acc
      OBVIOUS
    <3>1. CASE k = 0
      BY <2>4, <2>12, <3>1, FieldsAre DEF Fields
    <3>2. CASE k = 1
      BY <2>4, <2>12, <2>13, <3>2, FieldsAre DEF Fields
    <3>3. CASE k = 2
      BY <2>4, <2>12, <2>13, <3>3, FieldsAre DEF Fields
    <3>4. QED
      BY <2>2, <3>1, <3>2, <3>3
  <2>15. ASSUME Hole < count - 1, k = 2 PROVE slots'[Hole] = slots[Hole + 1]
    <3>1. slots'[Hole] \in Profiles /\ slots[Hole + 1] \in Profiles
      BY <1>1, <2>4, <2>12, <2>15
    <3>2. QED
      BY <2>14, <2>15, <3>1, SameProfile
  <2>16. \A t \in 1..Len(queue') : queue'[t] = ShiftKey(slots', count', S, Done' + t)
    <3> SUFFICES ASSUME NEW t \in 1..Len(queue')
                 PROVE  queue'[t] = ShiftKey(slots', count', S, Done' + t)
      OBVIOUS
    <3> DEFINE n == Done + (t + 1)
               s == S + ((n - 1) \div 3)
    <3>1. t \in 1..Len(queue) - 1 /\ t + 1 \in 1..Len(queue) /\ n = Done' + t /\ n \in Nat
          /\ n - 1 \in Nat /\ n - 1 > Done /\ n <= Total + 1
      <4>1. t \in 1..Len(queue) - 1 /\ Done \in Nat
        BY <1>1, <1>2
      <4>2. QED
        BY <1>n, <1>4, <2>6, <4>1
    <3>2. queue'[t] = ShiftKey(slots, count, S, n)
      BY <1>2, <3>1 DEF Deleting
    <3>3. CASE n = Total + 1
      BY <1>1, <1>3, <2>4, <3>1, <3>2, <3>3 DEF ShiftKey
    <3>4. CASE n # Total + 1
      <4>1. s \in Nat /\ s >= Hole /\ s < count
        <5>1. n - 1 < Total
          BY <1>n, <3>1, <3>4
        <5> DEFINE m == n - 1
                   q == m \div 3
        <5>2. m \in Nat /\ m > Done /\ m < 3 * (count - S)
          BY <1>1, <3>1, <5>1
        <5>s. s = S + q
          OBVIOUS
        <5> HIDE DEF m, n, s
        <5>3. m % 3 \in 0..2 /\ q \in Nat /\ m = 3 * q + (m % 3)
          BY <5>2, Thirds
        <5> HIDE DEF q
        <5> DEFINE h == Hole - S
                   c == count - S
                   r == m % 3
                   e == Done % 3
                   d == Done
        <5>i. S \in Int /\ count \in Int /\ Hole \in Int /\ Done \in Int /\ S >= 0
          BY <1>1
        <5>e. e \in 0..2
          BY <1>1, <1>7
        <5>4. /\ h \in Int /\ c \in Int /\ r \in 0..2 /\ q \in Int /\ m \in Int /\ d \in Int
              /\ e \in 0..2
          BY <5>i, <5>e, <5>2, <5>3
        <5>5. d = 3 * h + e /\ m > d
          BY <1>1, <1>7, <5>2
        <5>6. m < 3 * c /\ m = 3 * q + r
          BY <5>2, <5>3
        <5> HIDE DEF h, c, r, d, e
        <5>7. q < c /\ q >= h
          BY <5>4, <5>5, <5>6
        <5>8. q < count - S /\ q >= Hole - S
          BY <5>7 DEF c, h
        <5>9. QED
          BY <5>i, <5>3, <5>8, <5>s
      <4>2. s # count - 1 => slots'[s + 1] = slots[s + 1]
        <5> HIDE DEF s
        <5>1. QED
          BY <1>1, <2>4, <4>1 DEF Slots
      <4>3. n # 3 * (count - S) + 1
        BY <1>1, <3>4
      <4> HIDE DEF n
      <4>4. ShiftKey(slots', count', S, n) = ShiftKey(slots, count, S, n)
        BY <1>3, <2>4, <4>2, <4>3 DEF ShiftKey
      <4>5. QED
        BY <1>3, <3>1, <3>2, <4>4
    <3>5. QED
      BY <3>3, <3>4
  <2>17. Deleting'
    <3>1. /\ Hole' < count' - 1 /\ Done' % 3 >= 1 => slots'[Hole'].ser = slots'[Hole' + 1].ser
          /\ Hole' < count' - 1 /\ Done' % 3 >= 2 => slots'[Hole'].host = slots'[Hole' + 1].host
      <4>1. CASE k = 2
        <5>1. CASE Hole < count - 1
          BY <2>9, <4>1, <5>1
        <5>2. CASE Hole = count - 1
          BY <1>1, <2>4, <2>10, <4>1, <5>2
        <5>3. QED
          BY <1>1, <5>1, <5>2
      <4>2. CASE k < 2
        BY <2>2, <2>4, <2>11, <2>12, <2>14, <4>2
      <4>3. QED
        BY <2>2, <4>1, <4>2
    <3>2. req'.slot < count' /\ Done' \in 0..Total'
      BY <1>1, <1>3, <2>4, <2>5, <2>6
    <3>3. \A t \in 1..Len(queue') :
            queue'[t] = ShiftKey(slots', count', req'.slot, Done' + t)
      BY <1>3, <2>16
    <3>4. QED
      BY <3>1, <3>2, <3>3 DEF Deleting
  <2>18. InDelete'
    BY <1>3, <2>7 DEF InDelete
  <2>19. \/ /\ Hole' = Hole
            /\ \/ Hole = count - 1
               \/ slots'[Hole].ser \in {slots[Hole].ser, slots[Hole + 1].ser}
         \/ Hole' = Hole + 1 /\ Hole < count - 1 /\ slots'[Hole] = slots[Hole + 1]
    BY <1>1, <2>2, <2>9, <2>10, <2>11, <2>14, <2>15
  <2>20. QED
    BY <1>3, <1>7, <2>4, <2>17, <2>18, <2>19
<1>8. QED
  BY <1>6, <1>7

(* A delete begins with the hole at the deleted slot. *)
LEMMA DeleteStarts ==
  ASSUME Types, DeleteStart
  PROVE  /\ UNCHANGED <<slots, count, active, legacy, req>> /\ ~Writing
         /\ InDelete' /\ Deleting' /\ Hole' = req.slot /\ req.slot \in Slots
         /\ req.slot < count /\ req.conn = slots[req.slot]
<1>1. /\ pc = "delete" /\ pc' = "adjust" /\ queue' = DeleteWrites(req.slot)
      /\ UNCHANGED <<slots, count, active, legacy, req>>
  BY DEF DeleteStart, flash
<1>2. ~Writing /\ req.slot < count /\ req.conn = slots[req.slot]
  BY <1>1 DEF Types, Phase
<1>3. count \in 0..MaxProfiles /\ req.slot \in Nat /\ MaxProfiles \in Nat
  BY TypesSplit, StoreAssumption DEF Types, FlashOK, TaskOK, Reqs
<1>4. req.slot \in 0..count - 1 /\ req.slot \in Slots
  BY <1>2, <1>3 DEF Slots
<1> DEFINE N == 3 * (count - req.slot)
<1>5. /\ Len(queue') = N + 1
      /\ \A n \in 1..N + 1 : queue'[n] = ShiftKey(slots, count, req.slot, n)
  BY <1>1, <1>4, DeleteWritesAre DEF Types
<1>6. Total' = N /\ N \in Nat /\ N # 0
  BY <1>1, <1>2, <1>3 DEF Total
<1> HIDE DEF N
<1>7. Done' = 0
  <2>1. Done' = Total' + 1 - Len(queue')
    BY DEF Done
  <2>2. QED
    BY <1>5, <1>6, <2>1
<1>8. Hole' = req.slot
  <2>1. 0 \div 3 = 0
    BY SMT
  <2>2. Hole' = req'.slot + (Done' \div 3)
    BY <1>6, <1>7 DEF Hole
  <2>3. QED
    BY <1>1, <1>3, <1>7, <2>1, <2>2
<1>9. queue' # <<>>
  BY <1>5, <1>6, EmptySeq
<1>10. \A t \in 1..Len(queue') : queue'[t] = ShiftKey(slots', count', req'.slot, Done' + t)
  <2>1. ASSUME NEW t \in 1..Len(queue') PROVE Done' + t = t
    BY <1>5, <1>6, <1>7
  <2>2. QED
    BY <1>1, <1>5, <2>1
<1>11. ~(Done' % 3 >= 1) /\ ~(Done' % 3 >= 2)
  <2>1. 0 % 3 = 0
    BY SMT
  <2>2. QED
    BY <1>7, <2>1
<1>12. req'.slot < count' /\ Done' \in 0..Total'
  BY <1>1, <1>2, <1>6, <1>7
<1>13. Deleting'
  BY <1>10, <1>11, <1>12, Zenon DEF Deleting
<1>14. QED
  BY <1>1, <1>2, <1>4, <1>8, <1>9, <1>13 DEF InDelete, Writing

(* A delete is followed from its first commit to its last. *)
LEMMA DeletingStep == ASSUME Types, Deleting, [Next]_vars PROVE Deleting'
<1>1. CASE Writing
  <2>1. CASE Commit
    <3>1. CASE InDelete
      BY <2>1, <3>1, DeleteCommit
    <3>2. CASE ~InDelete
      BY <1>1, <2>1, <3>2 DEF Commit, InDelete, Deleting
    <3>3. QED
      BY <3>1, <3>2
  <2>2. CASE Crash
    BY <2>2 DEF Crash, Deleting, InDelete, Writing
  <2>3. CASE UNCHANGED <<slots, count, legacy, queue, pc, req>>
    BY <2>3 DEF Deleting, InDelete, Writing, Done, Total, Hole
  <2>4. QED
    BY <1>1, <2>1, <2>2, <2>3, Busy
<1>2. CASE ~Writing
  <2>1. CASE queue' = <<>>
    BY <2>1 DEF Deleting, InDelete, Writing
  <2>2. CASE Boot \/ LocalConnect \/ Save \/ ClearLocal \/ FormStore
    BY <2>2 DEF Boot, LocalConnect, Save, ClearLocal, FormStore, Request, Deleting, InDelete
  <2>3. CASE DeleteStart
    BY <2>3, DeleteStarts
  <2>4. QED
    BY <1>2, <2>1, <2>2, <2>3, Waiting
<1>3. QED
  BY <1>1, <1>2

(* The common ground of the invariants below: what each job has done and has left to do. *)
Jobs == Types /\ Saving /\ Migrating /\ Deleting

(* No job is in progress at power-on. *)
LEMMA JobsInit == Init => Jobs
<1>1. Init => ~Writing
  BY DEF Init, Writing
<1>2. QED
  BY <1>1, TypesInit DEF Jobs, Saving, InSave, Migrating, InMigration, Deleting, InDelete

(* The jobs are followed by every step. *)
LEMMA JobsStep == Jobs /\ [Next]_vars => Jobs'
BY TypesStep, SavingStep, MigratingStep, DeletingStep DEF Jobs

-----------------------------------------------------------------------------
(* Every other printer is whole in a slot that is not the hole. *)
OthersKept == pc = "adjust" => \A p \in others : \E j \in Slots :
                 j < count /\ slots[j] = WithLocal(p) /\ (Writing => j # Hole)

(* The steps that end between the start of a delete and the adjustment of the index. *)
LEMMA Adjusting ==
  ASSUME Types, [Next]_vars, pc' = "adjust"
  PROVE  \/ DeleteStart
         \/ InDelete /\ Commit /\ UNCHANGED <<others, follows>>
         \/ pc = "adjust" /\ UNCHANGED <<slots, count, queue, req, others>>
<1>1. CASE Commit
  BY <1>1 DEF Commit, history, InDelete, Writing
<1> USE DEF history, flash
<1>2. CASE Boot \/ Start \/ Crash
  BY <1>2 DEF Boot, Start, Crash
<1>3. CASE Application
  BY <1>3 DEF Application, AppCards, AppSwitch, AppRead, AppList, AppServe
<1>4. CASE FormPost \/ FormStore \/ FormDone \/ LocalConnect \/ Save \/ Select
  BY <1>4 DEF FormPost, FormStore, FormDone, LocalConnect, Save, Select, Request
<1>5. CASE Delete \/ Adjust \/ AdjustWrite \/ Drop
  BY <1>5 DEF Delete, Adjust, AdjustWrite, Drop, AfterDelete
<1>6. CASE ClearLocal \/ Cleared \/ Activate \/ Serve
  BY <1>6 DEF ClearLocal, Cleared, Activate, Serve
<1>7. CASE UNCHANGED vars
  BY <1>7 DEF vars
<1>8. QED
  BY <1>1, <1>2, <1>3, <1>4, <1>5, <1>6, <1>7 DEF Next, Portal

(* The hole moves up only when the slot it leaves is a full copy of the one it moves to. *)
LEMMA OthersStep == ASSUME Jobs, OthersKept, [Next]_vars PROVE OthersKept'
<1> SUFFICES ASSUME pc' = "adjust", NEW p \in others'
             PROVE  \E j \in Slots : j < count' /\ slots'[j] = WithLocal(p)
                                     /\ (Writing' => j # Hole')
  BY DEF OthersKept
<1> USE DEF Jobs
<1>1. CASE DeleteStart
  <2>1. p # req.conn.ser /\ Kept(p)
    BY <1>1 DEF DeleteStart
  <2>2. PICK j \in Listed : slots[j] = WithLocal(p)
    BY <2>1 DEF Kept
  <2>3. j # req.slot
    BY <1>1, <2>1, <2>2, DeleteStarts DEF WithLocal
  <2>4. QED
    BY <1>1, <2>2, <2>3, DeleteStarts DEF Listed
<1>2. CASE InDelete /\ Commit /\ UNCHANGED <<others, follows>>
  <2>1. PICK j \in Slots : j < count /\ slots[j] = WithLocal(p) /\ j # Hole
    BY <1>2 DEF OthersKept, InDelete
  <2>2. /\ count \in Nat /\ Hole \in Slots /\ Hole \in Nat /\ Hole < count /\ j \in Nat
    BY <1>2, HoleIs DEF Slots
  <2>3. CASE Done = Total
    BY <1>2, <2>1, <2>2, <2>3, DeleteCommit
  <2>4. CASE Done # Total /\ Hole' = Hole
    BY <1>2, <2>1, <2>4, DeleteCommit
  <2>5. CASE Done # Total /\ Hole' # Hole
    <3>1. Hole' = Hole + 1 /\ slots'[Hole] = slots[Hole + 1] /\ count' = count
          /\ \A i \in Slots \ {Hole} : slots'[i] = slots[i]
      BY <1>2, <2>5, DeleteCommit
    <3>2. CASE j = Hole + 1
      BY <2>1, <2>2, <3>1, <3>2
    <3>3. CASE j # Hole + 1
      BY <2>1, <3>1, <3>3
    <3>4. QED
      BY <3>2, <3>3
  <2>6. QED
    BY <2>3, <2>4, <2>5
<1>3. CASE pc = "adjust" /\ UNCHANGED <<slots, count, queue, req, others>>
  <2>1. Hole' = Hole /\ Writing' = Writing
    BY <1>3 DEF Hole, Done, Total, Writing
  <2>2. QED
    BY <1>3, <2>1 DEF OthersKept
<1>4. QED
  BY <1>1, <1>2, <1>3, Adjusting

(* Losing power between any two commits of delete_printer_profile loses no other printer. *)
THEOREM OthersAreKept == Spec => []DeleteKeepsOthers
<1>1. Init => OthersKept
  BY DEF Init, OthersKept
<1>2. Jobs /\ OthersKept /\ [Next]_vars => OthersKept'
  BY OthersStep
<1>3. Jobs /\ OthersKept => DeleteKeepsOthers
  <2> SUFFICES ASSUME Jobs, OthersKept, pc = "adjust", NEW p \in others PROVE Kept(p)
    BY DEF DeleteKeepsOthers
  <2>1. PICK j \in Slots : j < count /\ slots[j] = WithLocal(p)
    BY DEF OthersKept
  <2>2. p \in Printers
    BY TypesSplit DEF Jobs, Types, HistoryOK
  <2>3. slots[j].ser # None
    BY <2>1, <2>2, StoreAssumption DEF WithLocal
  <2>4. QED
    BY <2>1, <2>3 DEF Kept, Listed
<1>4. QED
  BY JobsInit, JobsStep, <1>1, <1>2, <1>3, PTL DEF Spec

-----------------------------------------------------------------------------
(* Where the printer of the active index is while the slots shift below that index. *)
Where == IF active > req.slot /\ (Writing => active <= Hole) THEN active - 1 ELSE active
Following == follows # None =>
  /\ pc = "adjust" => active # req.slot /\ (Writing => active < count) /\ slots[Where].ser = follows
  /\ pc = "adjusted" => slots[req.slot].ser = follows

(* The steps in which a delete is in progress and the user has not switched printers. *)
LEMMA AfterAdjust ==
  ASSUME Types, [Next]_vars, pc' \in {"adjust", "adjusted"}, follows' # None
  PROVE  \/ DeleteStart
         \/ InDelete /\ Commit /\ UNCHANGED <<others, follows>>
         \/ Adjust /\ pc' = "adjusted"
         \/ UNCHANGED <<slots, count, active, queue, pc, req, follows>>
<1>1. CASE Commit
  BY <1>1 DEF Commit, history, InDelete, Writing, Types, Phase
<1> USE DEF history, flash
<1>2. CASE Boot \/ Start \/ Crash
  BY <1>2 DEF Boot, Start, Crash
<1>3. CASE Application
  BY <1>3 DEF Application, AppCards, AppSwitch, AppRead, AppList, AppServe
<1>4. CASE FormPost \/ FormStore \/ FormDone \/ LocalConnect \/ Save \/ Select
  BY <1>4 DEF FormPost, FormStore, FormDone, LocalConnect, Save, Select, Request
<1>5. CASE Delete \/ AdjustWrite \/ Drop
  BY <1>5 DEF Delete, AdjustWrite, Drop, AfterDelete
<1>6. CASE Adjust
  BY <1>6 DEF Adjust, AfterDelete
<1>7. CASE ClearLocal \/ Cleared \/ Activate \/ Serve
  BY <1>7 DEF ClearLocal, Cleared, Activate, Serve
<1>8. CASE UNCHANGED vars
  BY <1>8 DEF vars
<1>9. QED
  BY <1>1, <1>2, <1>3, <1>4, <1>5, <1>6, <1>7, <1>8 DEF Next, Portal

(* The printer designated before the delete is where Where says, then where the request says. *)
LEMMA FollowingStep == ASSUME Jobs, Following, [Next]_vars PROVE Following'
<1> SUFFICES ASSUME follows' # None, pc' \in {"adjust", "adjusted"} PROVE Following'
  BY DEF Following
<1> USE DEF Jobs
<1>0. active \in Nat /\ count \in Nat /\ req.slot \in Nat /\ active \in Slots /\ MaxProfiles \in Nat
  BY TypesSplit, StoreAssumption DEF Types, FlashOK, TaskOK, Reqs, Slots
<1>1. CASE DeleteStart
  <2>1. active \in Listed \ {req.slot} /\ follows' = slots[active].ser
    BY <1>1 DEF DeleteStart
  <2>2. /\ UNCHANGED <<slots, count, active, req>> /\ InDelete' /\ Hole' = req.slot
    BY <1>1, DeleteStarts
  <2>3. Where' = active
    BY <1>0, <2>2 DEF Where, InDelete
  <2>4. active < count
    BY <2>1 DEF Listed
  <2>5. QED
    BY <2>1, <2>2, <2>3, <2>4 DEF Following, InDelete
<1>2. CASE InDelete /\ Commit /\ UNCHANGED <<others, follows>>
  <2>1. /\ active # req.slot /\ active < count /\ slots[Where].ser = follows
    BY <1>2 DEF Following, InDelete, Writing
  <2>2. /\ Hole \in Slots /\ Hole \in Nat /\ req.slot <= Hole /\ Hole < count
    BY <1>2, HoleIs
  <2>3. Where = IF active > req.slot /\ active <= Hole THEN active - 1 ELSE active
    BY <1>2 DEF Where, InDelete
  <2>4. Where \in Slots /\ Where # Hole
    BY <1>0, <2>1, <2>2, <2>3 DEF Slots
  <2>5. UNCHANGED <<pc, req, active>> /\ pc = "adjust"
    BY <1>2, DeleteCommit DEF InDelete
  <2>6. CASE Done = Total
    <3>1. slots' = slots /\ Hole = count - 1 /\ ~Writing'
      BY <1>2, <2>6, DeleteCommit
    <3>2. Where' = IF active > req.slot THEN active - 1 ELSE active
      BY <2>5, <3>1 DEF Where
    <3>3. Where' = Where
      BY <1>0, <2>1, <2>2, <2>3, <3>1, <3>2
    <3>4. QED
      BY <1>2, <2>1, <2>5, <3>1, <3>3 DEF Following
  <2>7. CASE Done # Total
    <3>1. /\ Writing' /\ count' = count /\ \A i \in Slots \ {Hole} : slots'[i] = slots[i]
          /\ \/ Hole' = Hole
             \/ Hole' = Hole + 1 /\ slots'[Hole] = slots[Hole + 1]
      BY <1>2, <2>7, DeleteCommit DEF InDelete
    <3>2. Where' = IF active > req.slot /\ active <= Hole' THEN active - 1 ELSE active
      BY <2>5, <3>1 DEF Where
    <3>3. slots'[Where'].ser = follows
      <4>1. CASE Where' = Where
        BY <2>1, <2>4, <3>1, <4>1
      <4>2. CASE Where' # Where
        <5>1. Hole' = Hole + 1 /\ active = Hole + 1 /\ Where' = Hole /\ Where = Hole + 1
          BY <1>0, <2>1, <2>2, <2>3, <3>1, <3>2, <4>2
        <5>2. QED
          BY <2>1, <3>1, <2>2, <5>1
      <4>3. QED
        BY <4>1, <4>2
    <3>4. QED
      BY <1>2, <2>1, <2>5, <3>1, <3>3 DEF Following
  <2>8. QED
    BY <2>6, <2>7
<1>3. CASE Adjust /\ pc' = "adjusted"
  <2>1. ~Writing /\ pc = "adjust" /\ UNCHANGED <<slots, active, follows>> /\ active >= req.slot
        /\ req' = [req EXCEPT !.slot = IF active = @ THEN 0 ELSE active - 1]
    BY <1>3 DEF Adjust, flash, Writing, AfterDelete
  <2>2. active # req.slot /\ slots[Where].ser = follows
    BY <2>1 DEF Following
  <2>3. Where = active - 1
    BY <1>0, <2>1, <2>2 DEF Where
  <2>4. req \in Reqs
    BY TypesSplit DEF Types, TaskOK
  <2>5. req'.slot = active - 1
    BY <2>1, <2>2, <2>4 DEF Reqs
  <2>6. QED
    BY <1>3, <2>1, <2>2, <2>3, <2>5 DEF Following
<1>4. CASE UNCHANGED <<slots, count, active, queue, pc, req, follows>>
  <2>1. Hole' = Hole /\ Writing' = Writing
    BY <1>4 DEF Hole, Done, Total, Writing
  <2>2. Where' = Where
    BY <1>4, <2>1 DEF Where
  <2>3. QED
    BY <1>4, <2>1, <2>2 DEF Following
<1>5. QED
  BY <1>1, <1>2, <1>3, <1>4, AfterAdjust

(* ActiveFollows as a formula about one step. *)
FollowsStep == (pc \in {"adjust", "adjusted"} /\ pc' \in {"idle", "drop"} /\ follows # None) =>
                 slots[active'].ser = follows

(* The step that ends the adjustment leaves the index at that printer. *)
LEMMA IndexFollows == ASSUME Jobs, Following, [Next]_vars PROVE FollowsStep
<1> SUFFICES ASSUME pc \in {"adjust", "adjusted"}, pc' \in {"idle", "drop"}, follows # None
             PROVE  slots[active'].ser = follows
  BY DEF FollowsStep
<1>1. Adjust \/ AdjustWrite
  <2>1. ~(Commit \/ Boot \/ Start \/ Crash)
    BY DEF Commit, Boot, Start, Crash
  <2>2. ~Application
    BY DEF Application, AppCards, AppSwitch, AppRead, AppList, AppServe
  <2>3. ~(FormPost \/ FormStore \/ FormDone \/ LocalConnect \/ Save \/ Select \/ Delete)
    BY DEF FormPost, FormStore, FormDone, LocalConnect, Save, Select, Delete, Request
  <2>4. ~(DeleteStart \/ Drop \/ ClearLocal \/ Cleared \/ Activate \/ Serve)
    BY DEF DeleteStart, Drop, ClearLocal, Cleared, Activate, Serve, Request
  <2>5. ~UNCHANGED vars
    BY DEF vars
  <2>6. QED
    BY <2>1, <2>2, <2>3, <2>4, <2>5 DEF Next, Portal
<1>2. CASE Adjust
  <2>1. pc = "adjust" /\ ~Writing /\ active < req.slot /\ active' = active
    BY <1>2 DEF Adjust, Writing, flash
  <2>2. active \in Nat /\ req.slot \in Nat
    BY TypesSplit DEF Jobs, Types, FlashOK, TaskOK, Reqs, Slots
  <2>3. Where = active
    BY <2>1, <2>2 DEF Where
  <2>4. QED
    BY <2>1, <2>3 DEF Following
<1>3. CASE AdjustWrite
  BY <1>3 DEF AdjustWrite, Following
<1>4. QED
  BY <1>1, <1>2, <1>3

(* delete_printer_profile leaves the active index at the printer it designated, unless that *)
(* printer was deleted or the user switched meanwhile.                                      *)
THEOREM IndexStaysWithPrinter == Spec => ActiveFollows
<1>1. Init => Following
  BY DEF Init, Following
<1>2. Jobs /\ Following /\ [Next]_vars => Following' /\ FollowsStep
  BY FollowingStep, IndexFollows
<1>3. QED
  BY JobsInit, JobsStep, <1>1, <1>2, PTL DEF Spec, ActiveFollows, FollowsStep

----------------------------------------------------------------------------------
(* The migration. *)
(* Until a request writes profiles, only a migration does: the flat keys are whole until *)
(* slot 0 is.                                                                            *)
Migrated == ~touched =>
  /\ Writing => pc = "start"
  /\ pc # "delete"
  /\ ~InMigration => (count = 0 /\ legacy = 3) \/ (count = 1 /\ slots[0] = WithLocal(Legacy))
  /\ InMigration => IF Left > 0 THEN legacy = 3 ELSE slots[0] = WithLocal(Legacy)

(* That a request has written profiles is not forgotten. *)
LEMMA TouchedGrows == ASSUME [Next]_vars, ~touched' PROVE ~touched
<1> USE DEF history
<1>1. CASE Commit \/ Boot \/ Start \/ Crash
  BY <1>1, Zenon DEF Commit, Boot, Start, Crash
<1>2. CASE Application
  BY <1>2, Zenon DEF Application, AppCards, AppSwitch, AppRead, AppList, AppServe
<1>3. CASE FormPost \/ FormStore \/ FormDone \/ LocalConnect \/ Save \/ Select
  BY <1>3, Zenon DEF FormPost, FormStore, FormDone, LocalConnect, Save, Select
<1>4. CASE Delete \/ DeleteStart \/ Adjust \/ AdjustWrite \/ Drop
  BY <1>4, Zenon DEF Delete, DeleteStart, Adjust, AdjustWrite, Drop
<1>5. CASE ClearLocal \/ Cleared \/ Activate \/ Serve
  BY <1>5, Zenon DEF ClearLocal, Cleared, Activate, Serve
<1>6. CASE UNCHANGED vars
  BY <1>6, Zenon DEF vars
<1>7. QED
  BY <1>1, <1>2, <1>3, <1>4, <1>5, <1>6 DEF Next, Portal

(* A step that lets the portal write profiles, or delete one, notes it. *)
LEMMA TouchedBy ==
  ASSUME [Next]_vars, ~touched'
  PROVE  /\ ~LocalConnect /\ ~Save /\ ~ClearLocal /\ ~Delete
         /\ FormStore => queue' = <<>>
<1>1. ~LocalConnect /\ ~Save /\ ~ClearLocal /\ ~Delete
  BY Zenon DEF LocalConnect, Save, ClearLocal, Delete
<1>2. ASSUME FormStore PROVE queue' = <<>>
  <2>1. req.conn.ser = None
    BY <1>2, Zenon DEF FormStore
  <2>2. QED
    BY <1>2, <2>1 DEF FormStore
<1>3. QED
  BY <1>1, <1>2

(* Only a request to delete leads to the delete. *)
LEMMA NotDeleting == ASSUME [Next]_vars, ~Delete, pc # "delete" PROVE pc' # "delete"
<1>1. CASE Commit \/ Boot \/ Start \/ Crash
  BY <1>1 DEF Commit, Boot, Start, Crash
<1>2. CASE Application
  BY <1>2 DEF Application, AppCards, AppSwitch, AppRead, AppList, AppServe
<1>3. CASE FormPost \/ FormStore \/ FormDone \/ LocalConnect \/ Save \/ Select
  BY <1>3 DEF FormPost, FormStore, FormDone, LocalConnect, Save, Select
<1>4. CASE DeleteStart \/ Adjust \/ AdjustWrite \/ Drop
  BY <1>4 DEF DeleteStart, Adjust, AdjustWrite, Drop, AfterDelete
<1>5. CASE ClearLocal \/ Cleared \/ Activate \/ Serve
  BY <1>5 DEF ClearLocal, Cleared, Activate, Serve
<1>6. CASE UNCHANGED vars
  BY <1>6 DEF vars
<1>7. QED
  BY <1>1, <1>2, <1>3, <1>4, <1>5, <1>6 DEF Next, Portal

(* The flat keys, all there, are the whole profile. *)
LEMMA OldIsWhole == legacy = 3 => OldProfile = WithLocal(Legacy)
BY DEF OldProfile, WithLocal

(* Once slot 0 has its three keys, it is the old profile. *)
LEMMA MigratedSlot ==
  ASSUME Types, Migrating, InMigration, Left \in 1..2
  PROVE  slots[0] = OldProfile
<1>1. slots[0] \in Profiles /\ OldProfile \in Profiles
  BY TypesSplit, OldIsProfile, StoreAssumption DEF Types, FlashOK, Slots
<1>2. QED
  BY <1>1, SameProfile DEF Migrating

(* A migration empties the flat keys only after slot 0 and the count are written. *)
LEMMA MigratedStep == ASSUME Jobs, Migrated, [Next]_vars PROVE Migrated'
<1> SUFFICES ASSUME ~touched' PROVE Migrated'
  BY DEF Migrated
<1> USE DEF Jobs
<1>0. /\ Writing => pc = "start"
      /\ pc # "delete"
      /\ ~InMigration => (count = 0 /\ legacy = 3) \/ (count = 1 /\ slots[0] = WithLocal(Legacy))
      /\ InMigration => IF Left > 0 THEN legacy = 3 ELSE slots[0] = WithLocal(Legacy)
  BY TouchedGrows DEF Migrated
<1>1. pc' # "delete"
  BY <1>0, TouchedBy, NotDeleting
<1>2. CASE Writing
  <2>0. InMigration
    BY <1>0, <1>2 DEF InMigration
  <2>m. Left \in 0..5 /\ count = IF Left <= 1 THEN 1 ELSE 0
    BY <2>0 DEF Migrating
  <2>1. CASE Commit
    <3>1. pc' = "start"
      BY <2>0, <2>1 DEF Commit, InMigration
    <3>2. Left' \in 0..5 /\ (Left > 0 => Left' = Left - 1) /\ (Left = 0 => Left' = 0)
      BY <2>0, <2>1, <2>m, MigrateCommit
    <3>3. Left \in 2..5 => Left' > 0 /\ Writing' /\ legacy' = 3
      BY <1>0, <2>0, <2>1, <2>m, MigrateCommit
    <3>4. Left = 1 => Left' = 0 /\ count' = 1 /\ slots'[0] = WithLocal(Legacy)
      BY <1>0, <2>0, <2>1, <2>m, MigrateCommit, OldIsWhole
    <3>5. Left = 0 => Left' = 0 /\ count' = 1 /\ slots'[0] = WithLocal(Legacy)
      BY <1>0, <2>0, <2>1, <2>m, MigrateCommit
    <3>6. QED
      BY <2>m, <3>1, <3>2, <3>3, <3>4, <3>5 DEF Migrated, InMigration
  <2>2. CASE Crash
    <3>1. ~Writing' /\ UNCHANGED <<slots, count, legacy>>
      BY <2>2 DEF Crash, Writing, flash
    <3>2. CASE Left \in 2..5
      BY <1>0, <1>1, <2>0, <2>m, <3>1, <3>2 DEF Migrated, InMigration
    <3>3. CASE Left = 1
      BY <1>0, <1>1, <2>0, <2>m, <3>1, <3>3, MigratedSlot, OldIsWhole DEF Migrated, InMigration
    <3>4. CASE Left = 0
      BY <1>0, <1>1, <2>0, <2>m, <3>1, <3>4 DEF Migrated, InMigration
    <3>5. QED
      BY <2>m, <3>2, <3>3, <3>4
  <2>3. CASE UNCHANGED <<slots, count, legacy, queue, pc, req>>
    BY <1>0, <2>3 DEF Migrated, InMigration, Writing, Left
  <2>4. QED
    BY <1>2, <2>1, <2>2, <2>3, Busy
<1>3. CASE ~Writing
  <2>1. /\ UNCHANGED <<slots, count, legacy>>
        /\ (count = 0 /\ legacy = 3) \/ (count = 1 /\ slots[0] = WithLocal(Legacy))
    BY <1>0, <1>3, Waiting DEF InMigration
  <2>2. CASE queue' = <<>>
    BY <1>1, <2>1, <2>2 DEF Migrated, InMigration, Writing
  <2>3. CASE Boot /\ queue' # <<>>
    <3>1. count = 0 /\ legacy > 0 /\ queue' = MigrateWrites /\ pc' = "start"
      BY <2>3 DEF Boot
    <3>2. Len(queue') = 5 + legacy /\ legacy = 3
      BY <2>1, <3>1, MigrateWritesAre DEF Types
    <3>3. Left' = Len(queue') - legacy'
      BY DEF Left
    <3>4. Left' > 0 /\ legacy' = 3
      BY <2>1, <3>2, <3>3
    <3>5. QED
      BY <1>1, <2>3, <3>1, <3>4 DEF Migrated, InMigration, Writing
  <2>4. ~DeleteStart
    BY <1>0 DEF DeleteStart
  <2>5. QED
    BY <1>3, <2>2, <2>3, <2>4, Waiting, TouchedBy
<1>4. QED
  BY <1>2, <1>3

(* migrate_legacy_printer_profile never loses the printer, cut as often as may be. *)
THEOREM LegacyIsKept == Spec => []LegacyKept
<1>1. Init => Migrated
  <2> SUFFICES ASSUME Init, ~touched PROVE Migrated
    BY DEF Migrated
  <2>1. legacy # 0 /\ ~Writing /\ pc # "delete"
    BY DEF Init, Writing
  <2>2. count = 0 /\ legacy = 3
    BY <2>1 DEF Init
  <2>3. QED
    BY <2>1, <2>2 DEF Migrated, InMigration
<1>2. Jobs /\ Migrated /\ [Next]_vars => Migrated'
  BY MigratedStep
<1>3. Jobs /\ Migrated => LegacyKept
  <2> SUFFICES ASSUME Jobs, Migrated, ~touched
               PROVE  legacy = 3 \/ (count > 0 /\ slots[0] = WithLocal(Legacy))
    BY DEF LegacyKept
  <2>1. CASE InMigration
    <3>1. Left \in 0..5 /\ count = IF Left <= 1 THEN 1 ELSE 0
      BY <2>1 DEF Jobs, Migrating
    <3>2. QED
      BY <2>1, <3>1 DEF Migrated
  <2>2. CASE ~InMigration
    BY <2>2 DEF Migrated
  <2>3. QED
    BY <2>1, <2>2
<1>4. QED
  BY JobsInit, JobsStep, <1>1, <1>2, <1>3, PTL DEF Spec

----------------------------------------------------------------------------------
(* One printer, never two. *)
(* One printer's keys and no other's. *)
Whole(c) == c.ser # None /\ c.host \in {None, c.ser} /\ c.acc \in {None, c.ser}
(* Nothing, or one printer. *)
Clean(c) == c = Empty \/ Whole(c)

(* The connection of the clients, of the application and of the request. *)
OnePrinter == Clean(conn) /\ Clean(app.conn) /\ Clean(req.conn)
(* The flat keys are all there or all gone, but for a migration that empties them, and that *)
(* only begins with all of them.                                                            *)
OldWhole == /\ legacy \in {0, 3} \/ InMigration
            /\ InMigration /\ Left > 0 => legacy = 3
(* A save writes one printer, over a slot of the same printer unless it is the settings form. *)
SavesWhole == InSave =>
  /\ Whole(req.conn)
  /\ pc # "reboot" /\ req.slot < count => slots[req.slot].ser = req.conn.ser
(* Every slot in use holds one printer, but for the one the form or the delete is rewriting. *)
SlotsWhole == \A i \in Slots : i < count =>
  \/ Whole(slots[i])
  \/ InSave /\ pc = "reboot" /\ i = req.slot
  \/ InDelete /\ i = Hole
(* The three facts about flash together. *)
FlashWhole == OldWhole /\ SavesWhole /\ SlotsWhole
(* The inductive invariant of NoMixedConnection: the slots matter, not only the connections. *)
Unmixed == ~cut => OnePrinter /\ FlashWhole

(* One printer is no mixture. *)
LEMMA CleanIsUnmixed == \A c : Clean(c) => ~Mixed(c)
BY DEF Clean, Whole, Mixed, Empty, Fields

(* A cut is not forgotten; a loss of power that is none met no form, delete or half migration. *)
LEMMA CutGrows ==
  ASSUME [Next]_vars, ~cut'
  PROVE  /\ ~cut
         /\ Crash => ~(Writing /\ req.op \in {"delete", "form"}) /\ legacy \in {0, 3}
<1> USE DEF history
<1>1. ASSUME Commit \/ Boot \/ Start PROVE ~cut
  BY <1>1, Zenon DEF Commit, Boot, Start
<1>2. ASSUME Application PROVE ~cut
  BY <1>2, Zenon DEF Application, AppCards, AppSwitch, AppRead, AppList, AppServe
<1>3. ASSUME FormPost \/ FormStore \/ FormDone \/ LocalConnect \/ Save \/ Select PROVE ~cut
  BY <1>3, Zenon DEF FormPost, FormStore, FormDone, LocalConnect, Save, Select
<1>4. ASSUME Delete \/ DeleteStart \/ Adjust \/ AdjustWrite \/ Drop PROVE ~cut
  BY <1>4, Zenon DEF Delete, DeleteStart, Adjust, AdjustWrite, Drop
<1>5. ASSUME ClearLocal \/ Cleared \/ Activate \/ Serve PROVE ~cut
  BY <1>5, Zenon DEF ClearLocal, Cleared, Activate, Serve
<1>6. ASSUME UNCHANGED vars PROVE ~cut
  BY <1>6, Zenon DEF vars
<1>7. Crash => ~cut /\ ~(Writing /\ req.op \in {"delete", "form"}) /\ legacy \in {0, 3}
  BY Zenon DEF Crash, Writing
<1>8. ~cut
  BY <1>1, <1>2, <1>3, <1>4, <1>5, <1>6, <1>7 DEF Next, Portal
<1>9. QED
  BY <1>7, <1>8

(* While nothing is being written, what is read from flash names one printer. *)
LEMMA Settled ==
  ASSUME Jobs, SlotsWhole, ~Writing
  PROVE  /\ \A i \in Slots : i < count => Whole(slots[i])
         /\ \A i \in Listed : Whole(slots[i]) /\ i < count
         /\ \A i : Clean(ActiveProfile(i))
         /\ Cardinality(Listed) = count
         /\ \A f \in Forms : Whole(Merged(f)) /\ Merged(f).ser = f.ser
         /\ Merged(Empty) = Empty
<1>1. \A i \in Slots : i < count => Whole(slots[i])
  BY DEF SlotsWhole, InSave, InDelete
<1>2. \A i \in Listed : Whole(slots[i]) /\ i < count
  BY <1>1 DEF Listed
<1>3. \A i : Clean(ActiveProfile(i))
  BY <1>2 DEF ActiveProfile, Clean
<1>4. Cardinality(Listed) = count
  <2>1. \A i \in Slots : i < count => i \in Listed
    BY <1>1 DEF Listed, Whole
  <2>2. QED
    BY <2>1, ListedCount, TypesSplit DEF Jobs, Types, FlashOK
<1>5. ASSUME NEW f \in Forms PROVE Whole(Merged(f)) /\ Merged(f).ser = f.ser
  <2> DEFINE stored == ActiveProfile(active)
  <2>1. f \in Profiles /\ Whole(f)
    BY DEF Forms, Whole
  <2>2. Clean(stored)
    BY <1>3
  <2>3. CASE f.acc = None /\ f.ser # None /\ f.ser = stored.ser
    <3>1. stored.acc \in {None, f.ser}
      BY <2>2, <2>3 DEF Clean, Whole, Empty
    <3>2. Merged(f) = [f EXCEPT !.acc = stored.acc]
      BY <2>3 DEF Merged
    <3> HIDE DEF stored
    <3>3. QED
      BY <2>1, <3>1, <3>2 DEF Whole, Profiles
  <2>4. CASE ~(f.acc = None /\ f.ser # None /\ f.ser = stored.ser)
    BY <2>1, <2>4 DEF Merged
  <2>5. QED
    BY <2>3, <2>4
<1>6. Merged(Empty) = Empty
  BY DEF Merged, Empty
<1>7. QED
  BY <1>1, <1>2, <1>3, <1>4, <1>5, <1>6

(* What a handler notes to be saved is one printer's, and it goes to the slot of that   *)
(* printer or to a new one; only the settings form may turn one slot into another's.    *)
LEMMA NotesWhole ==
  ASSUME Jobs, SlotsWhole, ~Writing
  PROVE  /\ LocalConnect \/ Save \/ ClearLocal =>
              /\ Whole(req'.conn)
              /\ req'.slot < count => slots[req'.slot].ser = req'.conn.ser
         /\ Select \/ Delete => Whole(req'.conn)
         /\ FormPost => Clean(req'.conn)
<1> USE DEF Jobs
<1>0. count \in 0..MaxProfiles /\ count \in Nat /\ MaxProfiles \in Nat
  BY StoreAssumption, TypesSplit DEF Types, FlashOK
<1>s. ASSUME NEW s PROVE SlotOf(s) < count => slots[SlotOf(s)].ser = s
  <2>1. CASE SlotOf(s) = Cardinality(Listed)
    BY <1>0, <2>1, Settled
  <2>2. QED
    BY <2>1, SlotOfIs DEF Types
<1>1. ASSUME LocalConnect
      PROVE  Whole(req'.conn) /\ (req'.slot < count => slots[req'.slot].ser = req'.conn.ser)
  <2>1. PICK f \in Forms, configures \in BOOLEAN :
          Working("connect", SlotOf(Merged(f).ser), Merged(f), configures)
    BY <1>1 DEF LocalConnect
  <2>2. req'.slot = SlotOf(Merged(f).ser) /\ req'.conn = Merged(f)
    BY <2>1 DEF Working
  <2>3. QED
    BY <1>s, <2>2, Settled
<1>2. ASSUME Save
      PROVE  Whole(req'.conn) /\ (req'.slot < count => slots[req'.slot].ser = req'.conn.ser)
  <2>1. PICK f \in Forms :
          LET i == SlotOf(f.ser)
              was == IF i \in Listed /\ slots[i].ser = f.ser THEN slots[i] ELSE Empty
          IN  /\ i < MaxProfiles
              /\ Working("save", i,
                         [ser |-> f.ser,
                          host |-> IF f.host = None THEN was.host ELSE f.host,
                          acc |-> IF f.acc = None THEN was.acc ELSE f.acc], FALSE)
    BY <1>2 DEF Save
  <2> DEFINE i == SlotOf(f.ser)
             was == IF i \in Listed /\ slots[i].ser = f.ser THEN slots[i] ELSE Empty
  <2>2. /\ req'.slot = i /\ req'.conn.ser = f.ser
        /\ req'.conn.host = IF f.host = None THEN was.host ELSE f.host
        /\ req'.conn.acc = IF f.acc = None THEN was.acc ELSE f.acc
    BY <2>1 DEF Working
  <2>3. was.host \in {None, f.ser} /\ was.acc \in {None, f.ser}
    <3>1. CASE i \in Listed /\ slots[i].ser = f.ser
      BY <3>1, Settled DEF Whole
    <3>2. CASE ~(i \in Listed /\ slots[i].ser = f.ser)
      BY <3>2 DEF Empty
    <3>3. QED
      BY <3>1, <3>2
  <2>4. f.ser # None /\ f.host \in {f.ser, None} /\ f.acc \in {f.ser, None}
    BY DEF Forms
  <2> HIDE DEF was
  <2>5. QED
    BY <1>s, <2>2, <2>3, <2>4 DEF Whole
<1>3. ASSUME ClearLocal
      PROVE  Whole(req'.conn) /\ (req'.slot < count => slots[req'.slot].ser = req'.conn.ser)
  <2>1. PICK i \in Listed :
          Working("clear", i, [slots[i] EXCEPT !.host = None, !.acc = None], FALSE)
    BY <1>3 DEF ClearLocal
  <2>2. slots[i] \in Profiles /\ Whole(slots[i])
    BY Settled, ReadsTyped DEF Types, Listed
  <2>3. req'.slot = i /\ req'.conn = [slots[i] EXCEPT !.host = None, !.acc = None]
    BY <2>1 DEF Working
  <2>4. QED
    BY <2>2, <2>3 DEF Whole, Profiles
<1>4. Select => Whole(req'.conn)
  BY Settled DEF Select, Working
<1>5. ASSUME Delete PROVE Whole(req'.conn)
  <2>1. req'.slot < count /\ req'.slot \in Slots /\ req'.conn = slots[req'.slot]
    BY <1>5, RequestTyped
  <2>2. QED
    BY <2>1, Settled
<1>6. FormPost => Clean(req'.conn)
  BY Settled DEF FormPost, Working, Clean
<1>7. QED
  BY <1>1, <1>2, <1>3, <1>4, <1>5, <1>6

(* The connections name one printer: what is read while the mutex is free does. *)
LEMMA OnePrinterStep ==
  ASSUME Jobs, OnePrinter, FlashWhole, [Next]_vars
  PROVE  OnePrinter'
<1> USE DEF Jobs, OnePrinter
<1>0. Clean(Empty) /\ Clean(NoRequest.conn) /\ Clean(AppOff.conn)
  BY DEF Clean, NoRequest, AppOff
<1>a. /\ app \in [pc : {"off", "idle", "read", "list", "serve"}, idx : Slots, conn : Profiles]
      /\ req \in Reqs
  BY TypesSplit DEF Types, AppOK, TaskOK
<1>1. CASE Commit \/ Boot
  BY <1>1 DEF Commit, Boot, clients
<1>2. CASE Start
  BY <1>a, <1>2 DEF Start, clients
<1>3. CASE Crash
  BY <1>0, <1>3 DEF Crash
<1>4. CASE AppCards \/ AppSwitch \/ AppRead
  BY <1>a, <1>4 DEF AppCards, AppSwitch, AppRead, clients
<1>5. CASE AppList
  <2>1. ~Writing
    BY <1>5 DEF AppList, Unlocked, Writing
  <2>2. Clean(ActiveProfile(app.idx))
    BY <2>1, Settled DEF FlashWhole
  <2>3. QED
    BY <1>a, <1>5, <2>2 DEF AppList, clients
<1>6. CASE AppServe
  BY <1>0, <1>a, <1>6 DEF AppServe
<1>7. CASE FormPost \/ LocalConnect \/ Save \/ Select \/ Delete \/ ClearLocal
  <2>1. ~Writing /\ UNCHANGED <<conn, app>>
    BY <1>7 DEF FormPost, LocalConnect, Save, Select, Delete, ClearLocal, Request, Writing, clients
  <2>2. Clean(req'.conn)
    BY <1>7, <2>1, NotesWhole DEF FlashWhole, Clean
  <2>3. QED
    BY <2>1, <2>2
<1>8. CASE FormStore
  BY <1>8, FormTyped DEF FormStore, clients
<1>9. CASE FormDone \/ DeleteStart \/ AdjustWrite \/ Activate
  BY <1>0, <1>9 DEF FormDone, DeleteStart, AdjustWrite, Activate, clients
<1>10. CASE Adjust
  BY <1>a, <1>10 DEF Adjust, clients, Reqs
<1>11. CASE Drop
  <2>0. ~Writing
    BY <1>11 DEF Drop, Types, Phase
  <2>1. CASE Listed = {}
    BY <1>0, <1>11, <2>1 DEF Drop
  <2>2. CASE Listed # {}
    <3>1. First(Listed) \in Listed
      BY <2>2, FirstExists DEF Listed, Slots
    <3>2. req'.conn = slots[First(Listed)]
      BY <1>11, <2>2 DEF Drop, Working
    <3>3. Clean(req'.conn)
      BY <2>0, <3>1, <3>2, Settled DEF FlashWhole, Clean
    <3>4. QED
      BY <1>0, <1>11, <3>3 DEF Drop
  <2>3. QED
    BY <2>1, <2>2
<1>12. CASE Cleared \/ Serve
  BY <1>0, <1>12 DEF Cleared, Serve
<1>13. CASE UNCHANGED vars
  BY <1>13 DEF vars, clients
<1>14. QED
  BY <1>1, <1>2, <1>3, <1>4, <1>5, <1>6, <1>7, <1>8, <1>9, <1>10, <1>11, <1>12, <1>13
     DEF Next, Application, Portal

(* One key of a whole profile is replaced by that of a profile of the same printer. *)
LEMMA WholeParts ==
  ASSUME NEW a, NEW b, NEW c, Whole(a), Whole(b), a.ser = b.ser,
         c.ser = a.ser, c.host \in {a.host, b.host}, c.acc \in {a.acc, b.acc}
  PROVE  Whole(c)
BY DEF Whole

(* A save of the same printer leaves its slot whole after every commit. *)
LEMMA SaveWholeStep ==
  ASSUME Jobs, FlashWhole, InSave, Commit
  PROVE  FlashWhole'
<1> USE DEF Jobs
<1> DEFINE S == req.slot
           P == req.conn
<1>0. /\ S \in Slots /\ S \in Nat /\ count \in Nat /\ S <= count /\ Saved \in 0..3
      /\ Whole(P) /\ legacy \in {0, 3} /\ ~InDelete /\ ~InMigration
      /\ pc # "reboot" /\ S < count => slots[S].ser = P.ser
  BY TypesSplit, StoreAssumption
     DEF Types, FlashOK, Saving, Slots, FlashWhole, OldWhole, SavesWhole, InSave, InMigration, InDelete
<1>1. /\ UNCHANGED <<pc, req, active, legacy>>
      /\ \A i \in Slots \ {S} : slots'[i] = slots[i]
      /\ Saved = 0 => /\ slots'[S].ser = P.ser /\ slots'[S].host = slots[S].host
                      /\ slots'[S].acc = slots[S].acc
      /\ Saved = 1 => /\ slots'[S].ser = slots[S].ser /\ slots'[S].host = P.host
                      /\ slots'[S].acc = slots[S].acc
      /\ Saved = 2 => /\ slots'[S].ser = slots[S].ser /\ slots'[S].host = slots[S].host
                      /\ slots'[S].acc = P.acc
      /\ Saved # 3 => count' = count
      /\ Saved = 3 => slots' = slots /\ S = count /\ count' = count + 1 /\ ~Writing'
      /\ ~Writing' => slots'[S] = P
  BY <1>0, SaveCommit
<1>2. OldWhole' /\ ~InMigration' /\ ~InDelete'
  BY <1>0, <1>1 DEF OldWhole, InMigration, InDelete, InSave
<1>3. ASSUME pc # "reboot", S < count, Saved # 3
      PROVE  Whole(slots'[S]) /\ slots'[S].ser = P.ser
  <2>1. Whole(slots[S]) /\ slots[S].ser = P.ser
    BY <1>0, <1>3 DEF FlashWhole, SlotsWhole
  <2>2. /\ slots'[S].ser = P.ser /\ slots'[S].host \in {slots[S].host, P.host}
        /\ slots'[S].acc \in {slots[S].acc, P.acc}
    BY <1>0, <1>1, <1>3, <2>1
  <2>3. QED
    BY <1>0, <2>1, <2>2, WholeParts
<1>4. SavesWhole'
  <2> SUFFICES ASSUME InSave' PROVE SavesWhole'
    BY DEF SavesWhole
  <2>1. Saved # 3 /\ pc' = pc /\ S' = S /\ P' = P /\ count' = count
    BY <1>1 DEF InSave
  <2>2. QED
    BY <1>0, <1>3, <2>1 DEF SavesWhole
<1>5. SlotsWhole'
  <2> SUFFICES ASSUME NEW i \in Slots, i < count', ~(InSave' /\ pc' = "reboot" /\ i = S')
               PROVE  Whole(slots'[i])
    BY DEF SlotsWhole
  <2>1. CASE i # S
    <3>1. i < count
      BY <1>0, <1>1, <2>1 DEF Slots
    <3>2. QED
      BY <1>0, <1>1, <2>1, <3>1 DEF FlashWhole, SlotsWhole
  <2>2. CASE i = S /\ ~Writing'
    BY <1>0, <1>1, <2>2
  <2>3. CASE i = S /\ Writing'
    <3>1. pc # "reboot" /\ Saved # 3 /\ S < count
      BY <1>1, <2>3 DEF InSave
    <3>2. QED
      BY <1>3, <2>3, <3>1
  <2>4. QED
    BY <2>1, <2>2, <2>3
<1>6. QED
  BY <1>2, <1>4, <1>5 DEF FlashWhole

(* A migration makes its slot count only once it is whole. *)
LEMMA MigrateWholeStep ==
  ASSUME Jobs, FlashWhole, InMigration, Commit
  PROVE  FlashWhole'
<1> USE DEF Jobs
<1>0. /\ Left \in 0..5 /\ count = (IF Left <= 1 THEN 1 ELSE 0) /\ (Left > 0 => legacy = 3)
      /\ ~InSave /\ ~InDelete /\ legacy \in 0..3
  BY TypesSplit DEF Types, FlashOK, Migrating, FlashWhole, OldWhole, InMigration, InSave, InDelete
<1>1. /\ UNCHANGED <<pc, req>>
      /\ Left \in 3..5 => legacy' = legacy /\ count' = count /\ count = 0
      /\ Left = 2 => /\ slots' = slots /\ legacy' = legacy /\ count' = 1
                     /\ slots[0] = OldProfile
      /\ Left = 1 => slots' = slots /\ legacy' = legacy /\ count' = count /\ slots[0] = OldProfile
      /\ Left = 0 => /\ slots' = slots /\ legacy' = legacy - 1 /\ count' = count
                     /\ Len(queue') = legacy'
      /\ Left > 0 => Left' = Left - 1
      /\ Left > 1 => Writing'
      /\ Left = 0 => Left' = 0
  BY MigrateCommit
<1>2. SavesWhole' /\ ~InDelete'
  BY <1>0, <1>1 DEF SavesWhole, InSave, InDelete, InMigration
<1>3. OldWhole'
  <2>1. pc' = "start"
    BY <1>1 DEF InMigration
  <2>2. CASE Left > 0
    <3>1. legacy' = 3
      BY <1>0, <1>1, <2>2
    <3>2. QED
      BY <3>1 DEF OldWhole
  <2>3. CASE Left = 0
    <3>1. Left' = 0 /\ Len(queue') = legacy'
      BY <1>1, <2>3
    <3>2. ~Writing' => legacy' = 0
      BY <3>1, EmptySeq DEF Writing
    <3>3. QED
      BY <2>1, <3>1, <3>2 DEF OldWhole, InMigration
  <2>4. QED
    BY <1>0, <2>2, <2>3
<1>4. SlotsWhole'
  <2>1. Whole(WithLocal(Legacy))
    BY StoreAssumption DEF Whole, WithLocal
  <2>2. CASE Left \in 3..5
    BY <1>1, <2>2 DEF SlotsWhole, Slots
  <2>3. CASE Left = 2
    BY <1>0, <1>1, <2>1, <2>3, OldIsWhole DEF SlotsWhole, Slots
  <2>4. CASE Left <= 1
    <3>1. slots' = slots /\ count' = count
      BY <1>0, <1>1, <2>4
    <3>2. QED
      BY <1>0, <3>1 DEF FlashWhole, SlotsWhole
  <2>5. QED
    BY <1>0, <2>2, <2>3, <2>4
<1>5. QED
  BY <1>2, <1>3, <1>4 DEF FlashWhole

(* A delete leaves every slot but the hole whole. *)
LEMMA DeleteWholeStep ==
  ASSUME Jobs, FlashWhole, InDelete, Commit
  PROVE  FlashWhole'
<1> USE DEF Jobs
<1>0. /\ count \in Nat /\ Hole \in Slots /\ Hole \in Nat /\ Hole < count
      /\ legacy \in {0, 3} /\ ~InSave /\ ~InMigration
      /\ \A i \in Slots : i < count /\ i # Hole => Whole(slots[i])
  BY HoleIs DEF FlashWhole, OldWhole, SlotsWhole, InSave, InMigration, InDelete
<1>1. UNCHANGED <<pc, req, active, legacy>>
  BY DeleteCommit
<1>2. OldWhole' /\ SavesWhole'
  BY <1>0, <1>1 DEF OldWhole, SavesWhole, InMigration, InSave, InDelete
<1>3. CASE Done = Total
  <2>1. slots' = slots /\ Hole = count - 1 /\ count' = count - 1
    BY <1>3, DeleteCommit
  <2>2. \A i \in Slots : i < count' => i < count /\ i # Hole
    BY <1>0, <2>1 DEF Slots
  <2>3. QED
    BY <1>0, <1>2, <2>1, <2>2 DEF FlashWhole, SlotsWhole
<1>4. CASE Done # Total
  <2>1. /\ InDelete' /\ count' = count /\ \A i \in Slots \ {Hole} : slots'[i] = slots[i]
        /\ \/ Hole' = Hole
           \/ Hole' = Hole + 1 /\ Hole < count - 1 /\ slots'[Hole] = slots[Hole + 1]
    BY <1>4, DeleteCommit
  <2>2. ASSUME Hole' = Hole + 1, Hole < count - 1, slots'[Hole] = slots[Hole + 1]
        PROVE  Whole(slots'[Hole])
    <3>1. Hole + 1 \in Slots /\ Hole + 1 < count /\ Hole + 1 # Hole
      BY <1>0, <2>2, TypesSplit, StoreAssumption DEF Types, FlashOK, Slots
    <3>2. QED
      BY <1>0, <2>2, <3>1
  <2>3. \A i \in Slots : i < count' /\ i # Hole' => Whole(slots'[i])
    BY <1>0, <2>1, <2>2
  <2>4. QED
    BY <1>2, <2>1, <2>3 DEF FlashWhole, SlotsWhole
<1>5. QED
  BY <1>3, <1>4

(* The same for every step. *)
LEMMA FlashWholeStep ==
  ASSUME Jobs, OnePrinter, FlashWhole, [Next]_vars, ~cut'
  PROVE  FlashWhole'
<1> USE DEF Jobs
<1>1. CASE Writing
  <2>1. CASE Commit
    <3>1. InSave \/ InMigration \/ InDelete
      BY <1>1 DEF Types, Phase, InSave, InMigration, InDelete
    <3>2. QED
      BY <2>1, <3>1, SaveWholeStep, MigrateWholeStep, DeleteWholeStep
  <2>2. CASE Crash
    <3>1. /\ ~(Writing /\ req.op \in {"delete", "form"}) /\ legacy \in {0, 3}
          /\ ~Writing' /\ UNCHANGED <<slots, count, legacy>>
      BY <2>2, CutGrows DEF Crash, Writing, flash
    <3>2. pc # "reboot" /\ ~InDelete
      BY <1>1, <3>1 DEF InDelete, Types, Phase
    <3>3. \A i \in Slots : i < count => Whole(slots[i])
      BY <3>2 DEF FlashWhole, SlotsWhole
    <3>4. QED
      BY <3>1, <3>3 DEF FlashWhole, OldWhole, SavesWhole, SlotsWhole, InSave, InMigration, InDelete
  <2>3. CASE UNCHANGED <<slots, count, legacy, queue, pc, req>>
    BY <2>3 DEF FlashWhole, OldWhole, SavesWhole, SlotsWhole, InSave, InMigration, InDelete, Writing,
                Left, Hole, Done, Total
  <2>4. QED
    BY <1>1, <2>1, <2>2, <2>3, Busy
<1>2. CASE ~Writing
  <2>1. /\ UNCHANGED <<slots, count, legacy>> /\ legacy \in {0, 3}
        /\ \A i \in Slots : i < count => Whole(slots[i])
    BY <1>2, Settled, Waiting DEF FlashWhole, OldWhole, InMigration
  <2>2. SlotsWhole'
    BY <2>1 DEF SlotsWhole
  <2>3. CASE queue' = <<>>
    BY <2>1, <2>2, <2>3 DEF FlashWhole, OldWhole, SavesWhole, InSave, InMigration, Writing
  <2>4. CASE Boot /\ queue' # <<>>
    BY <2>1, <2>2, <2>4, TypesSplit DEF Boot, FlashWhole, OldWhole, SavesWhole, InSave, Types, FlashOK
  <2>5. CASE queue' # <<>> /\ (LocalConnect \/ Save \/ ClearLocal)
    <3>1. InSave' /\ ~InMigration'
      BY <1>2, <2>5, Starters DEF InSave, InMigration
    <3>2. /\ Whole(req'.conn)
          /\ req'.slot < count => slots[req'.slot].ser = req'.conn.ser
      BY <1>2, <2>5, NotesWhole DEF FlashWhole
    <3>3. QED
      BY <2>1, <2>2, <3>1, <3>2 DEF FlashWhole, OldWhole, SavesWhole
  <2>6. CASE queue' # <<>> /\ FormStore
    <3>1. req'.conn = req.conn /\ req.conn.ser # None /\ pc' = "reboot"
      BY <2>6, FormTyped DEF FormStore
    <3>2. Whole(req'.conn)
      BY <3>1 DEF OnePrinter, Clean, Empty
    <3>3. QED
      BY <2>1, <2>2, <3>1, <3>2 DEF FlashWhole, OldWhole, SavesWhole, InMigration
  <2>7. CASE DeleteStart
    <3>1. pc' = "adjust"
      BY <2>7 DEF DeleteStart
    <3>2. QED
      BY <2>1, <2>2, <3>1 DEF FlashWhole, OldWhole, SavesWhole, InSave, InMigration
  <2>8. QED
    BY <1>2, <2>3, <2>4, <2>5, <2>6, <2>7, Waiting
<1>3. QED
  BY <1>1, <1>2

(* No client is given the host or access code of one printer under the serial of another. *)
THEOREM NeverMixed == Spec => []NoMixedConnection
<1>1. Init => Unmixed
  <2> SUFFICES ASSUME Init PROVE OnePrinter /\ FlashWhole
    BY DEF Unmixed
  <2>1. OnePrinter
    BY DEF Init, OnePrinter, Clean, AppOff, NoRequest
  <2>2. legacy \in {0, 3} /\ ~Writing
    BY DEF Init, Writing
  <2>3. SlotsWhole
    <3>1. \A p \in Printers : Whole(WithLocal(p)) /\ Whole(CloudOnly(p))
      BY StoreAssumption DEF Whole, WithLocal, CloudOnly, Empty
    <3>2. ASSUME NEW i \in Slots, i < count PROVE Whole(slots[i])
      <4>1. slots[i] # Empty
        BY <3>2, StoreAssumption DEF Init, Slots
      <4>2. slots[i] \in {WithLocal(p) : p \in Printers} \cup {CloudOnly(p) : p \in Printers}
        BY <4>1 DEF Init
      <4>3. QED
        BY <3>1, <4>2
    <3>3. QED
      BY <3>2 DEF SlotsWhole
  <2>4. QED
    BY <2>1, <2>2, <2>3 DEF FlashWhole, OldWhole, SavesWhole, InSave, InMigration
<1>2. Jobs /\ Unmixed /\ [Next]_vars => Unmixed'
  <2> SUFFICES ASSUME Jobs, Unmixed, [Next]_vars, ~cut' PROVE OnePrinter' /\ FlashWhole'
    BY DEF Unmixed
  <2>1. OnePrinter /\ FlashWhole
    BY CutGrows DEF Unmixed
  <2>2. QED
    BY <2>1, OnePrinterStep, FlashWholeStep
<1>3. Unmixed => NoMixedConnection
  BY CleanIsUnmixed DEF Unmixed, OnePrinter, NoMixedConnection
<1>4. QED
  BY JobsInit, JobsStep, <1>1, <1>2, <1>3, PTL DEF Spec

----------------------------------------------------------------------------------
(* No gap among the slots. *)
(* load_printer_profiles lists a slot with a serial or a host. *)
Seen(c) == c.ser # None \/ c.host # None

(* Among the slots in use only the last can be skipped, but for the hole of a delete. *)
NoGap ==
  /\ ~InDelete => \A i \in Slots : i < count - 1 => Seen(slots[i])
  /\ InDelete => \A i \in Slots :
       (i < Hole /\ i < count - 2) \/ (i > Hole /\ i < count - 1) => Seen(slots[i])
(* A save has a serial, and it goes past the used slots only if they are all listed. *)
SavesNamed == InSave =>
  /\ req.conn.ser # None
  /\ req.slot = count => \A i \in Slots : i < count => Seen(slots[i])
(* Before a delete has been cut, every slot in use has a serial, but for the last one of a *)
(* delete and for a migrated profile of which only the access code was left.               *)
Named == \A i \in Slots : i < count =>
  \/ slots[i].ser # None
  \/ InDelete /\ i = Hole /\ i = count - 1
  \/ count = 1 /\ slots[0].host = None
(* The inductive invariant of UpsertNeverClobbers. *)
Gapless == torn < 2 => NoGap /\ SavesNamed /\ (torn = 0 => Named)

(* What has been torn stays so; a loss of power in a delete tears once or twice. *)
LEMMA TornGrows ==
  ASSUME Types, [Next]_vars
  PROVE  /\ torn' < 2 => torn < 2
         /\ torn' = 0 => torn = 0
         /\ Crash /\ InDelete /\ torn' < 2 => torn = 0
         /\ ~Crash /\ ~ClearLocal => torn' = torn
<1>0. torn \in 0..2
  BY TypesSplit DEF Types, HistoryOK
<1> USE DEF history
<1>1. ASSUME Commit \/ Boot \/ Start PROVE torn' = torn
  BY <1>1 DEF Commit, Boot, Start
<1>2. ASSUME Application PROVE torn' = torn
  BY <1>2 DEF Application, AppCards, AppSwitch, AppRead, AppList, AppServe
<1>3. ASSUME FormPost \/ FormStore \/ FormDone \/ LocalConnect \/ Save \/ Select PROVE torn' = torn
  BY <1>3 DEF FormPost, FormStore, FormDone, LocalConnect, Save, Select
<1>4. ASSUME Delete \/ DeleteStart \/ Adjust \/ AdjustWrite \/ Drop PROVE torn' = torn
  BY <1>4 DEF Delete, DeleteStart, Adjust, AdjustWrite, Drop
<1>5. ASSUME Cleared \/ Activate \/ Serve PROVE torn' = torn
  BY <1>5 DEF Cleared, Activate, Serve
<1>6. ASSUME UNCHANGED vars PROVE torn' = torn
  BY <1>6 DEF vars
<1>7. ClearLocal => torn' \in {torn, 2}
  BY DEF ClearLocal
<1>8. Crash => torn' = IF InDelete THEN (IF torn = 0 THEN 1 ELSE 2) ELSE torn
  BY DEF Crash, InDelete, Writing
<1>9. \/ torn' = torn
      \/ torn' = 2 /\ ClearLocal
      \/ Crash
  <2> SUFFICES ASSUME ~Crash, ~ClearLocal PROVE torn' = torn
    BY <1>7
  <2>1. QED
    BY <1>1, <1>2, <1>3, <1>4, <1>5, <1>6 DEF Next, Portal
<1>10. QED
  BY <1>0, <1>8, <1>9

(* A save adds a slot above the used ones only if they are all listed. *)
LEMMA SaveGaplessStep ==
  ASSUME Jobs, NoGap, SavesNamed, InSave, Commit
  PROVE  NoGap' /\ SavesNamed' /\ (Named => Named')
<1> USE DEF Jobs
<1> DEFINE S == req.slot
           P == req.conn
<1>0. /\ S \in Slots /\ S \in Nat /\ count \in Nat /\ S <= count /\ Saved \in 0..3
      /\ P.ser # None /\ ~InDelete
      /\ S = count => \A i \in Slots : i < count => Seen(slots[i])
      /\ \A i \in Slots : i < count - 1 => Seen(slots[i])
      /\ Saved >= 1 => slots[S].ser = P.ser
      /\ 0 \in Slots
  BY TypesSplit, StoreAssumption
     DEF Types, FlashOK, Saving, Slots, NoGap, SavesNamed, InSave, InDelete
<1>1. /\ UNCHANGED <<pc, req>>
      /\ \A i \in Slots \ {S} : slots'[i] = slots[i]
      /\ slots'[S].ser = P.ser
      /\ \/ count' = count
         \/ S = count /\ count' = count + 1 /\ ~Writing'
  BY <1>0, SaveCommit
<1>2. ~InDelete'
  BY <1>1 DEF InDelete, InSave
<1>3. NoGap'
  <2>1. \A i \in Slots : i < count' - 1 => Seen(slots'[i])
    BY <1>0, <1>1 DEF Seen, Slots
  <2>2. QED
    BY <1>2, <2>1 DEF NoGap
<1>4. SavesNamed'
  <2>1. Writing' => count' = count
    BY <1>1
  <2>2. InSave' /\ S = count => \A i \in Slots : i < count' => Seen(slots'[i])
    BY <1>0, <1>1, <2>1 DEF InSave, Seen
  <2>3. QED
    BY <1>0, <1>1, <2>1, <2>2 DEF SavesNamed, InSave
<1>5. ASSUME Named PROVE Named'
  <2> SUFFICES ASSUME NEW i \in Slots, i < count', slots'[i].ser = None
               PROVE  count' = 1 /\ slots'[0].host = None
    BY DEF Named
  <2>1. i # S
    BY <1>0, <1>1
  <2>2. i < count /\ slots'[i] = slots[i]
    BY <1>0, <1>1, <2>1 DEF Slots
  <2>3. count = 1 /\ slots[0].host = None /\ i = 0
    BY <1>0, <1>5, <2>2 DEF Named, Slots
  <2>4. S = 0 \/ S = count
    BY <1>0, <2>3
  <2>5. S # count
    BY <1>0, <2>2, <2>3 DEF Seen
  <2>6. QED
    BY <2>1, <2>3, <2>4, <2>5
<1>6. QED
  BY <1>3, <1>4, <1>5

(* A migration makes one slot. *)
LEMMA MigrateGaplessStep ==
  ASSUME Jobs, NoGap, SavesNamed, InMigration, Commit
  PROVE  NoGap' /\ SavesNamed' /\ (Named => Named')
<1> USE DEF Jobs
<1>0. /\ Left \in 0..5 /\ count = (IF Left <= 1 THEN 1 ELSE 0)
      /\ ~InSave /\ ~InDelete
  BY DEF Migrating, InMigration, InSave, InDelete
<1>1. /\ UNCHANGED <<pc, req>>
      /\ Left \in 3..5 => count' = 0
      /\ Left = 2 => slots' = slots /\ count' = 1 /\ slots[0] = OldProfile
      /\ Left <= 1 => slots' = slots /\ count' = count
  BY <1>0, MigrateCommit
<1>2. ~InSave' /\ ~InDelete'
  BY <1>0, <1>1 DEF InSave, InDelete, InMigration
<1>3. count' \in {0, 1}
  BY <1>0, <1>1
<1>4. NoGap' /\ SavesNamed'
  <2>1. \A i \in Slots : ~(i < count' - 1)
    <3> SUFFICES ASSUME NEW i \in Slots PROVE ~(i < count' - 1)
      OBVIOUS
    <3>1. i \in Nat /\ ~(i < 0) /\ ~(i < 0 - 1)
      BY StoreAssumption DEF Slots
    <3>2. CASE count' = 0
      BY <3>1, <3>2
    <3>3. CASE count' = 1
      BY <3>1, <3>3
    <3>4. QED
      BY <1>3, <3>2, <3>3
  <2>2. QED
    BY <1>2, <2>1 DEF NoGap, SavesNamed
<1>5. ASSUME Named PROVE Named'
  <2>1. CASE Left \in 3..5
    BY <1>1, <2>1 DEF Named, Slots
  <2>2. CASE Left = 2
    <3>1. OldProfile.ser # None \/ OldProfile.host = None
      BY TypesSplit, StoreAssumption DEF Types, FlashOK, OldProfile
    <3>2. QED
      BY <1>1, <2>2, <3>1 DEF Named, Slots
  <2>3. CASE Left <= 1
    BY <1>0, <1>1, <1>5, <2>3 DEF Named
  <2>4. QED
    BY <1>0, <2>1, <2>2, <2>3
<1>6. QED
  BY <1>4, <1>5

(* A delete opens a gap at the hole only, and ends with the hole at the end. *)
LEMMA DeleteGaplessStep ==
  ASSUME Jobs, NoGap, InDelete, Commit
  PROVE  NoGap' /\ SavesNamed' /\ (Named => Named')
<1> USE DEF Jobs
<1>0. /\ count \in Nat /\ count <= MaxProfiles /\ MaxProfiles \in Nat
      /\ Hole \in Slots /\ Hole \in Nat /\ Hole < count
      /\ \A i \in Slots :
           (i < Hole /\ i < count - 2) \/ (i > Hole /\ i < count - 1) => Seen(slots[i])
  BY HoleIs, TypesSplit, StoreAssumption DEF Types, FlashOK, NoGap
<1>1. UNCHANGED <<pc, req>>
  BY DeleteCommit
<1>2. SavesNamed'
  BY <1>1 DEF SavesNamed, InSave, InDelete
<1>n. Named => \A i \in Slots : i < count /\ (i # Hole \/ i # count - 1) =>
                  slots[i].ser # None
  <2> SUFFICES ASSUME Named, NEW i \in Slots, i < count, i # Hole \/ i # count - 1
               PROVE  slots[i].ser # None
    OBVIOUS
  <2>1. count # 1
    BY <1>0 DEF Slots
  <2>2. QED
    BY <2>1 DEF Named
<1>3. CASE Done = Total
  <2>1. slots' = slots /\ Hole = count - 1 /\ count' = count - 1 /\ ~Writing'
    BY <1>3, DeleteCommit
  <2>2. NoGap'
    BY <1>0, <2>1 DEF NoGap, InDelete, Slots
  <2>3. Named => Named'
    BY <1>0, <1>n, <2>1 DEF Named, Slots
  <2>4. QED
    BY <1>2, <2>2, <2>3
<1>4. CASE Done # Total
  <2>1. /\ InDelete' /\ count' = count /\ \A i \in Slots \ {Hole} : slots'[i] = slots[i]
        /\ \/ /\ Hole' = Hole
              /\ \/ Hole = count - 1
                 \/ slots'[Hole].ser \in {slots[Hole].ser, slots[Hole + 1].ser}
           \/ /\ Hole' = Hole + 1 /\ Hole < count - 1
              /\ slots'[Hole] = slots[Hole + 1]
    BY <1>4, DeleteCommit
  <2>2. Hole < count - 1 => Hole + 1 \in Slots
    BY <1>0 DEF Slots
  <2>3. NoGap'
    <3> SUFFICES ASSUME NEW i \in Slots, (i < Hole' /\ i < count - 2) \/ (i > Hole' /\ i < count - 1)
                 PROVE  Seen(slots'[i])
      BY <2>1 DEF NoGap
    <3>1. CASE i # Hole
      BY <1>0, <2>1, <3>1 DEF Slots
    <3>2. CASE i = Hole
      <4>1. Hole' = Hole + 1 /\ slots'[Hole] = slots[Hole + 1] /\ Hole < count - 2
        BY <1>0, <2>1, <3>2
      <4>2. QED
        BY <1>0, <2>2, <3>2, <4>1
    <3>3. QED
      BY <3>1, <3>2
  <2>4. ASSUME Named PROVE Named'
    <3> SUFFICES ASSUME NEW i \in Slots, i < count, ~(i = Hole' /\ i = count - 1)
                 PROVE  slots'[i].ser # None
      BY <2>1 DEF Named
    <3>1. CASE i # Hole
      BY <1>n, <2>1, <2>4, <3>1
    <3>2. CASE i = Hole
      <4>1. Hole < count - 1
        BY <1>0, <2>1, <3>2
      <4>2. slots'[Hole].ser \in {slots[Hole].ser, slots[Hole + 1].ser}
        BY <1>0, <2>1, <4>1
      <4>3. slots[Hole].ser # None /\ slots[Hole + 1].ser # None
        BY <1>0, <1>n, <2>2, <2>4, <4>1
      <4>4. QED
        BY <3>2, <4>2, <4>3
    <3>3. QED
      BY <3>1, <3>2
  <2>5. QED
    BY <1>2, <2>3, <2>4
<1>5. QED
  BY <1>3, <1>4

(* The handlers that save choose their slot so. *)
LEMMA NotesNamed ==
  ASSUME Jobs, ~Writing, queue' # <<>>, torn' < 2,
         LocalConnect \/ Save \/ ClearLocal \/ FormStore
  PROVE  SavesNamed'
<1> USE DEF Jobs
<1>0. /\ count \in 0..MaxProfiles /\ count \in Nat /\ MaxProfiles \in Nat
      /\ UNCHANGED <<slots, count>>
  BY Starters, StoreAssumption, TypesSplit DEF Types, FlashOK
<1>1. \A i \in Listed : i < count /\ i # count
  BY <1>0 DEF Listed, Slots
<1>s. ASSUME NEW s, SlotOf(s) = count PROVE \A i \in Slots : i < count => Seen(slots[i])
  <2>1. Cardinality(Listed) = count
    BY <1>1, <1>s, SlotOfIs DEF Types
  <2>2. QED
    BY <1>0, <2>1, ListedCount DEF Listed, Seen
<1>2. CASE LocalConnect
  <2>1. PICK f \in Forms, configures \in BOOLEAN :
          Working("connect", SlotOf(Merged(f).ser), Merged(f), configures)
    BY <1>2 DEF LocalConnect
  <2>2. req'.slot = SlotOf(Merged(f).ser) /\ req'.conn = Merged(f)
    BY <2>1 DEF Working
  <2>3. Merged(f).ser # None
    BY DEF Merged, Forms, Profiles
  <2>4. QED
    BY <1>0, <1>s, <2>2, <2>3 DEF SavesNamed
<1>3. CASE Save
  <2>1. PICK f \in Forms : req'.slot = SlotOf(f.ser) /\ req'.conn.ser = f.ser
    BY <1>3 DEF Save, Working
  <2>2. f.ser # None
    BY DEF Forms
  <2>3. QED
    BY <1>0, <1>s, <2>1, <2>2 DEF SavesNamed
<1>4. CASE ClearLocal
  <2>1. PICK i \in Listed :
          /\ Working("clear", i, [slots[i] EXCEPT !.host = None, !.acc = None], FALSE)
          /\ torn' = IF slots[i].ser = None THEN 2 ELSE torn
    BY <1>4 DEF ClearLocal
  <2>2. slots[i].ser # None /\ slots[i] \in Profiles
    BY <2>1, ReadsTyped DEF Types, Listed
  <2>3. req'.slot = i /\ req'.conn.ser = slots[i].ser
    BY <2>1, <2>2 DEF Working, Profiles
  <2>4. QED
    BY <1>0, <1>1, <2>2, <2>3 DEF SavesNamed
<1>5. CASE FormStore
  <2>1. req.conn.ser # None /\ req'.conn = req.conn /\ (req'.slot \in Listed \/ req'.slot = 0)
    BY <1>5, FormTyped DEF FormStore
  <2>2. req'.slot = count => count = 0
    BY <1>1, <2>1
  <2>3. QED
    BY <1>0, <2>1, <2>2 DEF SavesNamed, Slots
<1>6. QED
  BY <1>2, <1>3, <1>4, <1>5

(* The same for every step. *)
LEMMA GaplessStep ==
  ASSUME Jobs, Gapless, [Next]_vars
  PROVE  Gapless'
<1> SUFFICES ASSUME torn' < 2 PROVE NoGap' /\ SavesNamed' /\ (torn' = 0 => Named')
  BY DEF Gapless
<1> USE DEF Jobs
<1>0. /\ NoGap /\ SavesNamed /\ (torn' = 0 => Named)
      /\ Crash /\ InDelete => Named
      /\ count \in Nat /\ MaxProfiles \in Nat
  BY TornGrows, TypesSplit, StoreAssumption DEF Gapless, Types, FlashOK
<1>1. CASE Writing
  <2>1. CASE Commit
    <3>1. InSave \/ InMigration \/ InDelete
      BY <1>1 DEF Types, Phase, InSave, InMigration, InDelete
    <3>2. QED
      BY <1>0, <2>1, <3>1, SaveGaplessStep, MigrateGaplessStep, DeleteGaplessStep
  <2>2. CASE Crash
    <3>1. ~Writing' /\ UNCHANGED <<slots, count>>
      BY <2>2 DEF Crash, Writing, flash
    <3>2. \A i \in Slots : i < count - 1 => Seen(slots[i])
      <4>1. CASE InDelete
        BY <1>0, <2>2, <4>1 DEF Named, Seen, Slots
      <4>2. CASE ~InDelete
        BY <1>0, <4>2 DEF NoGap
      <4>3. QED
        BY <4>1, <4>2
    <3>3. NoGap' /\ SavesNamed'
      BY <3>1, <3>2 DEF NoGap, SavesNamed, InSave, InDelete
    <3>4. torn' = 0 => ~InDelete
      <4>1. InDelete => torn' # 0
        BY <2>2, TypesSplit DEF Crash, InDelete, Writing, Types, HistoryOK
      <4>2. QED
        BY <4>1
    <3>5. torn' = 0 => Named'
      BY <1>0, <3>1, <3>4 DEF Named
    <3>6. QED
      BY <3>3, <3>5
  <2>3. CASE UNCHANGED <<slots, count, legacy, queue, pc, req>>
    <3>1. Hole' = Hole /\ InDelete' = InDelete /\ InSave' = InSave
      BY <2>3 DEF Hole, Done, Total, InDelete, InSave, Writing
    <3>2. QED
      BY <1>0, <2>3, <3>1 DEF NoGap, SavesNamed, Named
  <2>4. QED
    BY <1>1, <2>1, <2>2, <2>3, Busy
<1>2. CASE ~Writing
  <2>0. UNCHANGED <<slots, count>>
    BY <1>2, Waiting
  <2>1. /\ \A i \in Slots : i < count - 1 => Seen(slots[i])
        /\ torn' = 0 => \A i \in Slots : i < count =>
             slots[i].ser # None \/ (count = 1 /\ slots[0].host = None)
    BY <1>0, <1>2 DEF NoGap, Named, InDelete
  <2>2. NoGap'
    BY <1>0, <2>0, <2>1 DEF NoGap, Slots
  <2>3. torn' = 0 => Named'
    BY <2>0, <2>1 DEF Named
  <2>4. SavesNamed'
    <3>1. CASE queue' = <<>>
      BY <3>1 DEF SavesNamed, InSave, Writing
    <3>2. CASE Boot \/ DeleteStart
      BY <3>2 DEF Boot, DeleteStart, SavesNamed, InSave
    <3>3. QED
      BY <1>2, <3>1, <3>2, NotesNamed, Waiting
  <2>5. QED
    BY <2>2, <2>3, <2>4
<1>3. QED
  BY <1>1, <1>2

(* UpsertNeverClobbers as a formula about one step. *)
UpsertStep ==
  (queue = <<>> /\ queue' # <<>> /\ req'.op \in {"connect", "save"} /\ torn < 2) =>
    (req'.slot \in Listed => slots[req'.slot].ser \in {None, req'.conn.ser})

(* With no gap the number of the listed slots is no listed slot. *)
LEMMA UpsertSafe == ASSUME Jobs, Gapless, [Next]_vars PROVE UpsertStep
<1> SUFFICES ASSUME ~Writing, queue' # <<>>, req'.op \in {"connect", "save"}, torn < 2,
                    req'.slot \in Listed
             PROVE  slots[req'.slot].ser = req'.conn.ser
  BY DEF UpsertStep, Writing
<1> USE DEF Jobs
<1>1. LocalConnect \/ Save
  <2>1. ~Boot
    BY DEF Boot, Types, Phase, NoRequest
  <2>2. ~FormStore
    BY FormTyped
  <2>3. ~DeleteStart
    BY DEF DeleteStart, Types, Phase
  <2>4. ~ClearLocal
    BY RequestTyped
  <2>5. QED
    BY <2>1, <2>2, <2>3, <2>4, Waiting
<1>2. req'.slot = SlotOf(req'.conn.ser)
  <2>1. CASE LocalConnect
    BY <2>1 DEF LocalConnect, Working
  <2>2. CASE Save
    BY <2>2 DEF Save, Working
  <2>3. QED
    BY <1>1, <2>1, <2>2
<1>3. \A i \in Slots : i < count - 1 => i \in Listed
  <2>1. count \in Nat
    BY TypesSplit DEF Types, FlashOK
  <2>2. QED
    BY <2>1 DEF Gapless, NoGap, InDelete, Listed, Seen, Slots
<1>4. Cardinality(Listed) \notin Listed
  BY <1>3, ListedCount, TypesSplit DEF Types, FlashOK
<1>5. QED
  BY <1>2, <1>4, SlotOfIs DEF Types

(* Connecting or saving a new printer never takes the slot of another one, as long as slots *)
(* have not lost their serials twice.                                                       *)
THEOREM UpsertTakesNoUsedSlot == Spec => UpsertNeverClobbers
<1>1. Init => Gapless
  <2> SUFFICES ASSUME Init PROVE NoGap /\ SavesNamed /\ Named
    BY DEF Gapless
  <2>1. \A p \in Printers : WithLocal(p).ser # None /\ CloudOnly(p).ser # None
    BY StoreAssumption DEF WithLocal, CloudOnly, Empty
  <2>2. ~Writing /\ \A i \in Slots : i < count => slots[i].ser # None
    <3>1. ASSUME NEW i \in Slots, i < count PROVE slots[i].ser # None
      <4>1. slots[i] # Empty
        BY <3>1, StoreAssumption DEF Init, Slots
      <4>2. slots[i] \in {WithLocal(p) : p \in Printers} \cup {CloudOnly(p) : p \in Printers}
        BY <4>1 DEF Init
      <4>3. QED
        BY <2>1, <4>2
    <3>2. QED
      BY <3>1 DEF Init, Writing
  <2>3. \A i \in Slots : i < count - 1 => i < count
    BY StoreAssumption DEF Init, Slots
  <2>4. QED
    BY <2>2, <2>3 DEF NoGap, SavesNamed, Named, InDelete, InSave, Seen
<1>2. Jobs /\ Gapless /\ [Next]_vars => Gapless' /\ UpsertStep
  BY GaplessStep, UpsertSafe
<1>3. QED
  BY JobsInit, JobsStep, <1>1, <1>2, PTL DEF Spec, UpsertNeverClobbers, UpsertStep
=============================================================================

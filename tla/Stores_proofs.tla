---------------------------- MODULE Stores_proofs ----------------------------
(***************************************************************************)
(* The report cache keeps the promise of FreshReads, shares its loads,     *)
(* wakes every caller and stays within its cap, for any keys, callers,     *)
(* handlers and values of the configuration and the bounds.  The settings  *)
(* cache, the limiter with its nonces, and the lockout do what the stores  *)
(* run checks, for any fields, callers, keys, addresses, attempts, windows,*)
(* ladders and mixes of calls; with the report cache, so does the whole of *)
(* MCStores.                                                               *)
(***************************************************************************)
EXTENDS MCStores, TLAPS, FiniteSetTheorems, SequenceTheorems

Loads == [pc: {"none", "issued", "read", "failed", "published"},
          key: Keys, startedAt: Nat, issued: Nat, ver: Nat]

Calls == [pc: {"idle", "waiting", "answered", "failed"},
          on: Callers \cup {NoLoad}, floor: Nat, began: Nat, ver: Nat]

----------------------------------------------------------------------------
(* Sequences of keys                                                       *)

LEMMA RangeType ==
  ASSUME NEW s \in Seq(Keys)
  PROVE  Range(s) = {s[i] : i \in 1 .. Len(s)} /\ Range(s) \subseteq Keys
BY DEF Range

LEMMA RangeWithin ==
  ASSUME NEW s \in Seq(Keys), NEW S, \A i \in 1 .. Len(s) : s[i] \in S
  PROVE  Range(s) \subseteq S
<1>1. Range(s) = {s[i] : i \in 1 .. Len(s)} BY RangeType
<1>2. QED BY <1>1

LEMMA SliceFacts ==
  ASSUME NEW s \in Seq(Keys), NEW m \in 1 .. Len(s) + 1, NEW n \in 0 .. Len(s), m <= n + 1
  PROVE  /\ SubSeq(s, m, n) \in Seq(Keys)
         /\ Len(SubSeq(s, m, n)) = n - m + 1
         /\ \A i \in 1 .. n - m + 1 : SubSeq(s, m, n)[i] = s[m + i - 1]
<1>1. m \in Int /\ n \in Int /\ \A i \in m .. n : s[i] \in Keys
  OBVIOUS
<1>2. QED BY <1>1, SubSeqProperties

LEMMA JoinFacts ==
  ASSUME NEW s \in Seq(Keys), NEW t \in Seq(Keys)
  PROVE  /\ s \o t \in Seq(Keys)
         /\ Len(s \o t) = Len(s) + Len(t)
         /\ \A i \in 1 .. Len(s) + Len(t) :
              (s \o t)[i] = IF i <= Len(s) THEN s[i] ELSE t[i - Len(s)]
BY ConcatProperties

\* What deleting a key from a sequence that lists each key once leaves.
LEMMA WithoutFacts ==
  ASSUME NEW s \in Seq(Keys), NEW k \in Keys,
         \A i, j \in 1 .. Len(s) : s[i] = s[j] => i = j
  PROVE  /\ Without(s, k) \in Seq(Keys)
         /\ Range(Without(s, k)) = Range(s) \ {k}
         /\ Len(Without(s, k)) <= Len(s)
         /\ k \in Range(s) => Len(Without(s, k)) = Len(s) - 1
         /\ \A i, j \in 1 .. Len(Without(s, k)) :
              Without(s, k)[i] = Without(s, k)[j] => i = j
<1>1. CASE k \notin Range(s)
  BY <1>1 DEF Without
<1>2. CASE k \in Range(s)
  <2> DEFINE n == CHOOSE i \in 1 .. Len(s) : s[i] = k
             t == SubSeq(s, 1, n - 1) \o SubSeq(s, n + 1, Len(s))
  <2>1. \E i \in 1 .. Len(s) : s[i] = k
    BY <1>2, RangeType
  <2>2. n \in 1 .. Len(s) /\ s[n] = k
    BY <2>1
  <2>3. Without(s, k) = t
    BY <1>2 DEF Without
  <2> HIDE DEF n
  <2>4. /\ t \in Seq(Keys) /\ Len(t) = Len(s) - 1
        /\ \A i \in 1 .. Len(t) : t[i] = IF i < n THEN s[i] ELSE s[i + 1]
    <3> DEFINE a == SubSeq(s, 1, n - 1)
               b == SubSeq(s, n + 1, Len(s))
    <3>1. /\ a \in Seq(Keys) /\ Len(a) = n - 1
          /\ \A i \in 1 .. n - 1 : a[i] = s[i]
      BY <2>2, SliceFacts
    <3>2. n + 1 \in 1 .. Len(s) + 1 /\ Len(s) \in 0 .. Len(s)
      BY <2>2
    <3>3. /\ b \in Seq(Keys) /\ Len(b) = Len(s) - n
          /\ \A i \in 1 .. Len(s) - n : b[i] = s[n + i]
      <4>1. /\ b \in Seq(Keys) /\ Len(b) = Len(s) - (n + 1) + 1
            /\ \A i \in 1 .. Len(s) - (n + 1) + 1 : b[i] = s[(n + 1) + i - 1]
        BY <3>2, SliceFacts
      <4>2. QED BY <4>1, <2>2
    <3> HIDE DEF a, b
    <3>4. /\ a \o b \in Seq(Keys) /\ Len(a \o b) = Len(s) - 1
          /\ \A i \in 1 .. Len(s) - 1 : (a \o b)[i] = IF i <= n - 1 THEN a[i] ELSE b[i - (n - 1)]
      <4>1. /\ a \o b \in Seq(Keys) /\ Len(a \o b) = Len(a) + Len(b)
            /\ \A i \in 1 .. Len(a) + Len(b) :
                 (a \o b)[i] = IF i <= Len(a) THEN a[i] ELSE b[i - Len(a)]
        BY <3>1, <3>3, JoinFacts
      <4>2. Len(a) = n - 1 /\ Len(a) + Len(b) = Len(s) - 1
        BY <2>2, <3>1, <3>3
      <4>3. QED BY <4>1, <4>2
    <3>5. ASSUME NEW i \in 1 .. Len(s) - 1
          PROVE  (a \o b)[i] = IF i < n THEN s[i] ELSE s[i + 1]
      BY <2>2, <3>1, <3>3, <3>4
    <3>6. QED BY <3>4, <3>5 DEF a, b
  <2> HIDE DEF t
  <2>5. Range(t) \subseteq Range(s) \ {k}
    <3>1. ASSUME NEW i \in 1 .. Len(t) PROVE t[i] \in Range(s) \ {k}
      <4> DEFINE j == IF i < n THEN i ELSE i + 1
      <4>1. j \in 1 .. Len(s) /\ j # n /\ t[i] = s[j]
        BY <2>2, <2>4
      <4>2. QED BY <4>1, <2>2, RangeType
    <3>2. QED BY <3>1, <2>4, RangeType
  <2>6. Range(s) \ {k} \subseteq Range(t)
    <3>1. ASSUME NEW j \in 1 .. Len(s), s[j] # k PROVE s[j] \in Range(t)
      <4> DEFINE i == IF j < n THEN j ELSE j - 1
      <4>1. i \in 1 .. Len(t) /\ t[i] = s[j]
        BY <3>1, <2>2, <2>4
      <4>2. QED BY <4>1, <2>4, RangeType
    <3>2. QED BY <3>1, RangeType
  <2>7. \A i, j \in 1 .. Len(t) : t[i] = t[j] => i = j
    BY <2>2, <2>4
  <2>8. QED BY <2>3, <2>4, <2>5, <2>6, <2>7
<1>3. QED BY <1>1, <1>2

Distinct(s) == \A i, j \in 1 .. Len(s) : s[i] = s[j] => i = j

\* A slice of a sequence that lists each key once.
LEMMA SliceKeeps ==
  ASSUME NEW s \in Seq(Keys), Distinct(s),
         NEW m \in 1 .. Len(s) + 1, NEW n \in 0 .. Len(s), m <= n + 1
  PROVE  Distinct(SubSeq(s, m, n)) /\ Range(SubSeq(s, m, n)) \subseteq Range(s)
<1> DEFINE t == SubSeq(s, m, n)
<1>1. /\ t \in Seq(Keys) /\ Len(t) = n - m + 1
      /\ \A i \in 1 .. n - m + 1 : t[i] = s[m + i - 1]
  BY SliceFacts
<1> HIDE DEF t
<1>2. ASSUME NEW i \in 1 .. Len(t)
      PROVE  m + i - 1 \in 1 .. Len(s) /\ t[i] = s[m + i - 1]
  BY <1>1
<1>3. Distinct(t)
  <2>1. SUFFICES ASSUME NEW i \in 1 .. Len(t), NEW j \in 1 .. Len(t), t[i] = t[j]
                 PROVE  i = j
    BY DEF Distinct
  <2>2. m + i - 1 = m + j - 1 BY <1>2, <2>1 DEF Distinct
  <2>3. QED BY <2>2
<1>4. Range(t) \subseteq Range(s)
  <2>1. \A i \in 1 .. Len(t) : t[i] \in Range(s)
    BY <1>2, RangeType
  <2>2. QED BY <1>1, <2>1, RangeWithin
<1>5. QED BY <1>3, <1>4 DEF t

LEMMA AppendFacts ==
  ASSUME NEW s \in Seq(Keys), NEW k \in Keys, Distinct(s), k \notin Range(s)
  PROVE  /\ Append(s, k) \in Seq(Keys) /\ Distinct(Append(s, k))
         /\ Len(Append(s, k)) = Len(s) + 1
         /\ Range(Append(s, k)) = Range(s) \cup {k}
<1> DEFINE t == Append(s, k)
<1>1. /\ t \in Seq(Keys) /\ Len(t) = Len(s) + 1 /\ t[Len(s) + 1] = k
      /\ \A i \in 1 .. Len(s) : t[i] = s[i]
  BY AppendProperties
<1> HIDE DEF t
<1>2. \A i \in 1 .. Len(s) : s[i] # k
  BY RangeType
<1>3. Distinct(t)
  BY <1>1, <1>2 DEF Distinct
<1>4. Range(t) = Range(s) \cup {k}
  BY <1>1, RangeType
<1>5. QED BY <1>1, <1>3, <1>4 DEF t

\* The sweep drops a prefix of the order.
LEMMA SweepFacts ==
  ASSUME order \in Seq(Keys), Distinct(order)
  PROVE  /\ AfterSweep \in Seq(Keys) /\ Distinct(AfterSweep)
         /\ Range(AfterSweep) \subseteq Range(order)
<1> DEFINE n == Cardinality(Swept)
<1>1. IsFiniteSet(1 .. Len(order)) /\ Cardinality(1 .. Len(order)) = Len(order)
  <2>1. 1 \in Int /\ Len(order) \in Nat OBVIOUS
  <2>2. /\ IsFiniteSet(1 .. Len(order))
        /\ Cardinality(1 .. Len(order)) = IF 1 > Len(order) THEN 0 ELSE Len(order) - 1 + 1
    BY <2>1, FS_Interval
  <2>3. QED BY <2>1, <2>2
<1>2. Swept \in SUBSET (1 .. Len(order))
  BY DEF Swept
<1>3. n \in 0 .. Len(order)
  <2>1. IsFiniteSet(Swept) /\ Cardinality(Swept) <= Cardinality(1 .. Len(order))
    BY <1>1, <1>2, FS_Subset
  <2>2. Cardinality(Swept) \in Nat
    BY <2>1, FS_CardinalityType
  <2>3. QED BY <1>1, <2>1, <2>2
<1>4. AfterSweep = SubSeq(order, n + 1, Len(order))
  BY DEF AfterSweep
<1> HIDE DEF n
<1>5. n + 1 \in 1 .. Len(order) + 1 /\ Len(order) \in 0 .. Len(order) /\ n + 1 <= Len(order) + 1
  BY <1>3
<1>6. QED BY <1>4, <1>5, SliceFacts, SliceKeeps

\* What publish leaves of the order.
LEMMA PublishFacts ==
  ASSUME order \in Seq(Keys), Distinct(order), cap \in Nat \ {0}, NEW k \in Keys
  PROVE  LET kept == OrderAfterPublish(k) IN
         /\ kept \in Seq(Keys) /\ Distinct(kept) /\ Len(kept) <= cap
         /\ Range(kept) \subseteq Range(order) \cup {k}
<1> DEFINE base == Without(AfterSweep, k)
           full == Append(base, k)
<1>1. /\ base \in Seq(Keys) /\ Distinct(base)
      /\ Range(base) = Range(AfterSweep) \ {k}
      /\ Range(AfterSweep) \subseteq Range(order)
  BY SweepFacts, WithoutFacts DEF Distinct
<1> HIDE DEF base
<1>2. /\ full \in Seq(Keys) /\ Distinct(full)
      /\ Range(full) \subseteq Range(order) \cup {k}
  BY <1>1, AppendFacts
<1>3. OrderAfterPublish(k) = Trim(full)
  BY DEF OrderAfterPublish, base
<1> HIDE DEF full
<1>4. CASE Len(full) > cap
  <2> DEFINE m == Len(full) - cap + 1
  <2>1. /\ m \in 1 .. Len(full) + 1 /\ Len(full) \in 0 .. Len(full)
        /\ m <= Len(full) + 1 /\ Len(full) - m + 1 = cap
    BY <1>2, <1>4
  <2>2. Trim(full) = SubSeq(full, m, Len(full))
    BY <1>4 DEF Trim
  <2> HIDE DEF m
  <2>3. SubSeq(full, m, Len(full)) \in Seq(Keys) /\ Len(SubSeq(full, m, Len(full))) = cap
    BY <1>2, <2>1, SliceFacts
  <2>4. Distinct(SubSeq(full, m, Len(full))) /\ Range(SubSeq(full, m, Len(full))) \subseteq Range(full)
    BY <1>2, <2>1, SliceKeeps
  <2>5. QED BY <1>2, <1>3, <2>2, <2>3, <2>4
<1>5. CASE ~(Len(full) > cap)
  BY <1>2, <1>3, <1>5 DEF Trim
<1>6. QED BY <1>4, <1>5
----------------------------------------------------------------------------
(* Types, and the agreement of the store with its order                    *)

OrderInv ==
  Distinct(order) /\ Len(order) <= cap /\ Range(order) = Stored

Shape == TypeOK /\ OrderInv

LEMMA IdleRecords == NoLoadRec \in Loads /\ IdleCaller \in Calls
<1>1. (CHOOSE k \in Keys : TRUE) \in Keys BY ParamAssumption
<1>2. QED BY <1>1 DEF NoLoadRec, IdleCaller, Loads, Calls

LEMMA ShapeInit == Init => Shape
<1> SUFFICES ASSUME Init PROVE Shape
  OBVIOUS
<1>1. ttl \in Nat
  <2>1. PICK raw \in RawTTLs : ttl = TTLOf(raw) BY DEF Init
  <2>2. raw \in Int /\ DefaultTTL \in Nat BY ParamAssumption
  <2>3. QED BY <2>1, <2>2 DEF TTLOf
<1>2. cap \in Nat \ {0}
  <2>1. PICK raw \in RawCaps : cap = CapOf(raw) BY DEF Init
  <2>2. raw \in Int /\ DefaultCap \in Nat \ {0} BY ParamAssumption
  <2>3. QED BY <2>1, <2>2 DEF CapOf
<1>3. order = <<>> /\ order \in Seq(Keys) /\ Len(order) = 0 /\ committedAt \in Seq(Nat)
  BY DEF Init
<1>4. Range(order) = {} /\ Stored = {}
  <2>1. \A i \in 1 .. Len(order) : order[i] \in {} BY <1>3
  <2>2. Range(order) \subseteq {} BY <1>3, <2>1, RangeWithin
  <2>3. QED BY <2>2 DEF Init, Stored
<1>5. OrderInv
  BY <1>2, <1>3, <1>4 DEF OrderInv, Distinct
<1>6. load \in [Callers -> Loads] /\ caller \in [Callers -> Calls]
  BY IdleRecords DEF Init
<1>7. QED BY <1>1, <1>2, <1>3, <1>5, <1>6 DEF Init, TypeOK, Shape, Loads, Calls

\* What the steps of a call do to the callers and the loads.
LEMMA AskedType ==
  ASSUME TypeOK, NEW c \in Callers, NEW pc \in {"waiting", "answered"},
         NEW on \in Callers \cup {NoLoad}, NEW ver \in Nat, Asked(c, pc, on, ver)
  PROVE  caller' \in [Callers -> Calls]
<1> DEFINE new == [pc |-> pc, on |-> on, floor |-> told, began |-> now, ver |-> ver]
<1>1. new \in Calls BY DEF Calls, TypeOK
<1>2. caller' = [caller EXCEPT ![c] = new] BY DEF Asked
<1>3. caller \in [Callers -> Calls] BY DEF TypeOK, Calls
<1> HIDE DEF new
<1>4. QED BY <1>1, <1>2, <1>3

LEMMA NewLoadType ==
  ASSUME TypeOK, NEW c \in Callers, NEW k \in Keys, NewLoad(c, k)
  PROVE  load' \in [Callers -> Loads]
<1> DEFINE new == [pc |-> "issued", key |-> k, startedAt |-> generation,
                   issued |-> now, ver |-> 0]
<1>1. new \in Loads BY DEF Loads, TypeOK
<1>2. load' = [load EXCEPT ![c] = new] BY DEF NewLoad
<1>3. load \in [Callers -> Loads] BY DEF TypeOK, Loads
<1> HIDE DEF new
<1>4. QED BY <1>1, <1>2, <1>3

LEMMA DropShape ==
  ASSUME Shape, NEW k \in Keys, DropExpired(k)
  PROVE  /\ store' \in [Keys -> Entry \cup {NoEntry}] /\ order' \in Seq(Keys)
         /\ Distinct(order') /\ Len(order') <= cap /\ Range(order') = Stored'
<1>1. order \in Seq(Keys) /\ Distinct(order) /\ Len(order) <= cap /\ Range(order) = Stored
  BY DEF Shape, TypeOK, OrderInv
<1>2. order' = Without(order, k) /\ store' = [store EXCEPT ![k] = NoEntry]
  BY DEF DropExpired
<1>3. /\ order' \in Seq(Keys) /\ Distinct(order')
      /\ Len(order') <= Len(order) /\ Range(order') = Range(order) \ {k}
  BY <1>1, <1>2, WithoutFacts DEF Distinct
<1>4. Len(order') <= cap
  <2>1. Len(order) \in Nat /\ Len(order') \in Nat /\ cap \in Nat
    BY <1>1, <1>3 DEF Shape, TypeOK
  <2>2. QED BY <1>1, <1>3, <2>1
<1>5. store \in [Keys -> Entry \cup {NoEntry}] BY DEF Shape, TypeOK
<1>6. Stored' = Stored \ {k}
  BY <1>2, <1>5 DEF Stored
<1>7. store' \in [Keys -> Entry \cup {NoEntry}]
  BY <1>2, <1>5
<1>8. QED BY <1>1, <1>3, <1>4, <1>6, <1>7

LEMMA HitShape ==
  ASSUME Shape, NEW c \in Callers, NEW k \in Keys, Hit(c, k)
  PROVE  Shape'
<1> DEFINE rest == Without(order, k)
<1>1. order \in Seq(Keys) /\ Distinct(order) /\ Len(order) <= cap /\ Range(order) = Stored
  BY DEF Shape, TypeOK, OrderInv
<1>2. store[k] \in Entry /\ k \in Stored
  BY DEF Hit, Fresh, Stored, Shape, TypeOK
<1>3. /\ rest \in Seq(Keys) /\ Distinct(rest) /\ Range(rest) = Range(order) \ {k}
      /\ Len(rest) = Len(order) - 1
  BY <1>1, <1>2, WithoutFacts DEF Distinct
<1>4. order' = Append(rest, k)
  BY DEF Hit
<1> HIDE DEF rest
<1>5. /\ order' \in Seq(Keys) /\ Distinct(order') /\ Len(order') = Len(order)
      /\ Range(order') = Range(order)
  <2>1. k \notin Range(rest) BY <1>3
  <2>2. /\ order' \in Seq(Keys) /\ Distinct(order') /\ Len(order') = Len(rest) + 1
        /\ Range(order') = Range(rest) \cup {k}
    BY <1>3, <1>4, <2>1, AppendFacts
  <2>3. Len(order') = Len(order) BY <1>1, <1>3, <2>2
  <2>4. Range(order') = Range(order) BY <1>1, <1>2, <1>3, <2>2
  <2>5. QED BY <2>2, <2>3, <2>4
<1>6. caller' \in [Callers -> Calls]
  <2>1. Asked(c, "answered", NoLoad, store[k].ver) /\ store[k].ver \in Nat
    BY <1>2 DEF Hit, Entry
  <2>2. QED BY <2>1, AskedType DEF Shape
<1>7. UNCHANGED <<config, data, store, inflight, generation, load, now>>
  BY DEF Hit
<1>8. OrderInv'
  BY <1>1, <1>5, <1>7 DEF OrderInv, Stored, config
<1>9. TypeOK'
  BY <1>5, <1>6, <1>7 DEF TypeOK, Shape, Calls, config, data
<1>10. QED BY <1>8, <1>9 DEF Shape

LEMMA PublishShape ==
  ASSUME Shape, NEW l \in Callers, Publish(l)
  PROVE  Shape'
<1> DEFINE k == load[l].key
           kept == OrderAfterPublish(k)
<1>1. order \in Seq(Keys) /\ Distinct(order) /\ Len(order) <= cap /\ Range(order) = Stored
  BY DEF Shape, TypeOK, OrderInv
<1>2. load \in [Callers -> Loads] /\ load[l] \in Loads
  BY DEF Shape, TypeOK, Loads
<1>3. k \in Keys /\ load[l].ver \in Nat
  BY <1>2 DEF Loads
<1>4. load' \in [Callers -> Loads]
  <2>1. [load[l] EXCEPT !.pc = "published"] \in Loads BY <1>2 DEF Loads
  <2>2. load' = [load EXCEPT ![l] = [load[l] EXCEPT !.pc = "published"]]
    BY <1>2 DEF Publish
  <2>3. QED BY <1>2, <2>1, <2>2
<1>5. UNCHANGED <<config, data, inflight, generation, caller, now>>
  BY DEF Publish
<1>6. /\ store' \in [Keys -> Entry \cup {NoEntry}] /\ order' \in Seq(Keys)
      /\ Distinct(order') /\ Len(order') <= cap /\ Range(order') = Stored'
  <2>1. CASE Publishes(l)
    <3> DEFINE new == [ver |-> load[l].ver, expiresAt |-> now + ttl]
    <3>1. /\ order' = kept
          /\ store' = [x \in Keys |-> IF x \notin Range(kept) THEN NoEntry
                                     ELSE IF x = k THEN new ELSE store[x]]
      BY <2>1 DEF Publish
    <3>2. new \in Entry
      BY <1>3 DEF Entry, Shape, TypeOK
    <3>3. /\ kept \in Seq(Keys) /\ Distinct(kept) /\ Len(kept) <= cap
          /\ Range(kept) \subseteq Range(order) \cup {k}
      BY <1>1, <1>3, PublishFacts DEF Shape, TypeOK
    <3> HIDE DEF kept, k, new
    <3>4. store \in [Keys -> Entry \cup {NoEntry}]
      BY DEF Shape, TypeOK
    <3>5. \A x \in Range(kept) : x # k => store[x] # NoEntry
      BY <1>1, <3>3 DEF Stored
    <3>6. Range(kept) \subseteq Keys
      BY <3>3, RangeType
    <3>7. store' \in [Keys -> Entry \cup {NoEntry}]
      BY <3>1, <3>2, <3>4
    <3>8. Stored' = Range(kept)
      BY <3>1, <3>2, <3>5, <3>6, DistinctAssumption DEF Stored
    <3>9. QED BY <3>1, <3>3, <3>7, <3>8
  <2>2. CASE ~Publishes(l)
    <3>1. UNCHANGED <<order, store>> BY <2>2 DEF Publish
    <3>2. QED BY <1>1, <3>1 DEF Stored, Shape, TypeOK
  <2>3. QED BY <2>1, <2>2
<1>7. OrderInv'
  BY <1>5, <1>6 DEF OrderInv, config
<1>8. TypeOK'
  BY <1>4, <1>5, <1>6 DEF TypeOK, Shape, Loads, config, data
<1>9. QED BY <1>7, <1>8 DEF Shape

LEMMA SettleType ==
  ASSUME TypeOK, NEW l \in Callers, Settle(l)
  PROVE  /\ load' \in [Callers -> Loads] /\ caller' \in [Callers -> Calls]
         /\ inflight' \in [Keys -> Callers \cup {NoLoad}]
<1>1. load \in [Callers -> Loads] /\ caller \in [Callers -> Calls]
  BY DEF TypeOK, Loads, Calls
<1>2. load' \in [Callers -> Loads]
  BY <1>1, IdleRecords DEF Settle
<1>3. load[l].ver \in Nat BY <1>1 DEF Loads
<1>4. ASSUME NEW c \in Callers PROVE Settled(c, l) \in Calls
  <2>1. caller[c] \in Calls BY <1>1
  <2>2. [caller[c] EXCEPT !.pc = "failed", !.on = NoLoad] \in Calls
    BY <2>1 DEF Calls
  <2>3. [caller[c] EXCEPT !.pc = "answered", !.on = NoLoad, !.ver = load[l].ver] \in Calls
    BY <1>3, <2>1 DEF Calls
  <2>4. QED BY <2>2, <2>3 DEF Settled
<1>5. caller' = [c \in Callers |-> IF Awaits(c, l) THEN Settled(c, l) ELSE caller[c]]
  BY DEF Settle
<1>6. caller' \in [Callers -> Calls] BY <1>1, <1>4, <1>5
<1>7. inflight' \in [Keys -> Callers \cup {NoLoad}] BY DEF Settle, TypeOK
<1>8. QED BY <1>2, <1>6, <1>7

\* Every step keeps the types and the order.
LEMMA ShapeStep == Shape /\ [Next]_vars => Shape'
<1> SUFFICES ASSUME Shape, [Next]_vars PROVE Shape'
  OBVIOUS
<1>0. /\ load \in [Callers -> Loads] /\ caller \in [Callers -> Calls]
      /\ TypeOK /\ OrderInv
  BY DEF Shape, TypeOK, Loads, Calls
<1>1. ASSUME NEW c \in Callers, NEW k \in Keys, Bypass(c, k) PROVE Shape'
  <2>1. load' \in [Callers -> Loads] BY <1>0, <1>1, NewLoadType DEF Bypass
  <2>2. caller' \in [Callers -> Calls] BY <1>0, <1>1, AskedType DEF Bypass
  <2>3. UNCHANGED <<config, data, store, order, inflight, generation, now>>
    BY <1>1 DEF Bypass
  <2>4. OrderInv' BY <1>0, <2>3 DEF OrderInv, Distinct, Stored, config
  <2>5. TypeOK' BY <1>0, <2>1, <2>2, <2>3 DEF TypeOK, Loads, Calls, config, data
  <2>6. QED BY <2>4, <2>5 DEF Shape
<1>2. ASSUME NEW c \in Callers, NEW k \in Keys, Hit(c, k) PROVE Shape'
  BY <1>2, HitShape
<1>3. ASSUME NEW c \in Callers, NEW k \in Keys, Join(c, k) PROVE Shape'
  <2>1. /\ store' \in [Keys -> Entry \cup {NoEntry}] /\ order' \in Seq(Keys)
        /\ Distinct(order') /\ Len(order') <= cap /\ Range(order') = Stored'
    BY <1>3, DropShape DEF Join
  <2>2. caller' \in [Callers -> Calls]
    <3>1. inflight[k] \in Callers \cup {NoLoad} BY <1>0 DEF TypeOK
    <3>2. QED BY <1>0, <1>3, <3>1, AskedType DEF Join
  <2>3. UNCHANGED <<config, data, inflight, generation, load, now>>
    BY <1>3 DEF Join
  <2>4. OrderInv' BY <2>1, <2>3 DEF OrderInv, config
  <2>5. TypeOK' BY <1>0, <2>1, <2>2, <2>3 DEF TypeOK, Calls, config, data
  <2>6. QED BY <2>4, <2>5 DEF Shape
<1>4. ASSUME NEW c \in Callers, NEW k \in Keys, StartLoad(c, k) PROVE Shape'
  <2>1. /\ store' \in [Keys -> Entry \cup {NoEntry}] /\ order' \in Seq(Keys)
        /\ Distinct(order') /\ Len(order') <= cap /\ Range(order') = Stored'
    BY <1>4, DropShape DEF StartLoad
  <2>2. load' \in [Callers -> Loads] BY <1>0, <1>4, NewLoadType DEF StartLoad
  <2>3. caller' \in [Callers -> Calls] BY <1>0, <1>4, AskedType DEF StartLoad
  <2>4. inflight' \in [Keys -> Callers \cup {NoLoad}]
    BY <1>0, <1>4 DEF StartLoad, TypeOK
  <2>5. UNCHANGED <<config, data, generation, now>> BY <1>4 DEF StartLoad
  <2>6. OrderInv' BY <2>1, <2>5 DEF OrderInv, config
  <2>7. TypeOK'
    BY <1>0, <2>1, <2>2, <2>3, <2>4, <2>5 DEF TypeOK, Loads, Calls, config, data
  <2>8. QED BY <2>6, <2>7 DEF Shape
<1>5. ASSUME NEW l \in Callers, ReadRows(l) \/ FailLoad(l) PROVE Shape'
  <2>1. UNCHANGED <<config, data, store, order, inflight, generation, caller, now>>
    BY <1>5 DEF ReadRows, FailLoad
  <2>2. load' \in [Callers -> Loads]
    <3>1. load[l] \in Loads /\ version \in Nat BY <1>0 DEF TypeOK
    <3>2. /\ [load[l] EXCEPT !.pc = "read", !.ver = version] \in Loads
          /\ [load[l] EXCEPT !.pc = "failed"] \in Loads
      BY <3>1 DEF Loads
    <3>3. \/ load' = [load EXCEPT ![l] = [load[l] EXCEPT !.pc = "read", !.ver = version]]
          \/ load' = [load EXCEPT ![l] = [load[l] EXCEPT !.pc = "failed"]]
      BY <1>0, <1>5 DEF ReadRows, FailLoad
    <3>4. QED BY <1>0, <3>2, <3>3
  <2>3. OrderInv' BY <1>0, <2>1 DEF OrderInv, Distinct, Stored, config
  <2>4. TypeOK' BY <1>0, <2>1, <2>2 DEF TypeOK, Loads, config, data
  <2>5. QED BY <2>3, <2>4 DEF Shape
<1>6. ASSUME NEW l \in Callers, Publish(l) PROVE Shape'
  BY <1>6, PublishShape
<1>7. ASSUME NEW l \in Callers, Settle(l) PROVE Shape'
  <2>1. /\ load' \in [Callers -> Loads] /\ caller' \in [Callers -> Calls]
        /\ inflight' \in [Keys -> Callers \cup {NoLoad}]
    BY <1>0, <1>7, SettleType
  <2>2. UNCHANGED <<config, data, store, order, generation, now>> BY <1>7 DEF Settle
  <2>3. OrderInv' BY <1>0, <2>2 DEF OrderInv, Distinct, Stored, config
  <2>4. TypeOK' BY <1>0, <2>1, <2>2 DEF TypeOK, Loads, Calls, config, data
  <2>5. QED BY <2>3, <2>4 DEF Shape
<1>8. ASSUME NEW c \in Callers, Return(c) PROVE Shape'
  <2>1. UNCHANGED <<config, data, store, order, inflight, generation, load, now>>
    BY <1>8 DEF Return
  <2>2. caller' \in [Callers -> Calls] BY <1>0, <1>8, IdleRecords DEF Return
  <2>3. OrderInv' BY <1>0, <2>1 DEF OrderInv, Distinct, Stored, config
  <2>4. TypeOK' BY <1>0, <2>1, <2>2 DEF TypeOK, Calls, config, data
  <2>5. QED BY <2>3, <2>4 DEF Shape
<1>9. ASSUME CommitElsewhere \/ \E w \in Writers : Commit(w) PROVE Shape'
  <2>1. /\ UNCHANGED <<config, told, store, order, inflight, generation, load, caller, now>>
        /\ version' = version + 1 /\ committedAt' = Append(committedAt, now)
    BY <1>9 DEF Commit, CommitElsewhere, Committed
  <2>2. writer' \in [Writers -> {"idle", "committed"}]
    <3>1. writer \in [Writers -> {"idle", "committed"}] BY <1>0 DEF TypeOK
    <3>2. CASE CommitElsewhere BY <3>1, <3>2 DEF CommitElsewhere
    <3>3. ASSUME NEW w \in Writers, Commit(w)
          PROVE  writer' \in [Writers -> {"idle", "committed"}]
      BY <3>1, <3>3 DEF Commit
    <3>4. QED BY <1>9, <3>2, <3>3
  <2>3. committedAt' \in Seq(Nat)
    BY <1>0, <2>1, AppendProperties DEF TypeOK
  <2>4. OrderInv' BY <1>0, <2>1 DEF OrderInv, Distinct, Stored, config
  <2>5. TypeOK' BY <1>0, <2>1, <2>2, <2>3 DEF TypeOK, config
  <2>6. QED BY <2>4, <2>5 DEF Shape
<1>10. ASSUME NEW w \in Writers, Invalidate(w) PROVE Shape'
  <2>1. /\ UNCHANGED <<config, version, committedAt, load, caller, now>>
        /\ generation' = generation + 1 /\ told' = version
        /\ store' = [k \in Keys |-> NoEntry] /\ order' = <<>>
        /\ inflight' = [k \in Keys |-> NoLoad]
    BY <1>10 DEF Invalidate, NoneInflight
  <2>2. writer' \in [Writers -> {"idle", "committed"}]
    BY <1>0, <1>10 DEF Invalidate, TypeOK
  <2>3. order' \in Seq(Keys) /\ Len(order') = 0 /\ Stored' = {}
    BY <2>1 DEF Stored
  <2>4. Range(order') = {}
    <3>1. \A i \in 1 .. Len(order') : order'[i] \in {} BY <2>3
    <3>2. Range(order') \subseteq {} BY <2>3, <3>1, RangeWithin
    <3>3. QED BY <3>2
  <2>5. OrderInv'
    BY <1>0, <2>1, <2>3, <2>4 DEF OrderInv, Distinct, config, TypeOK
  <2>6. TypeOK' BY <1>0, <2>1, <2>2, <2>3 DEF TypeOK, config
  <2>7. QED BY <2>5, <2>6 DEF Shape
<1>11. ASSUME Tick PROVE Shape'
  <2>1. /\ UNCHANGED <<config, data, store, order, inflight, generation, load, caller>>
        /\ now' = now + 1
    BY <1>11 DEF Tick
  <2>2. OrderInv' BY <1>0, <2>1 DEF OrderInv, Distinct, Stored, config
  <2>3. TypeOK' BY <1>0, <2>1 DEF TypeOK, config, data
  <2>4. QED BY <2>2, <2>3 DEF Shape
<1>12. ASSUME UNCHANGED vars PROVE Shape'
  <2>1. OrderInv' BY <1>0, <1>12 DEF OrderInv, Distinct, Stored, vars
  <2>2. TypeOK' BY <1>0, <1>12 DEF TypeOK, vars
  <2>3. QED BY <2>1, <2>2 DEF Shape
<1>13. QED
  BY <1>1, <1>2, <1>3, <1>4, <1>5, <1>6, <1>7, <1>8, <1>9, <1>10, <1>11, <1>12
     DEF Next, Call, LoadStep

\* Every variable keeps its type.
THEOREM TypeCorrect == Spec => []TypeOK
<1>1. Shape => TypeOK BY DEF Shape
<1>2. QED BY <1>1, ShapeInit, ShapeStep, PTL DEF Spec

\* The store never holds more entries than the cap of the process, whatever the
\* keys, and its recency order lists exactly what it holds.
THEOREM StaysBounded == Spec => []StoreBounded
<1>1. Shape => StoreBounded
  <2> SUFFICES ASSUME Shape PROVE StoreBounded
    OBVIOUS
  <2> DEFINE n == Len(order)
  <2>1. /\ order \in Seq(Keys) /\ Distinct(order) /\ n <= cap /\ Range(order) = Stored
        /\ n \in Nat /\ cap \in Nat
    BY DEF Shape, TypeOK, OrderInv
  <2>2. Stored = {order[i] : i \in 1 .. n}
    BY <2>1, RangeType
  <2>3. [i \in 1 .. n |-> order[i]] \in Surjection(1 .. n, Stored)
    BY <2>1, <2>2 DEF Surjection
  <2>4. ExistsSurjection(1 .. n, Stored)
    BY <2>3 DEF ExistsSurjection
  <2>5. Cardinality(Stored) <= n
    BY <2>1, <2>4, FS_SurjCardinalityBound
  <2>6. IsFiniteSet(Stored)
    BY <2>1, <2>4, FS_NatSurjection
  <2>7. Cardinality(Stored) \in Nat
    BY <2>6, FS_CardinalityType
  <2>8. QED BY <2>1, <2>5, <2>7 DEF StoreBounded, Distinct
<1>2. QED BY <1>1, ShapeInit, ShapeStep, PTL DEF Spec
----------------------------------------------------------------------------
(* Loads, slots and versions                                               *)

Pending(l) == load[l].pc # "none"
HasRows(l) == load[l].pc \in {"read", "published"}

\* What is stored is as new as the last invalidation.
FreshInv ==
  /\ told <= version
  /\ \A k \in Keys : store[k] # NoEntry =>
       told <= store[k].ver /\ store[k].ver <= version

\* A slot holds a load of its key that no invalidation has superseded, and
\* every such load holds its slot.
SlotHeld(k) ==
  inflight[k] # NoLoad =>
    /\ ttl > 0 /\ Pending(inflight[k]) /\ load[inflight[k]].key = k
    /\ load[inflight[k]].startedAt = generation

HoldsSlot(l) ==
  Pending(l) =>
    /\ load[l].startedAt <= generation
    /\ ttl > 0 /\ load[l].startedAt = generation => inflight[load[l].key] = l

SlotInv == (\A k \in Keys : SlotHeld(k)) /\ (\A l \in Callers : HoldsSlot(l))

\* A load of the current generation has read rows as new as the last invalidation.
RowsInv ==
  \A l \in Callers : HasRows(l) =>
    /\ load[l].ver <= version
    /\ load[l].startedAt = generation => told <= load[l].ver

\* A caller waits for an unsettled load, whose rows will do for it.
WaitsWell(c) ==
  /\ caller[c].floor <= told
  /\ caller[c].pc = "waiting" <=> caller[c].on # NoLoad
  /\ caller[c].on # NoLoad =>
       /\ Pending(caller[c].on)
       /\ HasRows(caller[c].on) => caller[c].floor <= load[caller[c].on].ver

WaitInv == \A c \in Callers : WaitsWell(c)

Core == FreshInv /\ SlotInv /\ RowsInv /\ WaitInv /\ OneLoadPerKey

Types ==
  /\ load \in [Callers -> Loads] /\ caller \in [Callers -> Calls]
  /\ inflight \in [Keys -> Callers \cup {NoLoad}]
  /\ store \in [Keys -> Entry \cup {NoEntry}]
  /\ version \in Nat /\ told \in Nat /\ generation \in Nat /\ ttl \in Nat
  /\ now \in Nat /\ NoLoad \notin Callers

LEMMA ShapeTypes == Shape => Types
BY DistinctAssumption DEF Shape, TypeOK, Types, Loads, Calls

LEMMA CoreInit == Init => Core
<1> SUFFICES ASSUME Init PROVE Core
  OBVIOUS
<1>1. \A l \in Callers : load[l].pc = "none"
  BY DEF Init, NoLoadRec
<1>2. \A c \in Callers : caller[c].pc = "idle" /\ caller[c].on = NoLoad /\ caller[c].floor = 0
  BY DEF Init, IdleCaller
<1>3. QED
  BY <1>1, <1>2 DEF Init, Core, FreshInv, SlotInv, SlotHeld, HoldsSlot,
                    RowsInv, WaitInv, WaitsWell, OneLoadPerKey, Pending, HasRows

\* An idle caller starts a load.  No one waits for it yet, and it is the only
\* load of its key in this generation.
LEMMA BeginCore ==
  ASSUME Types, Core, NEW c \in Callers, NEW k \in Keys,
         StartLoad(c, k) \/ Bypass(c, k)
  PROVE  SlotInv' /\ RowsInv' /\ WaitInv' /\ OneLoadPerKey'
<1> USE DEF Types
<1>1. /\ load[c].pc = "none" /\ caller[c].pc = "idle"
      /\ UNCHANGED <<ttl, version, told, generation>>
  BY DEF StartLoad, Bypass, MayCall, config, data
<1>2. load' = [load EXCEPT ![c] = [pc |-> "issued", key |-> k,
        startedAt |-> generation, issued |-> now, ver |-> 0]]
  BY DEF StartLoad, Bypass, NewLoad
<1>3. caller' = [caller EXCEPT ![c] = [pc |-> "waiting", on |-> c,
        floor |-> told, began |-> now, ver |-> 0]]
  BY DEF StartLoad, Bypass, Asked
<1>4. \/ ttl = 0 /\ inflight' = inflight
      \/ ttl > 0 /\ inflight[k] = NoLoad /\ inflight' = [inflight EXCEPT ![k] = c]
  BY DEF StartLoad, Bypass
<1>5. /\ load'[c].pc = "issued" /\ load'[c].key = k /\ load'[c].startedAt = generation
      /\ \A l \in Callers \ {c} : load'[l] = load[l]
  BY <1>2
<1>6. /\ caller'[c].pc = "waiting" /\ caller'[c].on = c /\ caller'[c].floor = told
      /\ \A d \in Callers \ {c} : caller'[d] = caller[d]
  BY <1>3
<1>7. SlotInv'
  <2>1. \A x \in Keys : inflight[x] # c
    BY <1>1 DEF Core, SlotInv, SlotHeld, Pending
  <2>2. ASSUME NEW x \in Keys PROVE SlotHeld(x)'
    <3>1. CASE inflight'[x] = c
      <4>1. x = k /\ ttl > 0 BY <1>4, <2>1, <3>1
      <4>2. QED BY <1>1, <1>5, <3>1, <4>1 DEF SlotHeld, Pending
    <3>2. CASE inflight'[x] # c
      <4>1. inflight'[x] = inflight[x]
        BY <1>4, <3>2
      <4>2. SlotHeld(x) BY DEF Core, SlotInv
      <4>3. QED BY <1>1, <1>5, <3>2, <4>1, <4>2 DEF SlotHeld, Pending
    <3>3. QED BY <3>1, <3>2
  <2>3. ASSUME NEW l \in Callers PROVE HoldsSlot(l)'
    <3>1. CASE l = c
      BY <1>1, <1>4, <1>5, <3>1 DEF HoldsSlot
    <3>2. CASE l # c
      <4>1. load'[l] = load[l] /\ load[l].key \in Keys
        BY <1>5, <3>2 DEF Loads
      <4>2. HoldsSlot(l) BY DEF Core, SlotInv
      <4>3. QED BY <1>1, <1>4, <4>1, <4>2 DEF HoldsSlot, Pending
    <3>3. QED BY <3>1, <3>2
  <2>4. QED BY <2>2, <2>3 DEF SlotInv
<1>8. RowsInv'
  BY <1>1, <1>5 DEF Core, RowsInv, HasRows
<1>9. WaitInv'
  <2>1. \A d \in Callers : caller[d].on # c
    BY <1>1 DEF Core, WaitInv, WaitsWell, Pending
  <2>2. caller[c].on = NoLoad
    BY <1>1 DEF Core, WaitInv, WaitsWell
  <2>3. \A d \in Callers : caller[d].on \in Callers \cup {NoLoad}
    BY DEF Calls
  <2>4. told \in Nat /\ told <= told OBVIOUS
  <2>5. ASSUME NEW d \in Callers, d # c PROVE WaitsWell(d)'
    <3>1. WaitsWell(d) BY DEF Core, WaitInv
    <3>2. caller'[d] = caller[d] /\ caller[d].on # c /\ caller[d].on \in Callers \cup {NoLoad}
      BY <1>6, <2>1, <2>3, <2>5
    <3>3. QED BY <1>1, <1>5, <3>1, <3>2 DEF WaitsWell, Pending, HasRows
  <2>6. WaitsWell(c)'
    BY <1>1, <1>5, <1>6, <2>4 DEF WaitsWell, Pending, HasRows
  <2>7. QED BY <2>5, <2>6 DEF WaitInv
<1>10. OneLoadPerKey'
  <2>1. ASSUME NEW l \in Callers \ {c}, ttl > 0, Pending(l), load[l].key = k
        PROVE  load[l].startedAt # generation
    BY <1>4, <2>1 DEF Core, SlotInv, HoldsSlot
  <2>2. QED BY <1>1, <1>5, <2>1 DEF Core, OneLoadPerKey, Pending
<1>11. QED BY <1>7, <1>8, <1>9, <1>10

\* Entries may go: what is left is as new as before.
LEMMA DropFresh ==
  ASSUME Types, FreshInv, NEW k \in Keys, DropExpired(k), UNCHANGED <<version, told>>
  PROVE  FreshInv'
BY DEF Types, FreshInv, DropExpired

\* A caller joins the load in the slot: it is current, so it will do.
LEMMA JoinCore ==
  ASSUME Types, Core, NEW c \in Callers, NEW k \in Keys, Join(c, k)
  PROVE  Core'
<1> USE DEF Types
<1> DEFINE l == inflight[k]
<1>1. /\ l \in Callers /\ caller[c].pc = "idle"
      /\ UNCHANGED <<ttl, version, told, generation, inflight, load>>
  BY DEF Join, MayCall, config, data
<1>2. caller' = [caller EXCEPT ![c] = [pc |-> "waiting", on |-> l,
        floor |-> told, began |-> now, ver |-> 0]]
  BY DEF Join, Asked
<1>3. /\ Pending(l) /\ load[l].startedAt = generation
      /\ HasRows(l) => told <= load[l].ver
  BY <1>1 DEF Core, SlotInv, SlotHeld, RowsInv
<1> HIDE DEF l
<1>4. FreshInv' BY <1>1, DropFresh DEF Core, Join
<1>5. SlotInv' /\ RowsInv' /\ OneLoadPerKey'
  BY <1>1 DEF Core, SlotInv, SlotHeld, HoldsSlot, RowsInv, OneLoadPerKey, Pending, HasRows
<1>6. WaitInv'
  <2>1. WaitsWell(c)'
    BY <1>1, <1>2, <1>3 DEF WaitsWell, Pending, HasRows
  <2>2. ASSUME NEW d \in Callers, d # c PROVE WaitsWell(d)'
    <3>1. WaitsWell(d) BY DEF Core, WaitInv
    <3>2. caller'[d] = caller[d] BY <1>2, <2>2
    <3>3. QED BY <1>1, <3>1, <3>2 DEF WaitsWell, Pending, HasRows
  <2>3. QED BY <2>1, <2>2 DEF WaitInv
<1>7. QED BY <1>4, <1>5, <1>6 DEF Core

\* A load moves on; if it has read, it has read the rows of this moment.
LEMMA LoadCore ==
  ASSUME Types, Core, NEW l \in Callers, Pending(l), NEW pc \in {"read", "failed", "published"},
         NEW ver \in Nat, load' = [load EXCEPT ![l].pc = pc, ![l].ver = ver],
         pc # "failed" => ver = version \/ (HasRows(l) /\ ver = load[l].ver),
         UNCHANGED <<ttl, version, told, generation, inflight, caller>>
  PROVE  SlotInv' /\ RowsInv' /\ WaitInv' /\ OneLoadPerKey'
<1> USE DEF Types
<1>1. /\ load'[l].pc = pc /\ load'[l].key = load[l].key /\ load'[l].ver = ver
      /\ load'[l].startedAt = load[l].startedAt
      /\ \A m \in Callers \ {l} : load'[m] = load[m]
  BY DEF Loads
<1>2. \A m \in Callers :
        /\ Pending(m)' <=> Pending(m)
        /\ load'[m].key = load[m].key /\ load'[m].startedAt = load[m].startedAt
  BY <1>1 DEF Pending
<1>3. SlotInv'
  <2>1. \A k \in Keys : inflight'[k] = inflight[k] /\ inflight[k] \in Callers \cup {NoLoad}
    OBVIOUS
  <2>2. ASSUME NEW k \in Keys PROVE SlotHeld(k)'
    <3>1. SlotHeld(k) BY DEF Core, SlotInv
    <3>2. QED BY <1>2, <2>1, <3>1 DEF SlotHeld, Pending
  <2>3. ASSUME NEW m \in Callers PROVE HoldsSlot(m)'
    <3>1. HoldsSlot(m) BY DEF Core, SlotInv
    <3>2. QED BY <1>2, <3>1 DEF HoldsSlot, Pending
  <2>4. QED BY <2>2, <2>3 DEF SlotInv
<1>4. pc # "failed" => /\ ver <= version
                       /\ load[l].startedAt = generation => told <= ver
                       /\ \A c \in Callers : caller[c].on = l => caller[c].floor <= ver
  <2>1. CASE ver = version
    <3>1. told <= version BY DEF Core, FreshInv
    <3>2. \A c \in Callers : caller[c].floor <= told /\ caller[c].floor \in Nat
      BY DEF Core, WaitInv, WaitsWell, Calls
    <3>3. QED BY <2>1, <3>1, <3>2
  <2>2. CASE HasRows(l) /\ ver = load[l].ver
    BY <2>2 DEF Core, RowsInv, WaitInv, WaitsWell
  <2>3. QED BY <2>1, <2>2
<1>5. RowsInv'
  BY <1>1, <1>4 DEF Core, RowsInv, HasRows
<1>6. WaitInv'
  <2>1. ASSUME NEW c \in Callers PROVE WaitsWell(c)'
    <3>1. WaitsWell(c) /\ caller[c].on \in Callers \cup {NoLoad}
      BY DEF Core, WaitInv, Calls
    <3>2. CASE caller[c].on = l
      BY <1>1, <1>2, <1>4, <3>1, <3>2 DEF WaitsWell, HasRows, Pending
    <3>3. CASE caller[c].on # l
      BY <1>1, <3>1, <3>3 DEF WaitsWell, HasRows, Pending
    <3>4. QED BY <3>2, <3>3
  <2>2. QED BY <2>1 DEF WaitInv
<1>7. OneLoadPerKey'
  BY <1>2 DEF Core, OneLoadPerKey, Pending
<1>8. QED BY <1>3, <1>5, <1>6, <1>7

\* A load settles: nobody waits for it any more, and its slot is free.
LEMMA SettleCore ==
  ASSUME Types, Core, NEW l \in Callers, Settle(l)
  PROVE  Core'
<1> USE DEF Types
<1>1. /\ Pending(l) /\ UNCHANGED <<ttl, version, told, generation, store>>
      /\ inflight' = IF ClearsSlot(l) THEN [inflight EXCEPT ![load[l].key] = NoLoad]
                                      ELSE inflight
  BY DEF Settle, Pending, config, data
<1>2. load'[l].pc = "none" /\ \A m \in Callers \ {l} : load'[m] = load[m]
  BY DEF Settle, NoLoadRec
<1>3. \A c \in Callers :
        /\ caller[c].on = l => /\ caller'[c].pc \in {"answered", "failed"}
                               /\ caller'[c].on = NoLoad
                               /\ caller'[c].floor = caller[c].floor
        /\ caller[c].on # l => caller'[c] = caller[c]
  <2>1. ASSUME NEW c \in Callers
        PROVE  caller'[c] = IF caller[c].on = l THEN Settled(c, l) ELSE caller[c]
    BY DEF Settle, Awaits
  <2>2. ASSUME NEW c \in Callers
        PROVE  /\ Settled(c, l).pc \in {"answered", "failed"}
               /\ Settled(c, l).on = NoLoad /\ Settled(c, l).floor = caller[c].floor
    <3>1. caller[c] \in Calls OBVIOUS
    <3>2. QED BY <3>1 DEF Settled, Calls
  <2>3. QED BY <2>1, <2>2
<1>4. load[l].key \in Keys BY DEF Loads
<1>5. \A k \in Keys : inflight'[k] # l
  <2>1. ASSUME NEW k \in Keys, inflight[k] = l
        PROVE  k = load[l].key /\ ttl > 0
    BY <2>1 DEF Core, SlotInv, SlotHeld
  <2>2. QED BY <1>1, <1>4, <2>1 DEF ClearsSlot
<1>6. SlotInv'
  <2>1. ASSUME NEW k \in Keys PROVE SlotHeld(k)'
    <3>1. SlotHeld(k) BY DEF Core, SlotInv
    <3>2. inflight'[k] = NoLoad \/ (inflight'[k] = inflight[k] /\ inflight[k] \in Callers \ {l})
      BY <1>1, <1>4, <1>5
    <3>3. QED BY <1>1, <1>2, <3>1, <3>2 DEF SlotHeld, Pending
  <2>2. ASSUME NEW m \in Callers PROVE HoldsSlot(m)'
    <3>1. HoldsSlot(m) BY DEF Core, SlotInv
    <3>2. CASE m = l BY <1>2, <3>2 DEF HoldsSlot, Pending
    <3>3. CASE m # l
      <4>1. load'[m] = load[m] /\ load[m].key \in Keys BY <1>2, <3>3 DEF Loads
      <4>2. inflight[load[m].key] = m => inflight'[load[m].key] = m
        BY <1>1, <1>4, <3>3, <4>1 DEF ClearsSlot
      <4>3. QED BY <1>1, <3>1, <4>1, <4>2 DEF HoldsSlot, Pending
    <3>4. QED BY <3>2, <3>3
  <2>3. QED BY <2>1, <2>2 DEF SlotInv
<1>7. FreshInv' /\ RowsInv' /\ OneLoadPerKey'
  BY <1>1, <1>2 DEF Core, FreshInv, RowsInv, HasRows, OneLoadPerKey, Pending
<1>8. WaitInv'
  <2>1. ASSUME NEW c \in Callers PROVE WaitsWell(c)'
    <3>1. WaitsWell(c) /\ caller[c].on \in Callers \cup {NoLoad}
      BY DEF Core, WaitInv, Calls
    <3>2. CASE caller[c].on = l
      BY <1>1, <1>3, <3>1, <3>2 DEF WaitsWell
    <3>3. CASE caller[c].on # l
      BY <1>1, <1>2, <1>3, <3>1, <3>3 DEF WaitsWell, Pending, HasRows
    <3>4. QED BY <3>2, <3>3
  <2>2. QED BY <2>1 DEF WaitInv
<1>9. QED BY <1>6, <1>7, <1>8 DEF Core

\* An invalidation supersedes every load: none is of the new generation.
LEMMA InvalidateCore ==
  ASSUME Types, Core, NEW w \in Writers, Invalidate(w)
  PROVE  Core'
<1> USE DEF Types
<1>1. /\ generation' = generation + 1 /\ told' = version
      /\ store' = [k \in Keys |-> NoEntry] /\ inflight' = [k \in Keys |-> NoLoad]
      /\ UNCHANGED <<ttl, version, load, caller>>
  BY DEF Invalidate, NoneInflight, config
<1>2. \A l \in Callers : Pending(l) =>
        load[l].startedAt <= generation /\ load[l].startedAt \in Nat
  BY DEF Core, SlotInv, HoldsSlot, Loads
<1>3. \A l \in Callers : Pending(l) =>
        load[l].startedAt # generation + 1 /\ load[l].startedAt <= generation + 1
  BY <1>2
<1>4. FreshInv' BY <1>1 DEF FreshInv
<1>5. SlotInv' BY <1>1, <1>3 DEF SlotInv, SlotHeld, HoldsSlot, Pending
<1>6. RowsInv' BY <1>1, <1>3 DEF Core, RowsInv, HasRows, Pending
<1>7. \A c \in Callers : caller[c].floor <= version
  <2>1. told <= version BY DEF Core, FreshInv
  <2>2. \A c \in Callers : caller[c].floor \in Nat /\ caller[c].floor <= told
    BY DEF Core, WaitInv, WaitsWell, Calls
  <2>3. QED BY <2>1, <2>2
<1>8. WaitInv' BY <1>1, <1>7 DEF Core, WaitInv, WaitsWell, Pending, HasRows
<1>9. OneLoadPerKey' BY <1>1 DEF Core, OneLoadPerKey
<1>10. QED BY <1>4, <1>5, <1>6, <1>8, <1>9 DEF Core

\* A superseded load does not publish, so what is published is fresh.
LEMMA PublishFresh ==
  ASSUME Types, Core, NEW l \in Callers, Publish(l)
  PROVE  FreshInv'
<1> USE DEF Types
<1>1. HasRows(l) /\ UNCHANGED <<version, told>>
  BY DEF Publish, HasRows, data
<1>2. CASE Publishes(l)
  <2>1. \A k \in Keys :
          \/ store'[k] = NoEntry \/ store'[k] = store[k]
          \/ store'[k] = [ver |-> load[l].ver, expiresAt |-> now + ttl]
    BY <1>2 DEF Publish
  <2>2. told <= load[l].ver /\ load[l].ver <= version
    BY <1>1, <1>2 DEF Core, RowsInv, Publishes
  <2>3. QED BY <1>1, <2>1, <2>2 DEF Core, FreshInv
<1>3. CASE ~Publishes(l)
  BY <1>1, <1>3 DEF Publish, Core, FreshInv
<1>4. QED BY <1>2, <1>3

LEMMA CoreStep == Types /\ Core /\ [Next]_vars => Core'
<1> SUFFICES ASSUME Types, Core, [Next]_vars PROVE Core'
  OBVIOUS
<1>1. ASSUME NEW c \in Callers, NEW k \in Keys, Bypass(c, k) PROVE Core'
  <2>1. FreshInv' BY <1>1 DEF Bypass, data, Core, FreshInv
  <2>2. QED BY <1>1, <2>1, BeginCore DEF Core
<1>2. ASSUME NEW c \in Callers, NEW k \in Keys, StartLoad(c, k) PROVE Core'
  <2>1. FreshInv' BY <1>2, DropFresh DEF StartLoad, data, Core
  <2>2. QED BY <1>2, <2>1, BeginCore DEF Core
<1>3. ASSUME NEW c \in Callers, NEW k \in Keys, Join(c, k) PROVE Core'
  BY <1>3, JoinCore
<1>4. ASSUME NEW c \in Callers, NEW k \in Keys, Hit(c, k) PROVE Core'
  <2>1. UNCHANGED <<ttl, version, told, store, inflight, generation, load>>
    BY <1>4 DEF Hit, config, data
  <2>2. caller' = [caller EXCEPT ![c] = [pc |-> "answered", on |-> NoLoad,
          floor |-> told, began |-> now, ver |-> store[k].ver]]
    BY <1>4 DEF Hit, Asked
  <2>3. WaitInv'
    <3>1. told <= told BY DEF Types
    <3>2. caller \in [Callers -> Calls] BY DEF Types
    <3>3. QED BY <2>1, <2>2, <3>1, <3>2 DEF Core, WaitInv, WaitsWell, Pending, HasRows
  <2>4. QED
    BY <2>1, <2>3 DEF Core, FreshInv, SlotInv, SlotHeld, HoldsSlot, RowsInv,
                      OneLoadPerKey, Pending, HasRows
<1>5. ASSUME NEW l \in Callers, LoadStep(l), ~Settle(l) PROVE Core'
  <2>1. /\ Pending(l) /\ UNCHANGED <<ttl, version, told, generation, inflight, caller>>
        /\ ~Publish(l) => store' = store
    BY <1>5 DEF LoadStep, ReadRows, FailLoad, Publish, Pending, config, data
  <2>2. \E pc \in {"read", "failed", "published"}, ver \in Nat :
          /\ load' = [load EXCEPT ![l].pc = pc, ![l].ver = ver]
          /\ pc # "failed" => ver = version \/ (HasRows(l) /\ ver = load[l].ver)
    <3>1. load \in [Callers -> Loads] /\ version \in Nat /\ load[l].ver \in Nat
      BY DEF Types, Loads
    <3>2. CASE ReadRows(l)
      BY <3>1, <3>2 DEF ReadRows
    <3>3. CASE FailLoad(l)
      <4>1. load' = [load EXCEPT ![l].pc = "failed", ![l].ver = load[l].ver]
        BY <3>1, <3>3 DEF FailLoad, Loads
      <4>2. QED BY <3>1, <4>1
    <3>4. CASE Publish(l)
      <4>1. load' = [load EXCEPT ![l].pc = "published", ![l].ver = load[l].ver]
        BY <3>1, <3>4 DEF Publish, Loads
      <4>2. HasRows(l) BY <3>4 DEF Publish, HasRows
      <4>3. QED BY <3>1, <4>1, <4>2
    <3>5. QED BY <1>5, <3>2, <3>3, <3>4 DEF LoadStep
  <2>3. SlotInv' /\ RowsInv' /\ WaitInv' /\ OneLoadPerKey'
    BY <2>1, <2>2, LoadCore
  <2>4. FreshInv'
    <3>1. CASE Publish(l) BY <3>1, PublishFresh
    <3>2. CASE ~Publish(l) BY <2>1, <3>2 DEF Core, FreshInv
    <3>3. QED BY <3>1, <3>2
  <2>5. QED BY <2>3, <2>4 DEF Core
<1>6. ASSUME NEW l \in Callers, Settle(l) PROVE Core'
  BY <1>6, SettleCore
<1>7. ASSUME NEW c \in Callers, Return(c) PROVE Core'
  <2>1. UNCHANGED <<ttl, version, told, store, inflight, generation, load>>
    BY <1>7 DEF Return, config, data
  <2>2. \A d \in Callers : caller'[d] = caller[d] \/ caller'[d] = IdleCaller
    BY <1>7 DEF Return, Types
  <2>3. IdleCaller.pc = "idle" /\ IdleCaller.on = NoLoad /\ IdleCaller.floor = 0
    BY DEF IdleCaller
  <2>4. 0 <= told BY DEF Types
  <2>5. WaitInv'
    <3>1. ASSUME NEW d \in Callers PROVE WaitsWell(d)'
      <4>1. WaitsWell(d) BY DEF Core, WaitInv
      <4>2. CASE caller'[d] = caller[d]
        BY <2>1, <4>1, <4>2 DEF WaitsWell, Pending, HasRows
      <4>3. CASE caller'[d] = IdleCaller
        BY <2>1, <2>3, <2>4, <4>3 DEF WaitsWell
      <4>4. QED BY <2>2, <4>2, <4>3
    <3>2. QED BY <3>1 DEF WaitInv
  <2>6. QED
    BY <2>1, <2>5 DEF Core, FreshInv, SlotInv, SlotHeld, HoldsSlot, RowsInv,
                      OneLoadPerKey, Pending, HasRows
<1>8. ASSUME CommitElsewhere \/ \E w \in Writers : Commit(w) PROVE Core'
  <2>1. /\ UNCHANGED <<ttl, told, store, inflight, generation, load, caller>>
        /\ version' = version + 1
    BY <1>8 DEF Commit, CommitElsewhere, Committed, config
  <2>2. FreshInv'
    <3>1. ASSUME NEW v \in Nat, v <= version PROVE v <= version + 1
      BY <3>1 DEF Types
    <3>2. \A k \in Keys : store[k] # NoEntry => store[k].ver \in Nat
      BY DEF Types, Entry
    <3>3. QED BY <2>1, <3>1, <3>2 DEF Core, FreshInv, Types
  <2>3. RowsInv'
    <3>1. \A l \in Callers : load[l].ver \in Nat /\ version \in Nat BY DEF Types, Loads
    <3>2. QED BY <2>1, <3>1 DEF Core, RowsInv, HasRows
  <2>4. QED
    BY <2>1, <2>2, <2>3 DEF Core, SlotInv, SlotHeld, HoldsSlot, WaitInv, WaitsWell,
                            OneLoadPerKey, Pending, HasRows
<1>9. ASSUME NEW w \in Writers, Invalidate(w) PROVE Core'
  BY <1>9, InvalidateCore
<1>10. ASSUME Tick \/ UNCHANGED vars PROVE Core'
  <2>1. UNCHANGED <<ttl, version, told, store, inflight, generation, load, caller>>
    BY <1>10 DEF Tick, vars, config, data
  <2>2. QED
    BY <2>1 DEF Core, FreshInv, SlotInv, SlotHeld, HoldsSlot, RowsInv, WaitInv,
                WaitsWell, OneLoadPerKey, Pending, HasRows
<1>11. QED
  BY <1>1, <1>2, <1>3, <1>4, <1>5, <1>6, <1>7, <1>8, <1>9, <1>10 DEF Next, Call, LoadStep
----------------------------------------------------------------------------
(* Theorems                                                                *)

Inv == Shape /\ Core

LEMMA Inductive == Spec => []Inv
<1>1. Init => Inv BY ShapeInit, CoreInit DEF Inv
<1>2. Inv /\ [Next]_vars => Inv' BY ShapeStep, ShapeTypes, CoreStep DEF Inv
<1>3. QED BY <1>1, <1>2, PTL DEF Spec

\* A burst of identical calls never runs the loader twice in one generation.
THEOREM LoadsShared == Spec => []OneLoadPerKey
<1>1. Inv => OneLoadPerKey BY DEF Inv, Core
<1>2. QED BY <1>1, Inductive, PTL

\* No invalidation and no failure strands a caller that joined a load.
THEOREM NobodyStranded == Spec => []NoLostWakeup
<1>1. Inv => NoLostWakeup
  <2> SUFFICES ASSUME Inv, NEW c \in Callers, caller[c].pc = "waiting"
               PROVE  caller[c].on \in Callers /\ load[caller[c].on].pc # "none"
    BY DEF NoLostWakeup
  <2>1. WaitsWell(c) /\ caller[c].on \in Callers \cup {NoLoad}
    BY ShapeTypes DEF Inv, Core, WaitInv, Types, Calls
  <2>2. QED BY <2>1 DEF WaitsWell, Pending
<1>2. QED BY <1>1, Inductive, PTL

\* Both at once.
THEOREM SharedLoads == Spec => []LoadsAreShared
<1>1. []OneLoadPerKey /\ []NoLostWakeup => []LoadsAreShared
  BY PTL DEF LoadsAreShared
<1>2. QED BY <1>1, LoadsShared, NobodyStranded

\* The steps of the cache are steps of the promise, or invisible.
LEMMA StepRefines == Inv /\ Inv' /\ [Next]_vars => [Promise!Next]_(Promise!vars)
<1> SUFFICES ASSUME Inv, [Next]_vars PROVE [Promise!Next]_(Promise!vars)
  OBVIOUS
<1> USE DEF Types
<1>0. /\ Types /\ Core BY ShapeTypes DEF Inv
<1>1. ASSUME UNCHANGED <<version, told, caller>> PROVE UNCHANGED Promise!vars
  BY <1>1 DEF Promise!vars, view
<1>2. ASSUME NEW c \in Callers, NEW new \in Calls, caller' = [caller EXCEPT ![c] = new]
      PROVE  view' = [view EXCEPT ![c] = [pc |-> new.pc, floor |-> new.floor, ver |-> new.ver]]
  BY <1>0, <1>2 DEF view
<1>3. ASSUME NEW c \in Callers, NEW on \in Callers \cup {NoLoad},
             Asked(c, "waiting", on, 0), caller[c].pc = "idle", UNCHANGED <<version, told>>
      PROVE  Promise!Ask(c)
  <2> DEFINE new == [pc |-> "waiting", on |-> on, floor |-> told, began |-> now, ver |-> 0]
  <2>1. new \in Calls BY <1>0 DEF Calls
  <2>2. caller' = [caller EXCEPT ![c] = new] BY <1>3 DEF Asked
  <2>3. view' = [view EXCEPT ![c] = [pc |-> new.pc, floor |-> new.floor, ver |-> new.ver]]
    BY <1>2, <2>1, <2>2
  <2>4. view[c].pc = "idle" BY <1>3 DEF view
  <2>5. QED BY <1>3, <2>3, <2>4 DEF Promise!Ask
<1>4. ASSUME NEW c \in Callers, NEW k \in Keys, Call(c, k) PROVE Promise!Next
  <2>1. CASE Hit(c, k)
    <3> DEFINE new == [pc |-> "answered", on |-> NoLoad, floor |-> told,
                       began |-> now, ver |-> store[k].ver]
    <3>1. store[k] \in Entry /\ store[k] # NoEntry
      BY <1>0, <2>1, DistinctAssumption DEF Hit, Fresh
    <3>2. /\ new \in Calls /\ store[k].ver \in told .. version
      BY <1>0, <3>1 DEF Calls, Entry, Core, FreshInv
    <3>3. caller' = [caller EXCEPT ![c] = new] BY <2>1 DEF Hit, Asked
    <3>4. view' = [view EXCEPT ![c] = [pc |-> new.pc, floor |-> new.floor, ver |-> new.ver]]
      BY <1>2, <3>2, <3>3
    <3>5. view[c].pc = "idle" BY <2>1 DEF view, Hit, MayCall
    <3>6. UNCHANGED <<version, told>> BY <2>1 DEF Hit, data
    <3>7. Promise!Serve(c) BY <3>2, <3>4, <3>5, <3>6 DEF Promise!Serve
    <3>8. QED BY <3>7 DEF Promise!Next
  <2>2. CASE Bypass(c, k) \/ Join(c, k) \/ StartLoad(c, k)
    <3>1. /\ caller[c].pc = "idle" /\ UNCHANGED <<version, told>>
          /\ \E on \in Callers \cup {NoLoad} : Asked(c, "waiting", on, 0)
      BY <1>0, <2>2 DEF Bypass, Join, StartLoad, MayCall, data
    <3>2. Promise!Ask(c) BY <1>3, <3>1
    <3>3. QED BY <3>2 DEF Promise!Next
  <2>3. QED BY <1>4, <2>1, <2>2 DEF Call
<1>5. ASSUME NEW l \in Callers, Settle(l) PROVE [Promise!Next]_(Promise!vars)
  <2> DEFINE group == {c \in Callers : caller[c].on = l}
             v == load[l].ver
  <2>1. UNCHANGED <<version, told>> BY <1>5 DEF Settle, data
  <2>2. /\ load[l].pc \in {"published", "failed"} /\ v \in Nat
        /\ caller' = [c \in Callers |-> IF Awaits(c, l) THEN Settled(c, l) ELSE caller[c]]
    BY <1>0, <1>5 DEF Settle, Loads
  <2>3. \A c \in group :
          /\ view[c].pc = "waiting"
          /\ load[l].pc = "published" => view[c].floor <= v
    <3>1. ASSUME NEW c \in group
          PROVE  /\ caller[c].pc = "waiting"
                 /\ load[l].pc = "published" => caller[c].floor <= v
      <4>1. WaitsWell(c) /\ caller[c].on = l /\ l # NoLoad
        BY <1>0 DEF Core, WaitInv
      <4>2. QED BY <4>1 DEF WaitsWell, HasRows
    <3>2. QED BY <3>1 DEF view
  <2>4. CASE group = {}
    <3>1. caller' = caller BY <1>0, <2>2, <2>4 DEF Awaits
    <3>2. QED BY <1>1, <2>1, <3>1
  <2>5. CASE group # {} /\ load[l].pc = "failed"
    <3>1. view' = [c \in Callers |-> IF c \in group THEN [view[c] EXCEPT !.pc = "failed"]
                                                     ELSE view[c]]
      <4>1. ASSUME NEW c \in Callers
            PROVE  [pc |-> caller'[c].pc, floor |-> caller'[c].floor, ver |-> caller'[c].ver]
                   = IF c \in group THEN [view[c] EXCEPT !.pc = "failed"] ELSE view[c]
        <5>1. caller[c] \in Calls BY <1>0
        <5>2. view[c] = [pc |-> caller[c].pc, floor |-> caller[c].floor, ver |-> caller[c].ver]
          BY DEF view
        <5>3. CASE caller[c].on = l
          <6>1. caller'[c] = [caller[c] EXCEPT !.pc = "failed", !.on = NoLoad]
            BY <2>2, <2>5, <5>3 DEF Awaits, Settled
          <6>2. caller'[c].pc = "failed" /\ caller'[c].floor = caller[c].floor
                /\ caller'[c].ver = caller[c].ver
            BY <5>1, <6>1 DEF Calls
          <6>3. QED BY <5>2, <5>3, <6>2
        <5>4. CASE caller[c].on # l
          BY <2>2, <5>2, <5>4 DEF Awaits
        <5>5. QED BY <5>3, <5>4
      <4>2. QED BY <4>1 DEF view
    <3>2. Promise!Fail(group) BY <2>1, <2>3, <3>1 DEF Promise!Fail
    <3>3. group \in (SUBSET Callers) \ {{}} BY <2>5
    <3>4. QED BY <3>2, <3>3 DEF Promise!Next
  <2>6. CASE group # {} /\ load[l].pc = "published"
    <3>1. view' = [c \in Callers |-> IF c \in group
                     THEN [pc |-> "answered", floor |-> view[c].floor, ver |-> v]
                     ELSE view[c]]
      <4>1. ASSUME NEW c \in Callers
            PROVE  [pc |-> caller'[c].pc, floor |-> caller'[c].floor, ver |-> caller'[c].ver]
                   = IF c \in group
                       THEN [pc |-> "answered", floor |-> view[c].floor, ver |-> v]
                       ELSE view[c]
        <5>1. caller[c] \in Calls BY <1>0
        <5>2. view[c] = [pc |-> caller[c].pc, floor |-> caller[c].floor, ver |-> caller[c].ver]
          BY DEF view
        <5>3. CASE caller[c].on = l
          <6>1. caller'[c] = [caller[c] EXCEPT !.pc = "answered", !.on = NoLoad, !.ver = v]
            BY <2>2, <2>6, <5>3 DEF Awaits, Settled
          <6>2. caller'[c].pc = "answered" /\ caller'[c].floor = caller[c].floor
                /\ caller'[c].ver = v
            BY <5>1, <6>1 DEF Calls
          <6>3. QED BY <5>2, <5>3, <6>2
        <5>4. CASE caller[c].on # l
          BY <2>2, <5>2, <5>4 DEF Awaits
        <5>5. QED BY <5>3, <5>4
      <4>2. QED BY <4>1 DEF view
    <3>2. v \in 0 .. version
      BY <1>0, <2>2, <2>6 DEF Core, RowsInv, HasRows
    <3>3. Promise!Answer(group) BY <2>1, <2>3, <2>6, <3>1, <3>2 DEF Promise!Answer
    <3>4. group \in (SUBSET Callers) \ {{}} BY <2>6
    <3>5. QED BY <3>3, <3>4 DEF Promise!Next
  <2>7. QED BY <2>2, <2>4, <2>5, <2>6
<1>6. ASSUME NEW l \in Callers, LoadStep(l), ~Settle(l) PROVE UNCHANGED Promise!vars
  BY <1>1, <1>6 DEF LoadStep, ReadRows, FailLoad, Publish, data
<1>7. ASSUME NEW c \in Callers, Return(c) PROVE Promise!Next
  <2>1. /\ caller[c].pc \in {"answered", "failed"} /\ UNCHANGED <<version, told>>
        /\ caller' = [caller EXCEPT ![c] = IdleCaller]
    BY <1>7 DEF Return, data
  <2>2. view' = [view EXCEPT ![c] = Promise!Idle]
    BY <1>2, <2>1, IdleRecords DEF IdleCaller, Promise!Idle
  <2>3. Promise!Leave(c) BY <2>1, <2>2 DEF Promise!Leave, view
  <2>4. QED BY <2>3 DEF Promise!Next
<1>8. ASSUME CommitElsewhere \/ \E w \in Writers : Commit(w) PROVE Promise!Next
  <2>1. version' = version + 1 /\ UNCHANGED <<told, caller>>
    BY <1>8 DEF Commit, CommitElsewhere, Committed
  <2>2. Promise!Write BY <2>1 DEF Promise!Write, view
  <2>3. QED BY <2>2 DEF Promise!Next
<1>9. ASSUME NEW w \in Writers, Invalidate(w) PROVE Promise!Next
  <2>1. told' = version /\ UNCHANGED <<version, caller>>
    BY <1>9 DEF Invalidate
  <2>2. Promise!Tell BY <2>1 DEF Promise!Tell, view
  <2>3. QED BY <2>2 DEF Promise!Next
<1>10. ASSUME Tick \/ UNCHANGED vars PROVE UNCHANGED Promise!vars
  BY <1>1, <1>10 DEF Tick, vars, data
<1>11. QED
  BY <1>4, <1>5, <1>6, <1>7, <1>8, <1>9, <1>10 DEF Next

\* The cache implements the promise: a call that begins after an invalidation is
\* answered with what the writer committed, or newer.
THEOREM PromiseKept == Spec => KeepsPromise
<1>1. Init => Promise!Init
  <2> SUFFICES ASSUME Init PROVE Promise!Init
    OBVIOUS
  <2>1. view = [c \in Callers |-> Promise!Idle]
    BY DEF view, Init, IdleCaller, Promise!Idle
  <2>2. QED BY <2>1 DEF Init, Promise!Init
<1>2. QED BY <1>1, StepRefines, Inductive, PTL DEF Spec, KeepsPromise, Promise!Spec
----------------------------------------------------------------------------
(* What nobody announced                                                   *)

\* The writes committed before t are among the first ver.
Seen(ver, t) == \A v \in 1 .. version : committedAt[v] < t => v <= ver

\* An entry expires a lifetime after a load that began at most Latency earlier.
EntryAged(e) ==
  /\ e.expiresAt <= now + ttl
  /\ \A v \in 1 .. version : committedAt[v] + ttl + Latency < e.expiresAt => v <= e.ver

LoadAged(q) ==
  q.pc # "none" =>
    /\ q.issued <= now /\ now <= q.issued + Latency
    /\ q.pc \in {"read", "published"} => Seen(q.ver, q.issued)

\* A call joins a load that runs; with no lifetime it runs its own.
CallAged(q) ==
  /\ q.began <= now
  /\ q.on # NoLoad =>
       /\ q.began <= load[q.on].issued + Latency
       /\ ttl = 0 => q.began = load[q.on].issued
  /\ q.pc = "answered" =>
       \A v \in 1 .. version : q.began >= committedAt[v] + ttl + Latency => v <= q.ver

AgeInv ==
  /\ Len(committedAt) = version /\ \A v \in 1 .. version : committedAt[v] <= now
  /\ \A k \in Keys : store[k] # NoEntry => EntryAged(store[k])
  /\ \A l \in Callers : LoadAged(load[l])
  /\ \A c \in Callers : CallAged(caller[c])

Aging == Types /\ Core /\ AgeInv /\ committedAt \in Seq(Nat) /\ Latency \in Nat \ {0}

LEMMA CommitTimes ==
  ASSUME Aging
  PROVE  /\ version \in Nat /\ ttl \in Nat /\ now \in Nat /\ Latency \in Nat \ {0}
         /\ \A v \in 1 .. version : committedAt[v] \in Nat /\ committedAt[v] <= now
BY DEF Aging, AgeInv, Types

LEMMA AgeInit == Init => AgeInv
<1> SUFFICES ASSUME Init PROVE AgeInv
  OBVIOUS
<1>1. version = 0 /\ now = 0 /\ committedAt = <<>> /\ Len(committedAt) = 0
  BY DEF Init
<1>2. \A v \in 1 .. version : FALSE BY <1>1
<1>3. \A k \in Keys : store[k] = NoEntry BY DEF Init
<1>4. \A l \in Callers : load[l].pc = "none" BY DEF Init, NoLoadRec
<1>5. \A c \in Callers : caller[c].pc = "idle" /\ caller[c].on = NoLoad /\ caller[c].began = 0
  BY DEF Init, IdleCaller
<1>6. \A c \in Callers : CallAged(caller[c]) BY <1>1, <1>5 DEF CallAged
<1>7. QED BY <1>1, <1>2, <1>3, <1>4, <1>6 DEF AgeInv, LoadAged

\* What no step of the clock and no commit disturbs, for as long as a caller's
\* load is the one it joined.
LEMMA CallsAge ==
  ASSUME Aging, UNCHANGED <<version, committedAt, now, ttl>>, NEW c \in Callers,
         caller'[c] = caller[c],
         caller[c].on # NoLoad => load'[caller[c].on].issued = load[caller[c].on].issued
  PROVE  CallAged(caller[c])'
BY DEF Aging, AgeInv, CallAged

LEMMA EntriesAge ==
  ASSUME Aging, UNCHANGED <<version, committedAt, now, ttl>>,
         \A k \in Keys : store'[k] \in {NoEntry, store[k]}
  PROVE  \A k \in Keys : store'[k] # NoEntry => EntryAged(store[k])'
BY DEF Aging, AgeInv, EntryAged

LEMMA LoadsAge ==
  ASSUME Aging, UNCHANGED <<version, committedAt, now, ttl>>, NEW l \in Callers,
         load'[l] = load[l]
  PROVE  LoadAged(load[l])'
BY DEF Aging, AgeInv, LoadAged, Seen

LEMMA TimesKept ==
  ASSUME Aging, UNCHANGED <<version, committedAt, now>>
  PROVE  Len(committedAt)' = version' /\ \A v \in 1 .. version' : committedAt'[v] <= now'
BY DEF Aging, AgeInv

\* A caller starts a load of its own, shared or not.
LEMMA BeginAge ==
  ASSUME Aging, NEW c \in Callers, NEW k \in Keys, StartLoad(c, k) \/ Bypass(c, k)
  PROVE  AgeInv'
<1>1. /\ load[c].pc = "none"
      /\ UNCHANGED <<ttl, version, committedAt, now>>
  BY DEF StartLoad, Bypass, MayCall, config, data
<1>2. load' = [load EXCEPT ![c] = [pc |-> "issued", key |-> k,
        startedAt |-> generation, issued |-> now, ver |-> 0]]
  BY DEF StartLoad, Bypass, NewLoad
<1>3. caller' = [caller EXCEPT ![c] = [pc |-> "waiting", on |-> c,
        floor |-> told, began |-> now, ver |-> 0]]
  BY DEF StartLoad, Bypass, Asked
<1>4. load \in [Callers -> Loads] /\ caller \in [Callers -> Calls] /\ NoLoad \notin Callers
      /\ store \in [Keys -> Entry \cup {NoEntry}]
  BY DEF Aging, Types
<1>5. \A x \in Keys : store'[x] \in {NoEntry, store[x]}
  BY <1>4 DEF StartLoad, Bypass, DropExpired
<1>6. ASSUME NEW l \in Callers PROVE LoadAged(load[l])'
  <2>1. CASE l = c
    <3>1. load'[l].pc = "issued" /\ load'[l].issued = now BY <1>2, <1>4, <2>1
    <3>2. QED BY <1>1, <3>1, CommitTimes DEF LoadAged
  <2>2. CASE l # c
    <3>1. load'[l] = load[l] BY <1>2, <1>4, <2>2
    <3>2. QED BY <1>1, <3>1, LoadsAge
  <2>3. QED BY <2>1, <2>2
<1>7. ASSUME NEW d \in Callers PROVE CallAged(caller[d])'
  <2>1. CASE d = c
    <3>1. /\ caller'[d].pc = "waiting" /\ caller'[d].on = c /\ caller'[d].began = now
          /\ load'[c].issued = now
      BY <1>2, <1>3, <1>4, <2>1
    <3>2. QED BY <1>1, <3>1, CommitTimes DEF CallAged
  <2>2. CASE d # c
    <3>1. caller'[d] = caller[d] /\ WaitsWell(d) /\ caller[d].on \in Callers \cup {NoLoad}
      BY <1>3, <1>4, <2>2 DEF Aging, Core, WaitInv, Calls
    <3>2. caller[d].on # c BY <1>1, <1>4, <3>1 DEF WaitsWell, Pending
    <3>3. caller[d].on # NoLoad => load'[caller[d].on] = load[caller[d].on]
      BY <1>2, <1>4, <3>1, <3>2
    <3>4. QED BY <1>1, <3>1, <3>3, CallsAge
  <2>3. QED BY <2>1, <2>2
<1>8. QED BY <1>1, <1>5, <1>6, <1>7, EntriesAge, TimesKept DEF AgeInv

\* A caller is answered by a fresh entry.
LEMMA HitAge ==
  ASSUME Aging, NEW c \in Callers, NEW k \in Keys, Hit(c, k)
  PROVE  AgeInv'
<1>1. /\ UNCHANGED <<ttl, version, committedAt, now, load, store>>
      /\ store[k] # NoEntry /\ store[k].expiresAt > now
      /\ caller' = [caller EXCEPT ![c] = [pc |-> "answered", on |-> NoLoad,
           floor |-> told, began |-> now, ver |-> store[k].ver]]
  BY DEF Hit, Fresh, Asked, config, data
<1>2. caller \in [Callers -> Calls] /\ store[k] \in Entry
  BY <1>1 DEF Aging, Types
<1>3. CallAged(caller[c])'
  <2>1. /\ caller'[c].pc = "answered" /\ caller'[c].on = NoLoad /\ caller'[c].began = now
        /\ caller'[c].ver = store[k].ver
    BY <1>1, <1>2
  <2>2. EntryAged(store[k]) BY <1>1 DEF Aging, AgeInv
  <2>3. ASSUME NEW v \in 1 .. version, now >= committedAt[v] + ttl + Latency
        PROVE  v <= store[k].ver
    <3>1. committedAt[v] + ttl + Latency < store[k].expiresAt
      BY <1>1, <1>2, <2>3, CommitTimes DEF Entry
    <3>2. QED BY <2>2, <3>1 DEF EntryAged
  <2>4. now <= now BY CommitTimes
  <2>5. QED BY <1>1, <2>1, <2>3, <2>4 DEF CallAged
<1>4. \A d \in Callers \ {c} : caller'[d] = caller[d] BY <1>1, <1>2
<1>5. \A d \in Callers : CallAged(caller[d])' BY <1>1, <1>3, <1>4, CallsAge
<1>6. \A l \in Callers : LoadAged(load[l])' BY <1>1, LoadsAge
<1>7. \A x \in Keys : store'[x] # NoEntry => EntryAged(store[x])'
  BY <1>1, EntriesAge
<1>8. QED BY <1>1, <1>5, <1>6, <1>7, TimesKept DEF AgeInv

\* A caller joins a load that has run for Latency at most.
LEMMA JoinAge ==
  ASSUME Aging, NEW c \in Callers, NEW k \in Keys, Join(c, k)
  PROVE  AgeInv'
<1> DEFINE l == inflight[k]
<1>1. /\ UNCHANGED <<ttl, version, committedAt, now, load>> /\ l # NoLoad /\ ttl > 0
      /\ caller' = [caller EXCEPT ![c] = [pc |-> "waiting", on |-> l,
           floor |-> told, began |-> now, ver |-> 0]]
  BY DEF Join, Asked, config, data
<1>2. /\ caller \in [Callers -> Calls] /\ l \in Callers
      /\ store \in [Keys -> Entry \cup {NoEntry}]
  BY <1>1 DEF Aging, Types
<1>3. Pending(l) BY <1>1 DEF Aging, Core, SlotInv, SlotHeld
<1>4. now <= load[l].issued + Latency BY <1>2, <1>3 DEF Aging, AgeInv, LoadAged, Pending
<1>5. CallAged(caller[c])'
  <2>1. /\ caller'[c].pc = "waiting" /\ caller'[c].on = l /\ caller'[c].began = now
    BY <1>1, <1>2
  <2>2. now <= now /\ ttl # 0 BY <1>1, CommitTimes
  <2>3. QED BY <1>1, <1>4, <2>1, <2>2 DEF CallAged
<1>6. \A d \in Callers \ {c} : caller'[d] = caller[d] BY <1>1, <1>2
<1>7. \A d \in Callers : CallAged(caller[d])' BY <1>1, <1>5, <1>6, CallsAge
<1>8. \A m \in Callers : LoadAged(load[m])' BY <1>1, LoadsAge
<1>9. \A x \in Keys : store'[x] \in {NoEntry, store[x]}
  BY <1>2 DEF Join, DropExpired
<1>10. QED BY <1>1, <1>7, <1>8, <1>9, EntriesAge, TimesKept DEF AgeInv

\* A load's queries are answered, or fail.
LEMMA ReadAge ==
  ASSUME Aging, NEW l \in Callers, ReadRows(l) \/ FailLoad(l)
  PROVE  AgeInv'
<1>1. /\ UNCHANGED <<ttl, version, committedAt, now, store, caller>> /\ load[l].pc = "issued"
      /\ \/ load' = [load EXCEPT ![l].pc = "read", ![l].ver = version]
         \/ load' = [load EXCEPT ![l].pc = "failed"]
  BY DEF ReadRows, FailLoad, config, data
<1>2. load \in [Callers -> Loads] /\ caller \in [Callers -> Calls]
  BY DEF Aging, Types
<1>3. /\ load'[l].issued = load[l].issued
      /\ load'[l].pc # "failed" => load'[l].pc = "read" /\ load'[l].ver = version
      /\ \A m \in Callers \ {l} : load'[m] = load[m]
  <2>1. CASE load' = [load EXCEPT ![l].pc = "read", ![l].ver = version]
    BY <1>2, <2>1 DEF Loads
  <2>2. CASE load' = [load EXCEPT ![l].pc = "failed"]
    <3>1. load'[l] = [load[l] EXCEPT !.pc = "failed"] /\ load[l] \in Loads BY <1>2, <2>2
    <3>2. load'[l].issued = load[l].issued /\ load'[l].pc = "failed" BY <3>1 DEF Loads
    <3>3. \A m \in Callers \ {l} : load'[m] = load[m] BY <1>2, <2>2
    <3>4. QED BY <3>2, <3>3
  <2>3. QED BY <1>1, <2>1, <2>2
<1>4. LoadAged(load[l])'
  <2>1. load[l].issued <= now /\ now <= load[l].issued + Latency
    BY <1>1 DEF Aging, AgeInv, LoadAged
  <2>2. Seen(version, load[l].issued) BY CommitTimes DEF Seen
  <2>3. QED BY <1>1, <1>3, <2>1, <2>2 DEF LoadAged, Seen
<1>5. \A m \in Callers : LoadAged(load[m])' BY <1>1, <1>3, <1>4, LoadsAge
<1>6. ASSUME NEW c \in Callers PROVE CallAged(caller[c])'
  <2>1. caller[c].on \in Callers \cup {NoLoad} BY <1>2 DEF Calls
  <2>2. caller[c].on # NoLoad => load'[caller[c].on].issued = load[caller[c].on].issued
    BY <1>3, <2>1
  <2>3. QED BY <1>1, <2>2, CallsAge
<1>7. \A x \in Keys : store'[x] \in {NoEntry, store[x]} BY <1>1
<1>8. QED BY <1>1, <1>5, <1>6, <1>7, EntriesAge, TimesKept DEF AgeInv

\* A load that was current is stored, for a lifetime.
LEMMA PublishAge ==
  ASSUME Aging, NEW l \in Callers, Publish(l)
  PROVE  AgeInv'
<1>1. /\ UNCHANGED <<ttl, version, committedAt, now, caller>> /\ load[l].pc = "read"
      /\ load' = [load EXCEPT ![l].pc = "published"]
  BY DEF Publish, config, data
<1>2. load \in [Callers -> Loads] /\ caller \in [Callers -> Calls]
  BY DEF Aging, Types
<1>3. /\ load'[l].issued = load[l].issued /\ load'[l].ver = load[l].ver
      /\ load'[l].pc = "published"
      /\ \A m \in Callers \ {l} : load'[m] = load[m]
  BY <1>1, <1>2 DEF Loads
<1>4. /\ load[l].issued <= now /\ now <= load[l].issued + Latency
      /\ Seen(load[l].ver, load[l].issued)
  BY <1>1 DEF Aging, AgeInv, LoadAged
<1>5. LoadAged(load[l])' BY <1>1, <1>3, <1>4 DEF LoadAged, Seen
<1>6. \A m \in Callers : LoadAged(load[m])' BY <1>1, <1>3, <1>5, LoadsAge
<1>7. ASSUME NEW c \in Callers PROVE CallAged(caller[c])'
  <2>1. caller[c].on \in Callers \cup {NoLoad} BY <1>2 DEF Calls
  <2>2. caller[c].on # NoLoad => load'[caller[c].on].issued = load[caller[c].on].issued
    BY <1>3, <2>1
  <2>3. QED BY <1>1, <2>2, CallsAge
<1>8. ASSUME NEW k \in Keys, store'[k] # NoEntry PROVE EntryAged(store[k])'
  <2>1. CASE store'[k] = store[k]
    BY <1>1, <1>8, <2>1 DEF Aging, AgeInv, EntryAged
  <2>2. CASE store'[k] = [ver |-> load[l].ver, expiresAt |-> now + ttl]
    <3>1. load[l].issued \in Nat /\ load[l].ver \in Nat BY <1>2 DEF Loads
    <3>2. ASSUME NEW v \in 1 .. version, committedAt[v] + ttl + Latency < now + ttl
          PROVE  v <= load[l].ver
      <4>1. committedAt[v] < load[l].issued BY <1>4, <3>1, <3>2, CommitTimes
      <4>2. QED BY <1>4, <4>1 DEF Seen
    <3>3. now + ttl <= now + ttl BY CommitTimes
    <3>4. QED BY <1>1, <2>2, <3>2, <3>3 DEF EntryAged
  <2>3. store'[k] \in {NoEntry, store[k], [ver |-> load[l].ver, expiresAt |-> now + ttl]}
    BY DEF Publish
  <2>4. QED BY <1>8, <2>1, <2>2, <2>3
<1>9. QED BY <1>6, <1>7, <1>8, <1>1, TimesKept DEF AgeInv

\* Whoever awaits the load gets its rows: the load began at most Latency before
\* the call, or with it.
LEMMA SettleAge ==
  ASSUME Aging, NEW l \in Callers, Settle(l)
  PROVE  AgeInv'
<1>1. /\ UNCHANGED <<ttl, version, committedAt, now, store>>
      /\ load[l].pc \in {"published", "failed"}
      /\ load' = [load EXCEPT ![l] = NoLoadRec]
      /\ caller' = [c \in Callers |-> IF Awaits(c, l) THEN Settled(c, l) ELSE caller[c]]
  BY DEF Settle, config, data
<1>2. load \in [Callers -> Loads] /\ caller \in [Callers -> Calls] /\ NoLoad \notin Callers
  BY DEF Aging, Types
<1>3. load'[l].pc = "none" /\ \A m \in Callers \ {l} : load'[m] = load[m]
  BY <1>1, <1>2 DEF NoLoadRec
<1>4. LoadAged(load[l])' BY <1>3 DEF LoadAged
<1>5. \A m \in Callers : LoadAged(load[m])' BY <1>1, <1>3, <1>4, LoadsAge
<1>6. ASSUME NEW c \in Callers PROVE CallAged(caller[c])'
  <2>1. caller[c].on \in Callers \cup {NoLoad} /\ caller[c] \in Calls BY <1>2 DEF Calls
  <2>2. CASE caller[c].on # l
    <3>1. caller'[c] = caller[c] BY <1>1, <2>2 DEF Awaits
    <3>2. caller[c].on # NoLoad => load'[caller[c].on] = load[caller[c].on]
      BY <1>3, <2>1, <2>2
    <3>3. QED BY <1>1, <3>1, <3>2, CallsAge
  <2>3. CASE caller[c].on = l
    <3>1. caller'[c] = Settled(c, l) BY <1>1, <2>3 DEF Awaits
    <3>2. CallAged(caller[c]) BY DEF Aging, AgeInv
    <3>3. /\ caller'[c].on = NoLoad /\ caller'[c].began = caller[c].began
          /\ caller'[c].pc = "answered" =>
               load[l].pc = "published" /\ caller'[c].ver = load[l].ver
      BY <1>1, <2>1, <3>1 DEF Settled, Calls
    <3>4. /\ caller[c].began <= now /\ caller[c].began <= load[l].issued + Latency
          /\ ttl = 0 => caller[c].began = load[l].issued
      BY <1>2, <2>3, <3>2 DEF CallAged
    <3>5. caller[c].began \in Nat /\ load[l].issued \in Nat BY <1>2, <2>1 DEF Calls, Loads
    <3>6. ASSUME load[l].pc = "published", NEW v \in 1 .. version,
                 caller[c].began >= committedAt[v] + ttl + Latency
          PROVE  v <= load[l].ver
      <4>1. Seen(load[l].ver, load[l].issued) BY <3>6 DEF Aging, AgeInv, LoadAged
      <4>2. committedAt[v] < load[l].issued BY <3>4, <3>5, <3>6, CommitTimes
      <4>3. QED BY <4>1, <4>2 DEF Seen
    <3>7. QED BY <1>1, <3>3, <3>4, <3>6 DEF CallAged
  <2>4. QED BY <2>2, <2>3
<1>7. \A x \in Keys : store'[x] \in {NoEntry, store[x]} BY <1>1
<1>8. QED BY <1>1, <1>5, <1>6, <1>7, EntriesAge, TimesKept DEF AgeInv

\* A new write is later than whatever is stored, loading or answered.
LEMMA CommitAge ==
  ASSUME Aging, CommitElsewhere \/ \E w \in Writers : Commit(w)
  PROVE  AgeInv'
<1>1. /\ UNCHANGED <<ttl, now, store, load, caller>> /\ version' = version + 1
      /\ committedAt' = Append(committedAt, now)
  BY DEF Commit, CommitElsewhere, Committed, config
<1>2. committedAt \in Seq(Nat) /\ now \in Nat /\ Len(committedAt) = version /\ version \in Nat
  BY CommitTimes DEF Aging, AgeInv
<1>3. /\ Len(committedAt') = version' /\ committedAt'[version + 1] = now
      /\ \A v \in 1 .. version : committedAt'[v] = committedAt[v]
  BY <1>1, <1>2, AppendProperties
<1>4. ASSUME NEW v \in 1 .. version' PROVE v \in 1 .. version \/ v = version + 1
  BY <1>1, <1>2
<1>5. \A v \in 1 .. version' : committedAt'[v] <= now'
  <2>1. now <= now BY <1>2
  <2>2. QED BY <1>1, <1>3, <1>4, <2>1, CommitTimes
<1>6. ASSUME NEW k \in Keys, store[k] # NoEntry PROVE EntryAged(store[k])'
  <2>1. EntryAged(store[k]) /\ store[k] \in Entry BY <1>6 DEF Aging, AgeInv, Types
  <2>2. ~(now + ttl + Latency < store[k].expiresAt) BY <2>1, CommitTimes DEF EntryAged, Entry
  <2>3. QED BY <1>1, <1>3, <1>4, <2>1, <2>2 DEF EntryAged
<1>7. ASSUME NEW l \in Callers PROVE LoadAged(load[l])'
  <2>1. LoadAged(load[l]) /\ load[l] \in Loads BY DEF Aging, AgeInv, Types
  <2>2. load[l].pc # "none" => ~(now < load[l].issued)
    BY <2>1, CommitTimes DEF LoadAged, Loads
  <2>3. QED BY <1>1, <1>3, <1>4, <2>1, <2>2 DEF LoadAged, Seen
<1>8. ASSUME NEW c \in Callers PROVE CallAged(caller[c])'
  <2>1. CallAged(caller[c]) /\ caller[c] \in Calls BY DEF Aging, AgeInv, Types
  <2>2. ~(caller[c].began >= now + ttl + Latency) BY <2>1, CommitTimes DEF CallAged, Calls
  <2>3. QED BY <1>1, <1>3, <1>4, <2>1, <2>2 DEF CallAged
<1>9. QED BY <1>1, <1>3, <1>5, <1>6, <1>7, <1>8 DEF AgeInv

\* No load outlives Latency.
LEMMA TickAge ==
  ASSUME Aging, Tick
  PROVE  AgeInv'
<1>1. /\ UNCHANGED <<ttl, version, committedAt, store, load, caller>> /\ now' = now + 1
      /\ \A l \in Callers : load[l].pc # "none" => now - load[l].issued < Latency
  BY DEF Tick, config, data
<1>2. \A v \in 1 .. version : committedAt[v] <= now + 1 BY CommitTimes
<1>3. ASSUME NEW k \in Keys, store[k] # NoEntry PROVE EntryAged(store[k])'
  <2>1. EntryAged(store[k]) /\ store[k] \in Entry BY <1>3 DEF Aging, AgeInv, Types
  <2>2. store[k].expiresAt <= now + 1 + ttl BY <2>1, CommitTimes DEF EntryAged, Entry
  <2>3. QED BY <1>1, <2>1, <2>2 DEF EntryAged
<1>4. ASSUME NEW l \in Callers PROVE LoadAged(load[l])'
  <2>1. LoadAged(load[l]) /\ load[l] \in Loads BY DEF Aging, AgeInv, Types
  <2>2. load[l].pc # "none" =>
          load[l].issued <= now + 1 /\ now + 1 <= load[l].issued + Latency
    BY <1>1, <2>1, CommitTimes DEF LoadAged, Loads
  <2>3. QED BY <1>1, <2>1, <2>2 DEF LoadAged, Seen
<1>5. ASSUME NEW c \in Callers PROVE CallAged(caller[c])'
  <2>1. CallAged(caller[c]) /\ caller[c] \in Calls BY DEF Aging, AgeInv, Types
  <2>2. caller[c].began <= now + 1 BY <2>1, CommitTimes DEF CallAged, Calls
  <2>3. QED BY <1>1, <2>1, <2>2 DEF CallAged
<1>6. QED BY <1>1, <1>2, <1>3, <1>4, <1>5 DEF Aging, AgeInv

LEMMA AgeStep == Aging /\ [Next]_vars => AgeInv'
<1> SUFFICES ASSUME Aging, [Next]_vars PROVE AgeInv'
  OBVIOUS
<1>1. ASSUME NEW c \in Callers, Return(c) PROVE AgeInv'
  <2>1. /\ UNCHANGED <<ttl, version, committedAt, now, store, load>>
        /\ caller' = [caller EXCEPT ![c] = IdleCaller] /\ caller \in [Callers -> Calls]
    BY <1>1 DEF Return, config, data, Aging, Types
  <2>2. CallAged(caller[c])'
    <3>1. caller'[c].pc = "idle" /\ caller'[c].on = NoLoad /\ caller'[c].began = 0
      BY <2>1 DEF IdleCaller
    <3>2. QED BY <2>1, <3>1, CommitTimes DEF CallAged
  <2>3. \A d \in Callers : CallAged(caller[d])' BY <2>1, <2>2, CallsAge
  <2>4. \A l \in Callers : LoadAged(load[l])' BY <2>1, LoadsAge
  <2>5. \A x \in Keys : store'[x] \in {NoEntry, store[x]} BY <2>1
  <2>6. QED BY <2>1, <2>3, <2>4, <2>5, EntriesAge, TimesKept DEF AgeInv
<1>2. ASSUME (\E w \in Writers : Invalidate(w)) \/ UNCHANGED vars PROVE AgeInv'
  <2>1. UNCHANGED <<ttl, version, committedAt, now, load, caller>>
    BY <1>2 DEF Invalidate, config, vars
  <2>2. \A x \in Keys : store'[x] \in {NoEntry, store[x]}
    BY <1>2 DEF Invalidate, vars
  <2>3. \A d \in Callers : CallAged(caller[d])' BY <2>1, CallsAge
  <2>4. \A l \in Callers : LoadAged(load[l])' BY <2>1, LoadsAge
  <2>5. QED BY <2>1, <2>2, <2>3, <2>4, EntriesAge, TimesKept DEF AgeInv
<1>3. QED
  BY <1>1, <1>2, BeginAge, HitAge, JoinAge, ReadAge, PublishAge, SettleAge, CommitAge, TickAge
     DEF Next, Call, LoadStep

\* A write nobody announced to this copy is in every answer to a call made the
\* lifetime of an entry plus one loader run later.  A loader takes some time: with
\* neither a lifetime nor a run between them, a call may begin before a write and at
\* the same time.
THEOREM AnswersAge == ASSUME Latency > 0 PROVE Spec => []StalenessBounded
<1>1. Latency \in Nat \ {0} BY ParamAssumption
<1>2. Init => Inv /\ AgeInv BY ShapeInit, CoreInit, AgeInit DEF Inv
<1>3. Inv /\ AgeInv => Aging BY <1>1, ShapeTypes DEF Inv, Shape, TypeOK, Aging
<1>4. Inv /\ AgeInv /\ [Next]_vars => (Inv /\ AgeInv)'
  BY <1>3, ShapeStep, ShapeTypes, CoreStep, AgeStep DEF Inv
<1>5. AgeInv => StalenessBounded BY DEF AgeInv, CallAged, StalenessBounded
<1>6. QED BY <1>2, <1>4, <1>5, PTL DEF Spec
----------------------------------------------------------------------------
(* What is dropped before its time                                         *)

\* The keys of a sequence that lists each once are as many as its places.
LEMMA DistinctCount ==
  ASSUME NEW s \in Seq(Keys), Distinct(s)
  PROVE  Cardinality(Range(s)) = Len(s)
<1> DEFINE n == Len(s)
<1>1. n \in Nat /\ IsFiniteSet(1 .. n) /\ Cardinality(1 .. n) = n
  <2>1. 1 \in Int /\ n \in Nat OBVIOUS
  <2>2. /\ IsFiniteSet(1 .. n) /\ Cardinality(1 .. n) = IF 1 > n THEN 0 ELSE n - 1 + 1
    BY <2>1, FS_Interval
  <2>3. QED BY <2>1, <2>2
<1>2. Range(s) = {s[i] : i \in 1 .. n} BY RangeType
<1>3. [i \in 1 .. n |-> s[i]] \in Bijection(1 .. n, Range(s))
  <2> DEFINE f == [i \in 1 .. n |-> s[i]]
  <2>1. f \in Surjection(1 .. n, Range(s)) BY <1>2 DEF Surjection
  <2>2. f \in Injection(1 .. n, Range(s)) BY <1>2 DEF Distinct, Injection, IsInjective
  <2>3. QED BY <2>1, <2>2 DEF Bijection
<1>4. ExistsBijection(1 .. n, Range(s)) BY <1>3 DEF ExistsBijection
<1> HIDE DEF n
<1>5. Cardinality(Range(s)) = Cardinality(1 .. n) BY <1>1, <1>4, FS_Bijection
<1>6. QED BY <1>1, <1>5 DEF n

\* A fresh entry is behind whatever the sweep drops.
LEMMA SweepStops ==
  ASSUME order \in Seq(Keys), NEW i \in 1 .. Len(order), Fresh(order[i])
  PROVE  /\ Cardinality(Swept) \in 0 .. i - 1
         /\ AfterSweep \in Seq(Keys) /\ Len(AfterSweep) = Len(order) - Cardinality(Swept)
         /\ \A j \in 1 .. Len(order) - Cardinality(Swept) :
              AfterSweep[j] = order[Cardinality(Swept) + j]
<1> DEFINE n == Cardinality(Swept)
<1>1. Swept \in SUBSET (1 .. i - 1)
  <2>1. ASSUME NEW j \in Swept, j >= i PROVE FALSE
    <3>1. j \in 1 .. Len(order) /\ \A x \in 1 .. j : ~Fresh(order[x]) BY DEF Swept
    <3>2. i \in 1 .. j BY <2>1, <3>1
    <3>3. QED BY <3>1, <3>2
  <2>2. \A j \in Swept : j \in 1 .. Len(order) BY DEF Swept
  <2>3. QED BY <2>1, <2>2
<1>2. n \in 0 .. i - 1
  <2>1. 1 \in Int /\ i - 1 \in Int OBVIOUS
  <2>2. IsFiniteSet(1 .. i - 1) /\ Cardinality(1 .. i - 1) = i - 1
    <3>1. /\ IsFiniteSet(1 .. i - 1)
          /\ Cardinality(1 .. i - 1) = IF 1 > i - 1 THEN 0 ELSE i - 1 - 1 + 1
      BY <2>1, FS_Interval
    <3>2. QED BY <3>1
  <2>3. IsFiniteSet(Swept) /\ Cardinality(Swept) <= Cardinality(1 .. i - 1)
    BY <1>1, <2>2, FS_Subset
  <2>4. Cardinality(Swept) \in Nat BY <2>3, FS_CardinalityType
  <2>5. QED BY <2>2, <2>3, <2>4
<1>3. AfterSweep = SubSeq(order, n + 1, Len(order)) BY DEF AfterSweep
<1> HIDE DEF n
<1>4. /\ n + 1 \in 1 .. Len(order) + 1 /\ Len(order) \in 0 .. Len(order)
      /\ n + 1 <= Len(order) + 1
  BY <1>2
<1>5. /\ AfterSweep \in Seq(Keys) /\ Len(AfterSweep) = Len(order) - (n + 1) + 1
      /\ \A j \in 1 .. Len(order) - (n + 1) + 1 : AfterSweep[j] = order[n + 1 + j - 1]
  BY <1>3, <1>4, SliceFacts
<1>6. n \in Nat /\ Len(order) \in Nat BY <1>2
<1>7. Len(order) - (n + 1) + 1 = Len(order) - n BY <1>6
<1>8. \A j \in 1 .. Len(order) - n : n + 1 + j - 1 = n + j BY <1>6
<1>9. QED BY <1>2, <1>5, <1>7, <1>8 DEF n

\* A publish that drops an entry that could still answer found the store full, and
\* that entry first in line.
LEMMA PublishDrops ==
  ASSUME Shape, NEW k \in Keys, NEW i \in 1 .. Len(order), Fresh(order[i]),
         order[i] \notin Range(OrderAfterPublish(k))
  PROVE  Cardinality(Range(OrderAfterPublish(k))) = cap /\ i = 1
<1> DEFINE x == order[i]
           after == AfterSweep
           n == Cardinality(Swept)
           base == Without(after, k)
           full == Append(base, k)
           kept == OrderAfterPublish(k)
<1>1. /\ order \in Seq(Keys) /\ Distinct(order) /\ Len(order) <= cap /\ cap \in Nat \ {0}
      /\ x \in Keys /\ Len(order) \in Nat
  BY DEF Shape, TypeOK, OrderInv
<1>2. /\ n \in 0 .. i - 1 /\ after \in Seq(Keys) /\ Len(after) = Len(order) - n
      /\ \A j \in 1 .. Len(order) - n : after[j] = order[n + j]
  BY <1>1, SweepStops
<1>3. Distinct(after) BY <1>1, SweepFacts
<1>4. kept = Trim(full) BY DEF OrderAfterPublish
<1>5. kept \in Seq(Keys) /\ Distinct(kept) BY <1>1, PublishFacts
<1> HIDE DEF after, n, kept
<1>6. x \in Range(after)
  <2>1. i - n \in 1 .. Len(order) - n BY <1>1, <1>2
  <2>2. after[i - n] = order[n + (i - n)] /\ n + (i - n) = i BY <1>2, <2>1
  <2>3. QED BY <1>2, <2>1, <2>2, RangeType
<1>7. /\ base \in Seq(Keys) /\ Distinct(base) /\ Range(base) = Range(after) \ {k}
      /\ Len(base) <= Len(after)
      /\ k \in Range(after) => Len(base) = Len(after) - 1
  BY <1>2, <1>3, WithoutFacts DEF Distinct
<1>8. k \notin Range(after) => base = after BY DEF Without
<1> HIDE DEF base
<1>9. /\ full \in Seq(Keys) /\ Distinct(full) /\ Range(full) = Range(base) \cup {k}
      /\ Len(full) = Len(base) + 1
  BY <1>7, AppendFacts
<1>10. \A j \in 1 .. Len(base) : full[j] = base[j] BY <1>7, AppendProperties
<1>11. full[Len(full)] = k /\ Len(base) \in Nat BY <1>7, <1>9, AppendProperties
<1> HIDE DEF full
<1>12. x \in Range(full) BY <1>6, <1>7, <1>9
<1>13. kept # full BY <1>12 DEF kept, x
<1>14. Len(full) > cap /\ kept = SubSeq(full, Len(full) - cap + 1, Len(full))
  BY <1>4, <1>13 DEF Trim
<1>15. k \notin Range(after)
  <2>1. ASSUME k \in Range(after) PROVE FALSE
    <3>1. Len(base) = Len(after) - 1 BY <1>7, <2>1
    <3>2. Len(after) \in Nat BY <1>2
    <3>3. Len(full) = Len(after) BY <1>9, <3>1, <3>2
    <3>4. QED BY <1>1, <1>2, <1>14, <3>3
  <2>2. QED BY <2>1
<1>16. n = 0 /\ Len(full) = cap + 1 /\ Len(order) = cap /\ base = after
  BY <1>1, <1>2, <1>8, <1>9, <1>14, <1>15
<1>17. full[1] = order[1] BY <1>1, <1>2, <1>10, <1>16
<1>18. /\ Len(kept) = cap /\ \A j \in 1 .. cap : kept[j] = full[j + 1]
  <2>1. /\ 2 \in 1 .. Len(full) + 1 /\ Len(full) \in 0 .. Len(full) /\ 2 <= Len(full) + 1
        /\ Len(full) - cap + 1 = 2
    BY <1>1, <1>16
  <2>2. /\ Len(SubSeq(full, 2, Len(full))) = Len(full) - 2 + 1
        /\ \A j \in 1 .. Len(full) - 2 + 1 : SubSeq(full, 2, Len(full))[j] = full[2 + j - 1]
    BY <1>9, <2>1, SliceFacts
  <2>3. Len(full) - 2 + 1 = cap /\ \A j \in 1 .. cap : 2 + j - 1 = j + 1 BY <1>1, <1>16
  <2>4. QED BY <1>14, <2>1, <2>2, <2>3
<1>19. i = 1
  <2>1. ASSUME i # 1 PROVE FALSE
    <3>1. i - 1 \in 1 .. cap /\ i - 1 + 1 = i /\ i \in 1 .. Len(base)
      BY <1>1, <1>2, <1>16, <2>1
    <3>2. kept[i - 1] = full[i] BY <1>18, <3>1
    <3>3. full[i] = x BY <1>2, <1>10, <1>16, <3>1
    <3>4. x \in Range(kept) BY <1>5, <1>18, <3>1, <3>2, <3>3, RangeType
    <3>5. QED BY <3>4 DEF kept, x
  <2>2. QED BY <2>1
<1>20. Cardinality(Range(kept)) = cap BY <1>5, <1>18, DistinctCount
<1>21. QED BY <1>19, <1>20 DEF kept

\* An entry that could still answer is dropped by an invalidation, or by a publish
\* that fills the store to its cap, and then it was first in line.
THEOREM FreshStays == Spec => FreshSurvives
<1>1. ASSUME Shape, [Next]_vars, NEW k \in Keys,
             Fresh(k) /\ store'[k] = NoEntry /\ generation' = generation
      PROVE  /\ Cardinality({x \in Keys : store'[x] # NoEntry}) = cap
             /\ \A i \in 1 .. Len(order) : order[i] = k =>
                  \A j \in 1 .. i - 1 : ~Fresh(order[j])
  <2>1. /\ store \in [Keys -> Entry \cup {NoEntry}] /\ store[k] # NoEntry
        /\ order \in Seq(Keys) /\ Distinct(order) /\ Range(order) = Stored
        /\ generation \in Nat /\ load \in [Callers -> Loads] /\ cap \in Nat \ {0}
    BY <1>1 DEF Shape, TypeOK, OrderInv, Fresh, Loads
  <2>2. ~(\E c \in Callers, x \in Keys : Join(c, x) \/ StartLoad(c, x))
    BY <1>1, <2>1 DEF Join, StartLoad, DropExpired
  <2>3. ~(\E w \in Writers : Invalidate(w))
    <3>1. generation + 1 # generation BY <2>1
    <3>2. QED BY <1>1, <3>1 DEF Invalidate
  <2>4. PICK l \in Callers : Publish(l) /\ Publishes(l)
    <3>1. store' # store BY <1>1, <2>1
    <3>2. QED
      BY <1>1, <2>2, <2>3, <3>1
         DEF Next, Call, LoadStep, Bypass, Hit, ReadRows, FailLoad, Publish, Settle, Return,
             Commit, CommitElsewhere, Tick, vars, data
  <2> DEFINE key == load[l].key
             kept == OrderAfterPublish(key)
             new == [ver |-> load[l].ver, expiresAt |-> now + ttl]
  <2>5. /\ key \in Keys /\ new # NoEntry
        /\ store' = [x \in Keys |-> IF x \notin Range(kept) THEN NoEntry
                                    ELSE IF x = key THEN new ELSE store[x]]
    <3>1. load[l] \in Loads /\ now \in Nat /\ ttl \in Nat BY <1>1, <2>1 DEF Shape, TypeOK
    <3>2. new \in Entry /\ key \in Keys BY <3>1 DEF Entry, Loads
    <3>3. QED BY <2>4, <3>2, DistinctAssumption DEF Publish
  <2>6. kept \in Seq(Keys) /\ Range(kept) \subseteq Range(order) \cup {key}
    BY <2>1, <2>5, PublishFacts
  <2>7. PICK i \in 1 .. Len(order) : order[i] = k
    BY <2>1, RangeType DEF Stored
  <2> HIDE DEF key, kept, new
  <2>8. k \notin Range(kept)
    BY <1>1, <2>1, <2>5
  <2>9. Cardinality(Range(kept)) = cap /\ i = 1
    BY <1>1, <2>5, <2>7, <2>8, PublishDrops DEF kept
  <2>10. {x \in Keys : store'[x] # NoEntry} = Range(kept)
    <3>1. Range(kept) \subseteq Keys BY <2>6, RangeType
    <3>2. \A x \in Range(order) : store[x] # NoEntry BY <2>1 DEF Stored
    <3>3. QED BY <2>5, <2>6, <3>1, <3>2
  <2>11. \A j \in 1 .. Len(order) : order[j] = k => j = i BY <2>1, <2>7 DEF Distinct
  <2>12. Cardinality({x \in Keys : store'[x] # NoEntry}) = cap BY <2>9, <2>10
  <2>13. \A j \in 1 .. Len(order) : order[j] = k => 1 .. j - 1 = {} BY <2>9, <2>11
  <2>14. QED BY <2>12, <2>13
<1>2. Shape /\ [Next]_vars =>
        [\A k \in Keys :
           Fresh(k) /\ store'[k] = NoEntry /\ generation' = generation
           => /\ Cardinality({x \in Keys : store'[x] # NoEntry}) = cap
              /\ \A i \in 1 .. Len(order) : order[i] = k =>
                   \A j \in 1 .. i - 1 : ~Fresh(order[j])]_vars
  BY <1>1
<1>3. QED BY <1>2, ShapeInit, ShapeStep, PTL DEF Spec, FreshSurvives
----------------------------------------------------------------------------
(* The parts                                                               *)

\* Whichever part a behaviour exercises, the others stand still: it is a behaviour
\* of each.
LEMMA Parts ==
  MCSpec => Spec /\ Settings!Spec /\ Limits!Spec /\ Lockout!LoginSpec
<1>1. MCInit => Init /\ Settings!Init /\ Limits!Init /\ Lockout!InitAccount
  BY DEF MCInit
<1>2. [MCNext]_<<part, vars, settingsVars, limitsVars, lockoutVars>> =>
        /\ [Next]_vars /\ [Settings!Next]_Settings!vars
        /\ [Limits!Next]_Limits!vars /\ [Lockout!NextAccount]_Lockout!loginVars
  BY DEF MCNext, settingsVars, limitsVars, lockoutVars, Settings!vars, Limits!vars,
         Lockout!loginVars, Lockout!history
<1>3. QED
  BY <1>1, <1>2, PTL DEF MCSpec, Spec, Settings!Spec, Limits!Spec, Lockout!LoginSpec
----------------------------------------------------------------------------
(* The settings cache: which writes a row reflects                         *)

\* The newest write in a row.
Stamp(row) ==
  CHOOSE n \in Nat : (\A f \in Fields : row[f] <= n) /\ (\E f \in Fields : row[f] = n)

\* The row that n writes leave holds the n-th and none after it.
LogInv ==
  /\ log \in Seq(Settings!Row) /\ log # <<>>
  /\ cacheCommittedAt \in Seq(Nat) /\ Len(cacheCommittedAt) = Len(log) - 1
  /\ \A i \in 1 .. Len(log) :
       /\ \A f \in Fields : log[i][f] <= i - 1
       /\ \E f \in Fields : log[i][f] = i - 1
  /\ settingsNow \in Nat
  /\ \A v \in 1 .. Len(log) - 1 : cacheCommittedAt[v] <= settingsNow

Held(row) == \E v \in 0 .. Len(log) - 1 : row = log[v + 1]

\* The writes committed more than d before t are among the first ver.
Reflected(ver, t, d) ==
  \A v \in 1 .. Len(log) - 1 : cacheCommittedAt[v] + d < t => v <= ver

Getters == [pc: {"idle", "issued", "read", "answered"}, cached: BOOLEAN,
            row: Settings!Row \cup {NoRow}, floor: Nat, began: Nat]
Handlers == [pc: {"idle", "committed"}, drops: BOOLEAN,
             row: Settings!Row \cup {NoRow}, since: Nat]

\* What a getter holds is a row of the table, no older than its start and, if it
\* will reach the cache, no older than the last refresh nothing overlapped.
GetterSound(x) ==
  /\ x.began <= settingsNow
  /\ x.pc \in {"issued", "read"} => settingsNow <= x.began + Latency
  /\ x.pc = "issued" => x.floor <= Len(log) - 1
  /\ x.pc \in {"read", "answered"} => Held(x.row) /\ x.floor <= Stamp(x.row)
  /\ x.pc = "read" => Reflected(Stamp(x.row), x.began, 0)
  /\ x.pc = "read" /\ x.cached => settingsTold <= Stamp(x.row)
  /\ x.pc = "answered" => Reflected(Stamp(x.row), x.began, SettingsTTL + Latency - 1)

\* The row a handler will put in the cache is at least as new as its own write.
HandlerSound(x) ==
  x.pc = "committed" =>
    /\ x.since <= settingsNow /\ settingsNow <= x.since + Latency
    /\ Held(x.row) /\ settingsTold <= Stamp(x.row)
    /\ Reflected(Stamp(x.row), x.since, 0)

EntrySound ==
  settingsCache # NoRow =>
    /\ Held(settingsCache.row) /\ settingsTold <= Stamp(settingsCache.row)
    /\ settingsCache.loadedAt <= settingsNow
    /\ Reflected(Stamp(settingsCache.row), settingsCache.loadedAt, Latency)

SettingsTypes ==
  /\ settingsCache \in Settings!CacheEntry \cup {NoRow}
  /\ reader \in [SettingsReaders -> Getters]
  /\ setter \in [SettingsSetters -> Handlers]
  /\ settingsTold \in Nat /\ settingsTold <= Len(log) - 1

SettingsInv ==
  /\ LogInv /\ SettingsTypes /\ EntrySound
  /\ \A r \in SettingsReaders : GetterSound(reader[r])
  /\ \A s \in SettingsSetters : HandlerSound(setter[s])

LEMMA StampOf ==
  ASSUME NEW row \in [Fields -> Nat], NEW n \in Nat,
         \A f \in Fields : row[f] <= n, \E f \in Fields : row[f] = n
  PROVE  Stamp(row) = n
<1>1. ASSUME NEW m \in Nat, \A f \in Fields : row[f] <= m, \E f \in Fields : row[f] = m
      PROVE  m = n
  <2>1. PICK f \in Fields : row[f] = m BY <1>1
  <2>2. PICK g \in Fields : row[g] = n OBVIOUS
  <2>3. QED BY <1>1, <2>1, <2>2
<1>2. QED BY <1>1 DEF Stamp

LEMMA LogStamps ==
  ASSUME LogInv, NEW v \in 0 .. Len(log) - 1
  PROVE  log[v + 1] \in Settings!Row /\ Stamp(log[v + 1]) = v
<1>1. v + 1 \in 1 .. Len(log) /\ v \in Nat /\ v + 1 - 1 = v
  BY DEF LogInv
<1>2. log[v + 1] \in [Fields -> Nat]
  BY <1>1 DEF LogInv, Settings!Row
<1>3. (\A f \in Fields : log[v + 1][f] <= v) /\ (\E f \in Fields : log[v + 1][f] = v)
  <2>1. \A i \in 1 .. Len(log) : (\A f \in Fields : log[i][f] <= i - 1) /\ (\E f \in Fields : log[i][f] = i - 1)
    BY DEF LogInv
  <2>2. QED BY <1>1, <2>1
<1>4. Stamp(log[v + 1]) = v
  BY <1>1, <1>2, <1>3, StampOf
<1>5. QED BY <1>2, <1>4 DEF Settings!Row

\* A row the table has held is found in the log where its stamp says.
LEMMA HeldFacts ==
  ASSUME LogInv, NEW row, Held(row)
  PROVE  /\ row \in Settings!Row
         /\ Stamp(row) \in 0 .. Len(log) - 1 /\ log[Stamp(row) + 1] = row
         /\ Settings!Reflects(row) = Stamp(row)
         /\ row \in Settings!Range(log)
<1>1. PICK v \in 0 .. Len(log) - 1 : row = log[v + 1]
  BY DEF Held
<1>2. \A w \in 0 .. Len(log) - 1 : Stamp(log[w + 1]) = w
  BY LogStamps
<1>3. Stamp(row) = v
  BY <1>1, LogStamps
<1>4. Settings!Reflects(row) = v
  BY <1>1, <1>2 DEF Settings!Reflects, Settings!version
<1>5. row \in Settings!Range(log)
  <2>1. v + 1 \in DOMAIN log
    BY DEF LogInv
  <2>2. QED BY <1>1, <2>1 DEF Settings!Range
<1>6. QED BY <1>1, <1>3, <1>4, <1>5, LogStamps

\* A row reflects what it did when a laxer bound is asked of it.
LEMMA ReflectsMore ==
  ASSUME LogInv, NEW ver, NEW t \in Nat, NEW u \in Nat, NEW d \in Nat, NEW e \in Nat,
         Reflected(ver, t, d), u - e <= t - d
  PROVE  Reflected(ver, u, e)
<1> SUFFICES ASSUME NEW v \in 1 .. Len(log) - 1, cacheCommittedAt[v] + e < u
             PROVE  v <= ver
  BY DEF Reflected
<1>1. PICK c \in Nat : c = cacheCommittedAt[v]
  BY DEF LogInv
<1>2. c + d < t
  BY <1>1
<1>3. QED BY <1>1, <1>2 DEF Reflected

LEMMA TableHeld ==
  ASSUME LogInv
  PROVE  /\ Held(Settings!table) /\ Stamp(Settings!table) = Len(log) - 1
         /\ Settings!table \in Settings!Row
<1>1. Len(log) - 1 \in 0 .. Len(log) - 1 /\ Len(log) - 1 + 1 = Len(log)
  BY DEF LogInv
<1>2. QED BY <1>1, LogStamps DEF Held, Settings!table

\* What a commit adds to the log.
LEMMA CommitFacts ==
  ASSUME LogInv, NEW written \in SUBSET Fields, written # {}, Settings!Committed(written),
         UNCHANGED settingsNow
  PROVE  /\ LogInv'
         /\ Len(log') = Len(log) + 1
         /\ \A i \in 1 .. Len(log) : log'[i] = log[i]
         /\ \A v \in 1 .. Len(log) - 1 : cacheCommittedAt'[v] = cacheCommittedAt[v]
         /\ cacheCommittedAt'[Len(log)] = settingsNow
         /\ Held(Settings!table)' /\ Stamp(Settings!table)' = Len(log)
         /\ Settings!table' = log'[Len(log')]
<1> DEFINE new == [f \in Fields |-> IF f \in written THEN Settings!version + 1 ELSE Settings!table[f]]
<1>1. Len(log) \in Nat \ {0} /\ Settings!version = Len(log) - 1 /\ Settings!table = log[Len(log)]
  BY DEF LogInv, Settings!version, Settings!table
<1>2. new \in Settings!Row
  BY <1>1, TableHeld DEF Settings!Row
<1>3. \A f \in Fields : new[f] <= Len(log)
  <2>1. Len(log) \in 1 .. Len(log)
    BY <1>1
  <2>2. \A f \in Fields : Settings!table[f] <= Len(log) - 1 /\ Settings!table[f] \in Nat
    BY <1>1, <2>1, TableHeld DEF LogInv, Settings!Row
  <2>3. QED BY <1>1, <2>2
<1>4. \E f \in Fields : new[f] = Len(log)
  BY <1>1
<1>5. log' = Append(log, new) /\ cacheCommittedAt' = Append(cacheCommittedAt, settingsNow)
  BY DEF Settings!Committed
<1> HIDE DEF new
<1>6. /\ log' \in Seq(Settings!Row) /\ Len(log') = Len(log) + 1 /\ log' # <<>>
      /\ \A i \in 1 .. Len(log) : log'[i] = log[i]
      /\ log'[Len(log) + 1] = new
  BY <1>2, <1>5 DEF LogInv
<1>7. /\ cacheCommittedAt' \in Seq(Nat) /\ Len(cacheCommittedAt') = Len(log)
      /\ \A v \in 1 .. Len(log) - 1 : cacheCommittedAt'[v] = cacheCommittedAt[v]
      /\ cacheCommittedAt'[Len(log)] = settingsNow
  BY <1>1, <1>5 DEF LogInv
<1>8. \A i \in 1 .. Len(log') :
        (\A f \in Fields : log'[i][f] <= i - 1) /\ (\E f \in Fields : log'[i][f] = i - 1)
  <2>1. ASSUME NEW i \in 1 .. Len(log')
        PROVE  (\A f \in Fields : log'[i][f] <= i - 1) /\ (\E f \in Fields : log'[i][f] = i - 1)
    <3>1. CASE i \in 1 .. Len(log)
      BY <3>1, <1>6 DEF LogInv
    <3>2. CASE i = Len(log) + 1
      <4>1. i - 1 = Len(log) BY <3>2, <1>1
      <4>2. QED BY <3>2, <4>1, <1>3, <1>4, <1>6
    <3>3. QED BY <2>1, <3>1, <3>2, <1>1, <1>6
  <2>2. QED BY <2>1
<1>9. LogInv'
  <2>1. \A v \in 1 .. Len(log') - 1 : cacheCommittedAt'[v] <= settingsNow'
    <3>1. \A v \in 1 .. Len(log) - 1 : cacheCommittedAt[v] <= settingsNow
      BY DEF LogInv
    <3>2. settingsNow' = settingsNow /\ settingsNow \in Nat
      BY DEF LogInv
    <3>3. ASSUME NEW v \in 1 .. Len(log') - 1 PROVE cacheCommittedAt'[v] <= settingsNow'
      <4>1. CASE v = Len(log)
        BY <1>1, <1>6, <1>7, <3>2, <4>1
      <4>2. CASE v \in 1 .. Len(log) - 1
        BY <1>1, <1>6, <1>7, <3>1, <3>2, <4>2
      <4>3. QED BY <1>1, <1>6, <4>1, <4>2
    <3>4. QED BY <3>3
  <2>2. QED BY <1>1, <1>6, <1>7, <1>8, <2>1 DEF LogInv
<1>10. Settings!table' = log'[Len(log')] /\ Stamp(Settings!table)' = Len(log)
  <2>1. Settings!table' = log'[Len(log')] /\ log'[Len(log')] = new
    BY <1>1, <1>6 DEF Settings!table
  <2>2. new \in [Fields -> Nat] /\ Len(log) \in Nat
    BY <1>1, <1>2 DEF Settings!Row
  <2>3. Stamp(new) = Len(log)
    BY <1>3, <1>4, <2>2, StampOf
  <2>4. QED BY <2>1, <2>3 DEF Stamp
<1>11. Held(Settings!table)'
  <2>1. Len(log') - 1 \in 0 .. Len(log') - 1 /\ Len(log') - 1 + 1 = Len(log')
    BY <1>1, <1>6
  <2>2. QED BY <1>10, <2>1 DEF Held
<1>12. QED BY <1>6, <1>7, <1>9, <1>10, <1>11

IdleFacts == /\ Settings!IdleReader \in Getters /\ Settings!IdleReader.pc = "idle"
             /\ Settings!IdleReader.began = 0
             /\ Settings!IdleSetter \in Handlers /\ Settings!IdleSetter.pc = "idle"

LEMMA IdleSettings == IdleFacts
BY DEF IdleFacts, Settings!IdleReader, Settings!IdleSetter, Getters, Handlers

LEMMA SettingsInit == Settings!Init => SettingsInv
<1> SUFFICES ASSUME Settings!Init PROVE SettingsInv
  OBVIOUS
<1> DEFINE first == [f \in Fields |-> 0]
<1>1. first \in Settings!Row /\ log = <<first>> /\ cacheCommittedAt = <<>>
  BY DEF Settings!Init, Settings!Row
<1>2. Fields # {} /\ \A f \in Fields : first[f] = 0
  BY StoresParameters DEF Settings!Parameters
<1> HIDE DEF first
<1>3. /\ log \in Seq(Settings!Row) /\ log # <<>> /\ Len(log) = 1 /\ log[1] = first
      /\ cacheCommittedAt \in Seq(Nat) /\ Len(cacheCommittedAt) = 0
  BY <1>1
<1>4. LogInv
  BY <1>2, <1>3 DEF LogInv, Settings!Init
<1>5. SettingsTypes /\ EntrySound
  BY <1>3, IdleSettings DEF Settings!Init, SettingsTypes, EntrySound, IdleFacts
<1>6. \A r \in SettingsReaders : GetterSound(reader[r])
  BY IdleSettings DEF Settings!Init, GetterSound, IdleFacts
<1>7. \A s \in SettingsSetters : HandlerSound(setter[s])
  BY IdleSettings DEF Settings!Init, HandlerSound, IdleFacts
<1>8. QED BY <1>4, <1>5, <1>6, <1>7 DEF SettingsInv

\* While the table, the clock and the last refresh stand still, so does what was
\* sound.
LEMMA SettingsStill ==
  ASSUME UNCHANGED <<log, cacheCommittedAt, settingsTold, settingsNow>>
  PROVE  /\ LogInv => LogInv'
         /\ \A x \in Getters : GetterSound(x) => GetterSound(x)'
         /\ \A x \in Handlers : HandlerSound(x) => HandlerSound(x)'
         /\ EntrySound /\ UNCHANGED settingsCache => EntrySound'
<1>1. LogInv => LogInv' BY DEF LogInv
<1>2. ASSUME NEW x \in Getters, GetterSound(x) PROVE GetterSound(x)'
  BY <1>2 DEF GetterSound, Held, Reflected, Stamp
<1>3. ASSUME NEW x \in Handlers, HandlerSound(x) PROVE HandlerSound(x)'
  BY <1>3 DEF HandlerSound, Held, Reflected, Stamp
<1>4. EntrySound /\ UNCHANGED settingsCache => EntrySound'
  BY DEF EntrySound, Held, Reflected, Stamp
<1>5. QED BY <1>1, <1>2, <1>3, <1>4

\* A getter's step: it leaves the other getters and the table alone.
LEMMA GetterStep ==
  ASSUME SettingsInv, NEW r \in SettingsReaders,
         UNCHANGED <<log, cacheCommittedAt, settingsTold, settingsNow, setter>>,
         reader' \in [SettingsReaders -> Getters],
         \A q \in SettingsReaders \ {r} : reader'[q] = reader[q],
         GetterSound(reader'[r]),
         settingsCache' \in Settings!CacheEntry \cup {NoRow},
         EntrySound'
  PROVE  SettingsInv'
<1>1. LogInv' /\ SettingsTypes'
  BY SettingsStill DEF SettingsInv, SettingsTypes
<1>2. \A q \in SettingsReaders : GetterSound(reader[q])'
  <2>1. ASSUME NEW q \in SettingsReaders PROVE GetterSound(reader[q])'
    <3>1. GetterSound(reader'[q])
      BY DEF SettingsInv
    <3>2. reader'[q] \in Getters
      OBVIOUS
    <3>3. QED BY <3>1, <3>2 DEF GetterSound, Held, Reflected, Stamp
  <2>2. QED BY <2>1
<1>3. \A s \in SettingsSetters : HandlerSound(setter[s])'
  <2>1. ASSUME NEW s \in SettingsSetters PROVE HandlerSound(setter[s])'
    <3>1. setter[s] \in Handlers /\ HandlerSound(setter[s]) /\ setter'[s] = setter[s]
      BY DEF SettingsInv, SettingsTypes
    <3>2. QED BY <3>1 DEF HandlerSound, Held, Reflected, Stamp
  <2>2. QED BY <2>1
<1>4. QED BY <1>1, <1>2, <1>3 DEF SettingsInv

\* A getter answers from the cache: what it gets is less than a lifetime old.
LEMMA HitSound ==
  ASSUME SettingsInv, NEW r \in SettingsReaders, Settings!Hit(r)
  PROVE  SettingsInv'
<1> DEFINE x == [pc |-> "answered", cached |-> TRUE, row |-> settingsCache.row,
                 floor |-> settingsTold, began |-> settingsNow]
<1>1. /\ reader' = [reader EXCEPT ![r] = x] /\ settingsCache # NoRow
      /\ settingsNow - settingsCache.loadedAt < SettingsTTL
      /\ UNCHANGED <<log, cacheCommittedAt, settingsCache, setter, settingsTold, settingsNow>>
  BY DEF Settings!Hit, Settings!Asked, Settings!Fresh
<1>2. /\ settingsCache \in Settings!CacheEntry /\ settingsTold \in Nat /\ settingsNow \in Nat
      /\ reader \in [SettingsReaders -> Getters] /\ LogInv
  BY <1>1 DEF SettingsInv, SettingsTypes, LogInv
<1>3. x \in Getters
  BY <1>2 DEF Getters, Settings!CacheEntry
<1>4. /\ Held(settingsCache.row) /\ settingsTold <= Stamp(settingsCache.row)
      /\ Reflected(Stamp(settingsCache.row), settingsCache.loadedAt, Latency)
  BY <1>1 DEF SettingsInv, EntrySound
<1>5. Reflected(Stamp(settingsCache.row), settingsNow, SettingsTTL + Latency - 1)
  <2>1. /\ SettingsTTL \in Nat \ {0} /\ Latency \in Nat /\ settingsCache.loadedAt \in Nat
        /\ SettingsTTL + Latency - 1 \in Nat
    BY <1>1, <1>2, StoresParameters DEF Settings!Parameters, Settings!CacheEntry
  <2>2. settingsNow - (SettingsTTL + Latency - 1) <= settingsCache.loadedAt - Latency
    BY <1>1, <1>2, <2>1
  <2>3. QED BY <1>2, <1>4, <2>1, <2>2, ReflectsMore
<1>6. GetterSound(x)
  BY <1>2, <1>4, <1>5 DEF GetterSound
<1> HIDE DEF x
<1>7. /\ reader' \in [SettingsReaders -> Getters] /\ reader'[r] = x
      /\ \A q \in SettingsReaders \ {r} : reader'[q] = reader[q]
  BY <1>1, <1>2, <1>3
<1>8. EntrySound' /\ settingsCache' \in Settings!CacheEntry \cup {NoRow}
  BY <1>1, SettingsStill DEF SettingsInv, SettingsTypes
<1>9. QED BY <1>1, <1>6, <1>7, <1>8, GetterStep

\* A getter goes to the table.
LEMMA AskSound ==
  ASSUME SettingsInv, NEW r \in SettingsReaders, NEW cached \in BOOLEAN,
         Settings!Asked(r, "issued", cached, NoRow),
         UNCHANGED <<log, cacheCommittedAt, settingsCache, setter, settingsTold, settingsNow>>
  PROVE  SettingsInv'
<1> DEFINE x == [pc |-> "issued", cached |-> cached, row |-> NoRow,
                 floor |-> settingsTold, began |-> settingsNow]
<1>1. reader' = [reader EXCEPT ![r] = x]
  BY DEF Settings!Asked
<1>2. /\ settingsTold \in Nat /\ settingsNow \in Nat /\ settingsTold <= Len(log) - 1
      /\ reader \in [SettingsReaders -> Getters] /\ Latency \in Nat
  BY StoresParameters DEF SettingsInv, SettingsTypes, LogInv, Settings!Parameters
<1>3. x \in Getters
  BY <1>2 DEF Getters
<1>4. GetterSound(x)
  BY <1>2 DEF GetterSound
<1> HIDE DEF x
<1>5. /\ reader' \in [SettingsReaders -> Getters] /\ reader'[r] = x
      /\ \A q \in SettingsReaders \ {r} : reader'[q] = reader[q]
  BY <1>1, <1>2, <1>3
<1>6. EntrySound' /\ settingsCache' \in Settings!CacheEntry \cup {NoRow}
  BY SettingsStill DEF SettingsInv, SettingsTypes
<1>7. QED BY <1>4, <1>5, <1>6, GetterStep

\* A getter reads the row as it now stands.
LEMMA ReadSound ==
  ASSUME SettingsInv, NEW r \in SettingsReaders, Settings!ReadRow(r)
  PROVE  SettingsInv'
<1> PICK x : x = [reader[r] EXCEPT !.pc = "read", !.row = Settings!table] OBVIOUS
<1>1. /\ reader' = [reader EXCEPT ![r].pc = "read", ![r].row = Settings!table]
      /\ UNCHANGED <<log, cacheCommittedAt, settingsCache, setter, settingsTold, settingsNow>>
      /\ reader[r].pc = "issued"
  BY DEF Settings!ReadRow
<1>2. /\ reader \in [SettingsReaders -> Getters] /\ reader[r] \in Getters /\ LogInv
      /\ GetterSound(reader[r]) /\ settingsTold <= Len(log) - 1
  BY DEF SettingsInv, SettingsTypes
<1>3. Settings!table \in Settings!Row /\ Held(Settings!table) /\ Stamp(Settings!table) = Len(log) - 1
  BY <1>2, TableHeld
<1>4. reader' = [reader EXCEPT ![r] = x]
  BY <1>1, <1>2
<1>5. /\ x \in Getters
      /\ x.pc = "read" /\ x.row = Settings!table /\ x.cached = reader[r].cached
      /\ x.floor = reader[r].floor /\ x.began = reader[r].began
  <2> PICK q \in Getters, row \in Settings!Row : q = reader[r] /\ row = Settings!table
    BY <1>2, <1>3
  <2>1. x = [q EXCEPT !.pc = "read", !.row = row]
    OBVIOUS
  <2>2. /\ x \in Getters
        /\ x.pc = "read" /\ x.row = row /\ x.cached = q.cached
        /\ x.floor = q.floor /\ x.began = q.began
    BY <2>1 DEF Getters
  <2>3. QED BY <2>2
<1>6. GetterSound(x)
  BY <1>1, <1>2, <1>3, <1>5 DEF GetterSound, Reflected
<1>7. /\ reader' \in [SettingsReaders -> Getters] /\ reader'[r] = x
      /\ \A q \in SettingsReaders \ {r} : reader'[q] = reader[q]
  BY <1>2, <1>4, <1>5
<1>8. EntrySound' /\ settingsCache' \in Settings!CacheEntry \cup {NoRow}
  BY <1>1, SettingsStill DEF SettingsInv, SettingsTypes
<1>9. QED BY <1>1, <1>6, <1>7, <1>8, GetterStep

\* A getter ends, having failed or answered.
LEMMA EndSound ==
  ASSUME SettingsInv, NEW r \in SettingsReaders,
         reader' = [reader EXCEPT ![r] = Settings!IdleReader],
         UNCHANGED <<log, cacheCommittedAt, settingsCache, setter, settingsTold, settingsNow>>
  PROVE  SettingsInv'
<1>1. reader \in [SettingsReaders -> Getters] /\ settingsNow \in Nat
  BY DEF SettingsInv, SettingsTypes, LogInv
<1>2. GetterSound(Settings!IdleReader) /\ Settings!IdleReader \in Getters
  BY <1>1, IdleSettings DEF GetterSound, IdleFacts
<1>3. /\ reader' \in [SettingsReaders -> Getters] /\ reader'[r] = Settings!IdleReader
      /\ \A q \in SettingsReaders \ {r} : reader'[q] = reader[q]
  BY <1>1, <1>2
<1>4. EntrySound' /\ settingsCache' \in Settings!CacheEntry \cup {NoRow}
  BY SettingsStill DEF SettingsInv, SettingsTypes
<1>5. QED BY <1>2, <1>3, <1>4, GetterStep

\* A getter answers, and overwrites the cache with a row that may be old, but not
\* older than a query.
LEMMA DeliverSound ==
  ASSUME SettingsInv, NEW r \in SettingsReaders, Settings!Deliver(r)
  PROVE  SettingsInv'
<1> DEFINE x == [reader[r] EXCEPT !.pc = "answered"]
           e == [row |-> reader[r].row, loadedAt |-> settingsNow]
<1>1. /\ reader' = [reader EXCEPT ![r] = x]
      /\ settingsCache' = IF reader[r].cached THEN e ELSE settingsCache
      /\ UNCHANGED <<log, cacheCommittedAt, setter, settingsTold, settingsNow>>
      /\ reader[r].pc = "read"
  BY DEF Settings!Deliver
<1>2. /\ reader \in [SettingsReaders -> Getters] /\ reader[r] \in Getters /\ LogInv
      /\ GetterSound(reader[r]) /\ settingsNow \in Nat /\ Latency \in Nat
      /\ SettingsTTL \in Nat \ {0} /\ \A v \in 1 .. Len(log) - 1 : cacheCommittedAt[v] \in Nat
  <2>1. SettingsTTL \in Nat \ {0} /\ Latency \in Nat
    BY StoresParameters DEF Settings!Parameters
  <2>2. LogInv /\ settingsNow \in Nat
        /\ \A v \in 1 .. Len(log) - 1 : cacheCommittedAt[v] \in Nat
    BY DEF SettingsInv, LogInv
  <2>3. QED BY <2>1, <2>2 DEF SettingsInv, SettingsTypes
<1>3. /\ x \in Getters /\ x.pc = "answered" /\ x.began = reader[r].began
      /\ x.row = reader[r].row /\ x.floor = reader[r].floor
      /\ reader[r].began \in Nat
  BY <1>2 DEF Getters
<1>4. /\ Held(reader[r].row) /\ reader[r].floor <= Stamp(reader[r].row)
      /\ reader[r].began <= settingsNow /\ settingsNow <= reader[r].began + Latency
      /\ Reflected(Stamp(reader[r].row), reader[r].began, 0)
      /\ reader[r].cached => settingsTold <= Stamp(reader[r].row)
  BY <1>1, <1>2 DEF GetterSound
<1>5. /\ Reflected(Stamp(reader[r].row), reader[r].began, SettingsTTL + Latency - 1)
      /\ Reflected(Stamp(reader[r].row), settingsNow, Latency)
  <2>1. PICK b \in Nat : b = reader[r].began
    BY <1>3
  <2>2. /\ SettingsTTL + Latency - 1 \in Nat /\ b - (SettingsTTL + Latency - 1) <= b - 0
        /\ settingsNow - Latency <= b - 0
    BY <1>2, <1>4, <2>1
  <2>3. Reflected(Stamp(reader[r].row), b, 0)
    BY <1>4, <2>1
  <2>4. /\ Reflected(Stamp(reader[r].row), b, SettingsTTL + Latency - 1)
        /\ Reflected(Stamp(reader[r].row), settingsNow, Latency)
    BY <1>2, <2>2, <2>3, ReflectsMore
  <2>5. QED BY <2>1, <2>4
<1>6. GetterSound(x)
  BY <1>3, <1>4, <1>5 DEF GetterSound
<1>7. e \in Settings!CacheEntry /\ e.row = reader[r].row /\ e.loadedAt = settingsNow
  BY <1>2, <1>4, HeldFacts DEF Settings!CacheEntry
<1> HIDE DEF x, e
<1>8. /\ reader' \in [SettingsReaders -> Getters] /\ reader'[r] = x
      /\ \A q \in SettingsReaders \ {r} : reader'[q] = reader[q]
  BY <1>1, <1>2, <1>3
<1>9. EntrySound' /\ settingsCache' \in Settings!CacheEntry \cup {NoRow}
  <2>1. CASE reader[r].cached
    <3>1. settingsCache' = e BY <1>1, <2>1
    <3>2. EntrySound'
      <4>1. settingsCache'.row = reader[r].row /\ settingsCache'.loadedAt = settingsNow
        BY <3>1, <1>7
      <4>2. Held(settingsCache.row)'
        BY <4>1, <1>1, <1>4 DEF Held
      <4>3. Stamp(settingsCache.row)' = Stamp(reader[r].row)
        BY <4>1 DEF Stamp
      <4>4. Reflected(Stamp(settingsCache.row), settingsCache.loadedAt, Latency)'
        BY <4>1, <4>3, <1>1, <1>5 DEF Reflected
      <4>5. settingsTold' <= Stamp(settingsCache.row)' /\ settingsCache'.loadedAt <= settingsNow'
        BY <4>1, <4>3, <1>1, <1>2, <1>4, <2>1
      <4>6. QED BY <4>2, <4>4, <4>5 DEF EntrySound
    <3>3. QED BY <3>1, <3>2, <1>7
  <2>2. CASE ~reader[r].cached
    BY <1>1, <2>2, SettingsStill DEF SettingsInv, SettingsTypes
  <2>3. QED BY <2>1, <2>2
<1>10. QED BY <1>1, <1>6, <1>8, <1>9, GetterStep

\* A commit: the rows, and what was read or cached, stay what they were.
LEMMA CommitSound ==
  ASSUME SettingsInv, NEW written \in SUBSET Fields, written # {}, Settings!Committed(written),
         UNCHANGED <<settingsCache, reader, settingsTold, settingsNow>>
  PROVE  /\ LogInv' /\ EntrySound'
         /\ settingsTold' <= Len(log') - 1
         /\ \A r \in SettingsReaders : GetterSound(reader[r])'
         /\ \A x \in Handlers : HandlerSound(x) => HandlerSound(x)'
<1>1. /\ LogInv /\ LogInv' /\ Len(log') = Len(log) + 1 /\ Len(log) \in Nat \ {0}
      /\ \A i \in 1 .. Len(log) : log'[i] = log[i]
      /\ \A v \in 1 .. Len(log) - 1 : cacheCommittedAt'[v] = cacheCommittedAt[v]
      /\ cacheCommittedAt'[Len(log)] = settingsNow
      /\ settingsNow \in Nat
  <2>1. LogInv /\ UNCHANGED settingsNow
    BY DEF SettingsInv
  <2>2. Len(log) \in Nat \ {0} /\ settingsNow \in Nat
    BY <2>1 DEF LogInv
  <2>3. QED BY <2>1, <2>2, CommitFacts
<1>2. ASSUME NEW row, Held(row) PROVE Held(row)'
  <2>1. PICK v \in 0 .. Len(log) - 1 : row = log[v + 1]
    BY <1>2 DEF Held
  <2>2. v \in 0 .. Len(log') - 1 /\ row = log'[v + 1]
    BY <2>1, <1>1
  <2>3. QED BY <2>2 DEF Held
<1>3. ASSUME NEW ver \in Nat, NEW t \in Nat, t <= settingsNow, NEW d \in Nat, Reflected(ver, t, d)
      PROVE  Reflected(ver, t, d)'
  BY <1>1, <1>3 DEF Reflected
<1>4. ASSUME NEW row, Held(row) PROVE Stamp(row)' = Stamp(row) /\ Stamp(row) \in Nat
  BY <1>1, <1>4, HeldFacts DEF Stamp
<1>5. SettingsTTL \in Nat \ {0} /\ Latency \in Nat
  BY StoresParameters DEF Settings!Parameters
<1>6. ASSUME NEW x \in Getters, GetterSound(x) PROVE GetterSound(x)'
  <2>1. x.began \in Nat /\ x.floor \in Nat
    BY DEF Getters
  <2>2. x.pc \in {"read", "answered"} =>
          /\ Held(x.row)' /\ Stamp(x.row)' = Stamp(x.row) /\ Stamp(x.row) \in Nat
    BY <1>6, <1>2, <1>4 DEF GetterSound
  <2>3. x.pc = "read" => Reflected(Stamp(x.row), x.began, 0)'
    BY <2>1, <2>2, <1>3, <1>6 DEF GetterSound
  <2>4. x.pc = "answered" => Reflected(Stamp(x.row), x.began, SettingsTTL + Latency - 1)'
    BY <2>1, <2>2, <1>3, <1>5, <1>6 DEF GetterSound
  <2>5. QED BY <2>1, <2>2, <2>3, <2>4, <1>1, <1>6 DEF GetterSound
<1>7. ASSUME NEW x \in Handlers, HandlerSound(x) PROVE HandlerSound(x)'
  <2>1. x.since \in Nat BY DEF Handlers
  <2>2. CASE x.pc = "committed"
    <3>1. /\ x.since <= settingsNow /\ Held(x.row) /\ Reflected(Stamp(x.row), x.since, 0)
          /\ settingsNow <= x.since + Latency /\ settingsTold <= Stamp(x.row)
      BY <1>7, <2>2 DEF HandlerSound
    <3>2. Held(x.row)' /\ Stamp(x.row)' = Stamp(x.row) /\ Stamp(x.row) \in Nat
      BY <3>1, <1>2, <1>4
    <3>3. Reflected(Stamp(x.row), x.since, 0)'
      BY <3>1, <3>2, <2>1, <1>3
    <3>4. QED BY <3>1, <3>2, <3>3 DEF HandlerSound
  <2>3. CASE x.pc # "committed"
    BY <2>3 DEF HandlerSound
  <2>4. QED BY <2>2, <2>3
<1>8. EntrySound'
  <2>1. CASE settingsCache # NoRow
    <3>1. /\ Held(settingsCache.row) /\ settingsTold <= Stamp(settingsCache.row)
          /\ settingsCache.loadedAt <= settingsNow /\ settingsCache.loadedAt \in Nat
          /\ Reflected(Stamp(settingsCache.row), settingsCache.loadedAt, Latency)
      BY <2>1 DEF SettingsInv, EntrySound, SettingsTypes, Settings!CacheEntry
    <3> DEFINE e == settingsCache
    <3>2. settingsCache' = e OBVIOUS
    <3> HIDE DEF e
    <3>3. /\ Held(settingsCache.row)'
          /\ Stamp(settingsCache.row)' = Stamp(settingsCache.row) /\ Stamp(settingsCache.row) \in Nat
      <4>1. \E v \in 0 .. Len(log') - 1 : settingsCache'.row = log'[v + 1]
        <5>1. PICK v \in 0 .. Len(log) - 1 : settingsCache.row = log[v + 1]
          BY <3>1 DEF Held
        <5>2. v \in 0 .. Len(log') - 1 /\ v + 1 \in 1 .. Len(log)
          BY <1>1
        <5>3. QED BY <5>1, <5>2, <1>1
      <4>2. Stamp(settingsCache.row) \in Nat
        BY <3>1, <1>1, HeldFacts
      <4>3. Stamp(settingsCache.row)' = Stamp(settingsCache.row)
        BY DEF Stamp
      <4>4. QED BY <4>1, <4>2, <4>3 DEF Held
    <3>4. Reflected(Stamp(settingsCache.row), settingsCache.loadedAt, Latency)'
      BY <3>1, <3>3, <1>1, <1>5 DEF Reflected
    <3>5. QED BY <3>1, <3>3, <3>4 DEF EntrySound
  <2>2. CASE settingsCache = NoRow
    BY <2>2 DEF EntrySound
  <2>3. QED BY <2>1, <2>2
<1>9. ASSUME NEW r \in SettingsReaders PROVE GetterSound(reader[r])'
  <2>1. reader[r] \in Getters /\ GetterSound(reader[r])
    BY DEF SettingsInv, SettingsTypes
  <2>2. PICK x : x = reader[r] OBVIOUS
  <2>3. GetterSound(x)'
    BY <2>1, <2>2, <1>6
  <2>4. reader'[r] = x BY <2>2
  <2>5. QED BY <2>3, <2>4 DEF GetterSound, Held, Reflected, Stamp
<1>10. settingsTold' <= Len(log') - 1
  BY <1>1 DEF SettingsInv, SettingsTypes
<1>11. QED BY <1>1, <1>7, <1>8, <1>9, <1>10

LEMMA WriteSound ==
  ASSUME SettingsInv, NEW s \in SettingsSetters, NEW drops \in BOOLEAN,
         NEW written \in SUBSET Fields, written # {}, Settings!Committed(written),
         setter' = [setter EXCEPT ![s] = [pc |-> "committed", drops |-> drops,
                      row |-> log'[Len(log')], since |-> settingsNow]],
         UNCHANGED <<settingsCache, reader, settingsTold, settingsNow>>
  PROVE  SettingsInv'
<1>1. /\ LogInv' /\ EntrySound' /\ settingsTold' <= Len(log') - 1
      /\ \A r \in SettingsReaders : GetterSound(reader[r])'
      /\ \A x \in Handlers : HandlerSound(x) => HandlerSound(x)'
  BY CommitSound
<1>2. /\ Held(Settings!table)' /\ Stamp(Settings!table)' = Len(log)
      /\ Settings!table' = log'[Len(log')] /\ Settings!table' \in Settings!Row
      /\ Len(log') = Len(log) + 1
  <2>1. /\ Held(Settings!table)' /\ Stamp(Settings!table)' = Len(log)
        /\ Settings!table' = log'[Len(log')] /\ Len(log') = Len(log) + 1
    BY CommitFacts DEF SettingsInv
  <2>2. log' \in Seq(Settings!Row) /\ log' # <<>>
    BY <1>1 DEF LogInv
  <2>3. QED BY <2>1, <2>2
<1> PICK x : x = [pc |-> "committed", drops |-> drops, row |-> log'[Len(log')],
                  since |-> settingsNow] OBVIOUS
<1>3. /\ x.pc = "committed" /\ x.row = Settings!table' /\ x.since = settingsNow
      /\ x \in Handlers
  BY <1>2 DEF SettingsInv, LogInv, Handlers
<1>4. HandlerSound(x)'
  <2>1. /\ Len(log) \in Nat /\ settingsNow \in Nat /\ Latency \in Nat
        /\ settingsTold <= Len(log) - 1 /\ settingsTold \in Nat
    BY StoresParameters DEF SettingsInv, SettingsTypes, LogInv, Settings!Parameters
  <2>2. Held(x.row)' /\ Stamp(x.row) = Len(log)
    BY <1>2, <1>3 DEF Held, Stamp
  <2>3. Stamp(x.row)' = Len(log)
    BY <2>2 DEF Stamp
  <2>4. Reflected(Stamp(x.row), x.since, 0)'
    BY <1>2, <2>1, <2>3 DEF Reflected
  <2>5. QED BY <2>1, <2>2, <2>3, <2>4, <1>3 DEF HandlerSound
<1>5. /\ setter' = [setter EXCEPT ![s] = x] /\ setter \in [SettingsSetters -> Handlers]
  BY DEF SettingsInv, SettingsTypes
<1>6. SettingsTypes'
  BY <1>1, <1>3, <1>5 DEF SettingsInv, SettingsTypes
<1>7. ASSUME NEW h \in SettingsSetters PROVE HandlerSound(setter[h])'
  <2>1. CASE h = s
    <3>1. setter'[h] = x BY <1>5, <2>1
    <3>2. QED BY <3>1, <1>4 DEF HandlerSound, Held, Reflected, Stamp
  <2>2. CASE h # s
    <3>1. setter'[h] = setter[h] /\ setter[h] \in Handlers /\ HandlerSound(setter[h])
      BY <1>5, <2>2 DEF SettingsInv
    <3>2. PICK y : y = setter[h] OBVIOUS
    <3>3. HandlerSound(y)' BY <3>1, <3>2, <1>1
    <3>4. setter'[h] = y BY <3>1, <3>2
    <3>5. QED BY <3>3, <3>4 DEF HandlerSound, Held, Reflected, Stamp
  <2>3. QED BY <2>1, <2>2
<1>8. QED BY <1>1, <1>6, <1>7 DEF SettingsInv

\* The refresh puts a row in the cache that is newer than the last refresh nothing
\* overlapped; if nothing overlaps this one either, no older row is on its way.
LEMMA RefreshSound ==
  ASSUME SettingsInv, NEW s \in SettingsSetters, Settings!Refresh(s)
  PROVE  SettingsInv'
<1> DEFINE h == setter[s]
           ver == Stamp(h.row)
<1>1. /\ h.pc = "committed" /\ settingsCache' = Settings!Refreshed(s)
      /\ settingsTold' = IF Settings!Overlapped(s) THEN settingsTold ELSE Settings!Reflects(h.row)
      /\ setter' = [setter EXCEPT ![s] = Settings!IdleSetter]
      /\ UNCHANGED <<log, cacheCommittedAt, reader, settingsNow>>
  BY DEF Settings!Refresh
<1>2. /\ LogInv /\ SettingsTypes /\ EntrySound /\ h \in Handlers
      /\ settingsTold \in Nat /\ settingsTold <= Len(log) - 1
  BY DEF SettingsInv, SettingsTypes
<1>3. /\ h.since <= settingsNow /\ settingsNow <= h.since + Latency
      /\ Held(h.row) /\ settingsTold <= ver /\ Reflected(ver, h.since, 0)
  BY <1>1 DEF SettingsInv, HandlerSound
<1>4. ver \in 0 .. Len(log) - 1 /\ Settings!Reflects(h.row) = ver /\ h.row \in Settings!Row
  BY <1>2, <1>3, HeldFacts
<1>5. /\ settingsTold' \in Nat /\ settingsTold' <= ver /\ settingsTold' <= Len(log') - 1
  BY <1>1, <1>2, <1>3, <1>4 DEF LogInv
<1>6. LogInv'
  BY <1>1, <1>2 DEF LogInv
<1>7. settingsNow \in Nat /\ Latency \in Nat /\ h.since \in Nat
      /\ \A v \in 1 .. Len(log) - 1 : cacheCommittedAt[v] \in Nat
  BY <1>2, StoresParameters DEF LogInv, Handlers, Settings!Parameters
<1>8. settingsCache' \in Settings!CacheEntry \cup {NoRow} /\ EntrySound'
  <2>1. CASE h.drops
    <3>1. settingsCache' = NoRow BY <1>1, <2>1 DEF Settings!Refreshed
    <3>2. QED BY <3>1 DEF EntrySound
  <2>2. CASE ~h.drops
    <3> PICK e : e = [row |-> h.row, loadedAt |-> settingsNow] OBVIOUS
    <3>1. settingsCache' = e /\ e.row = h.row /\ e.loadedAt = settingsNow
      BY <1>1, <2>2 DEF Settings!Refreshed
    <3>2. e \in Settings!CacheEntry
      BY <1>4, <1>7 DEF Settings!CacheEntry
    <3> HIDE DEF h
    <3>3. Held(settingsCache.row)' /\ Stamp(settingsCache.row)' = ver
      BY <3>1, <1>1, <1>3 DEF Held, Stamp
    <3>4. Reflected(ver, settingsNow, Latency)
      <4>1. PICK b \in Nat : b = h.since
        BY <1>7
      <4>2. Reflected(ver, b, 0) /\ settingsNow - Latency <= b - 0
        BY <1>3, <1>7, <4>1
      <4>3. QED BY <1>2, <1>7, <4>2, ReflectsMore
    <3>5. Reflected(Stamp(settingsCache.row), settingsCache.loadedAt, Latency)'
      BY <3>1, <3>3, <3>4, <1>1 DEF Reflected
    <3>6. QED BY <3>1, <3>2, <3>3, <3>5, <1>1, <1>5, <1>7 DEF EntrySound
  <2>3. QED BY <2>1, <2>2
<1>9. SettingsTypes'
  BY <1>1, <1>2, <1>5, <1>8, IdleSettings DEF SettingsTypes, IdleFacts
<1>10. ASSUME NEW r \in SettingsReaders PROVE GetterSound(reader[r])'
  <2> PICK x : x = reader[r] OBVIOUS
  <2>1. x \in Getters /\ GetterSound(x) /\ reader'[r] = x
    BY <1>1 DEF SettingsInv, SettingsTypes
  <2>2. x.pc = "read" /\ x.cached => settingsTold' <= Stamp(x.row)
    <3>1. CASE Settings!Overlapped(s)
      BY <1>1, <2>1, <3>1 DEF GetterSound
    <3>2. CASE ~Settings!Overlapped(s)
      BY <2>1, <3>2 DEF Settings!Overlapped
    <3>3. QED BY <3>1, <3>2
  <2>3. GetterSound(x)'
    BY <2>1, <2>2, <1>1 DEF GetterSound, Held, Reflected, Stamp
  <2>4. QED BY <2>1, <2>3 DEF GetterSound, Held, Reflected, Stamp
<1>11. ASSUME NEW o \in SettingsSetters PROVE HandlerSound(setter[o])'
  <2>1. CASE o = s
    <3>1. setter'[o] = Settings!IdleSetter
      BY <1>1, <1>2, <2>1 DEF SettingsTypes
    <3>2. setter'[o].pc = "idle"
      BY <3>1, IdleSettings DEF IdleFacts
    <3>3. QED BY <3>2 DEF HandlerSound
  <2>2. CASE o # s
    <3> PICK x : x = setter[o] OBVIOUS
    <3>1. x \in Handlers /\ HandlerSound(x) /\ setter'[o] = x
      BY <1>1, <1>2, <2>2 DEF SettingsInv, SettingsTypes
    <3>2. x.pc = "committed" => settingsTold' <= Stamp(x.row)
      <4>1. CASE Settings!Overlapped(s)
        BY <1>1, <3>1, <4>1 DEF HandlerSound
      <4>2. CASE ~Settings!Overlapped(s)
        BY <2>2, <4>2 DEF Settings!Overlapped
      <4>3. QED BY <4>1, <4>2
    <3>3. HandlerSound(x)'
      BY <3>1, <3>2, <1>1 DEF HandlerSound, Held, Reflected, Stamp
    <3>4. QED BY <3>1, <3>3 DEF HandlerSound, Held, Reflected, Stamp
  <2>3. QED BY <2>1, <2>2
<1>12. QED BY <1>6, <1>8, <1>9, <1>10, <1>11 DEF SettingsInv

LEMMA SettingsTickSound ==
  ASSUME SettingsInv, Settings!Tick
  PROVE  SettingsInv'
<1>1. /\ settingsNow' = settingsNow + 1 /\ settingsNow \in Nat /\ Latency \in Nat
      /\ UNCHANGED <<log, cacheCommittedAt, settingsCache, reader, setter, settingsTold>>
  BY StoresParameters DEF SettingsInv, LogInv, Settings!Tick, Settings!Parameters
<1>2. LogInv'
  <2>1. \A v \in 1 .. Len(log) - 1 : cacheCommittedAt[v] \in Nat
    BY DEF SettingsInv, LogInv
  <2>2. \A v \in 1 .. Len(log') - 1 : cacheCommittedAt'[v] <= settingsNow'
    BY <1>1, <2>1 DEF SettingsInv, LogInv
  <2>3. QED BY <1>1, <2>2 DEF SettingsInv, LogInv
<1>3. SettingsTypes' /\ EntrySound'
  <2>1. SettingsTypes' BY <1>1 DEF SettingsInv, SettingsTypes
  <2>2. settingsCache # NoRow => settingsCache.loadedAt \in Nat
    BY DEF SettingsInv, SettingsTypes, Settings!CacheEntry
  <2>3. EntrySound'
    BY <2>2, <1>1 DEF SettingsInv, EntrySound, Held, Reflected, Stamp
  <2>4. QED BY <2>1, <2>3
<1>4. ASSUME NEW r \in SettingsReaders PROVE GetterSound(reader[r])'
  <2>1. /\ GetterSound(reader[r]) /\ reader[r].began \in Nat /\ reader'[r] = reader[r]
    BY <1>1 DEF SettingsInv, SettingsTypes, Getters
  <2>2. reader[r].pc \in {"issued", "read"} => settingsNow - reader[r].began < Latency
    BY DEF Settings!Tick
  <2>3. /\ reader[r].began <= settingsNow'
        /\ reader[r].pc \in {"issued", "read"} => settingsNow' <= reader[r].began + Latency
    BY <2>1, <2>2, <1>1 DEF GetterSound
  <2>4. QED BY <2>1, <2>3, <1>1 DEF GetterSound, Held, Reflected, Stamp
<1>5. ASSUME NEW s \in SettingsSetters PROVE HandlerSound(setter[s])'
  <2>1. /\ HandlerSound(setter[s]) /\ setter[s].since \in Nat /\ setter'[s] = setter[s]
    BY <1>1 DEF SettingsInv, SettingsTypes, Handlers
  <2>2. setter[s].pc = "committed" => settingsNow - setter[s].since < Latency
    BY DEF Settings!Tick
  <2>3. setter[s].pc = "committed" =>
          setter[s].since <= settingsNow' /\ settingsNow' <= setter[s].since + Latency
    BY <2>1, <2>2, <1>1 DEF HandlerSound
  <2>4. QED BY <2>1, <2>3, <1>1 DEF HandlerSound, Held, Reflected, Stamp
<1>6. QED BY <1>2, <1>3, <1>4, <1>5 DEF SettingsInv

LEMMA SettingsStep == SettingsInv /\ [Settings!Next]_Settings!vars => SettingsInv'
<1> SUFFICES ASSUME SettingsInv, [Settings!Next]_Settings!vars PROVE SettingsInv'
  OBVIOUS
<1>1. ASSUME NEW r \in SettingsReaders,
             Settings!Hit(r) \/ Settings!Miss(r) \/ Settings!Brand(r) \/ Settings!ReadRow(r)
               \/ Settings!FailRead(r) \/ Settings!Deliver(r) \/ Settings!Return(r)
      PROVE  SettingsInv'
  <2>1. CASE Settings!Hit(r) BY <2>1, HitSound
  <2>2. CASE Settings!Miss(r) BY <2>2, AskSound DEF Settings!Miss
  <2>3. CASE Settings!Brand(r) BY <2>3, AskSound DEF Settings!Brand
  <2>4. CASE Settings!ReadRow(r) BY <2>4, ReadSound
  <2>5. CASE Settings!FailRead(r) BY <2>5, EndSound DEF Settings!FailRead
  <2>6. CASE Settings!Deliver(r) BY <2>6, DeliverSound
  <2>7. CASE Settings!Return(r) BY <2>7, EndSound DEF Settings!Return
  <2>8. QED BY <1>1, <2>1, <2>2, <2>3, <2>4, <2>5, <2>6, <2>7
<1>2. ASSUME NEW s \in SettingsSetters, NEW f \in Fields, Settings!Upsert(s, f)
      PROVE  SettingsInv'
  <2>1. {f} \in SUBSET Fields /\ {f} # {} /\ FALSE \in BOOLEAN
    OBVIOUS
  <2>2. QED BY <1>2, <2>1, WriteSound DEF Settings!Upsert
<1>3. ASSUME NEW s \in SettingsSetters, Settings!Rewrite(s)
      PROVE  SettingsInv'
  <2>1. Fields \in SUBSET Fields /\ Fields # {} /\ TRUE \in BOOLEAN
    BY StoresParameters DEF Settings!Parameters
  <2>2. QED BY <1>3, <2>1, WriteSound DEF Settings!Rewrite
<1>4. ASSUME NEW f \in Fields, Settings!UpsertElsewhere(f)
      PROVE  SettingsInv'
  <2>1. {f} \in SUBSET Fields /\ {f} # {}
    OBVIOUS
  <2>2. Settings!Committed({f}) /\ UNCHANGED <<settingsCache, reader, setter, settingsTold, settingsNow>>
    BY <1>4 DEF Settings!UpsertElsewhere
  <2>3. /\ LogInv' /\ EntrySound' /\ settingsTold' <= Len(log') - 1
        /\ \A r \in SettingsReaders : GetterSound(reader[r])'
        /\ \A x \in Handlers : HandlerSound(x) => HandlerSound(x)'
    BY <2>1, <2>2, CommitSound
  <2>4. SettingsTypes'
    BY <2>2, <2>3 DEF SettingsInv, SettingsTypes
  <2>5. ASSUME NEW s \in SettingsSetters PROVE HandlerSound(setter[s])'
    <3> PICK x : x = setter[s] OBVIOUS
    <3>1. x \in Handlers /\ HandlerSound(x) /\ setter'[s] = x
      BY <2>2 DEF SettingsInv, SettingsTypes
    <3>2. HandlerSound(x)' BY <3>1, <2>3
    <3>3. QED BY <3>1, <3>2 DEF HandlerSound, Held, Reflected, Stamp
  <2>6. QED BY <2>3, <2>4, <2>5 DEF SettingsInv
<1>5. ASSUME UNCHANGED Settings!vars PROVE SettingsInv'
  <2>1. UNCHANGED <<log, cacheCommittedAt, settingsCache, reader, setter, settingsTold, settingsNow>>
    BY <1>5 DEF Settings!vars
  <2>2. /\ LogInv' /\ EntrySound' /\ SettingsTypes'
        /\ \A x \in Getters : GetterSound(x) => GetterSound(x)'
        /\ \A x \in Handlers : HandlerSound(x) => HandlerSound(x)'
    BY <2>1, SettingsStill DEF SettingsInv, SettingsTypes
  <2>3. ASSUME NEW r \in SettingsReaders PROVE GetterSound(reader[r])'
    <3> PICK x : x = reader[r] OBVIOUS
    <3>1. x \in Getters /\ GetterSound(x) /\ reader'[r] = x
      BY <2>1 DEF SettingsInv, SettingsTypes
    <3>2. GetterSound(x)' BY <3>1, <2>2
    <3>3. QED BY <3>1, <3>2 DEF GetterSound, Held, Reflected, Stamp
  <2>4. ASSUME NEW s \in SettingsSetters PROVE HandlerSound(setter[s])'
    <3> PICK x : x = setter[s] OBVIOUS
    <3>1. x \in Handlers /\ HandlerSound(x) /\ setter'[s] = x
      BY <2>1 DEF SettingsInv, SettingsTypes
    <3>2. HandlerSound(x)' BY <3>1, <2>2
    <3>3. QED BY <3>1, <3>2 DEF HandlerSound, Held, Reflected, Stamp
  <2>5. QED BY <2>2, <2>3, <2>4 DEF SettingsInv
<1>6. QED
  BY <1>1, <1>2, <1>3, <1>4, <1>5, RefreshSound, SettingsTickSound DEF Settings!Next

LEMMA SettingsAlways == Settings!Spec => []SettingsInv
BY SettingsInit, SettingsStep, PTL DEF Settings!Spec

LEMMA SettingsTypeOK == SettingsInv => Settings!TypeOK
<1> SUFFICES ASSUME SettingsInv PROVE Settings!TypeOK
  OBVIOUS
<1>1. /\ LogInv /\ SettingsTypes
      /\ settingsCache # NoRow => settingsCache.row \in Settings!Range(log)
  BY HeldFacts DEF SettingsInv, EntrySound
<1>2. /\ log \in Seq(Settings!Row) /\ log # <<>> /\ cacheCommittedAt \in Seq(Nat)
      /\ settingsNow \in Nat /\ settingsTold \in Nat
      /\ settingsCache \in Settings!CacheEntry \cup {NoRow}
  BY <1>1 DEF LogInv, SettingsTypes
<1>3. /\ reader \in [SettingsReaders -> Getters]
      /\ setter \in [SettingsSetters -> Handlers]
  BY <1>1 DEF SettingsTypes
<1>4. QED
  BY <1>1, <1>2, <1>3 DEF Settings!TypeOK, Getters, Handlers

LEMMA SettingsPromises == SettingsInv => Settings!StalenessBounded /\ Settings!QuietSetterObeyed
<1> SUFFICES ASSUME SettingsInv, NEW r \in SettingsReaders, reader[r].pc = "answered"
             PROVE  /\ reader[r].floor <= Settings!Reflects(reader[r].row)
                    /\ \A v \in 1 .. Settings!version :
                         reader[r].began >= cacheCommittedAt[v] + SettingsTTL + Latency
                           => v <= Settings!Reflects(reader[r].row)
  BY DEF Settings!StalenessBounded, Settings!QuietSetterObeyed
<1>1. /\ LogInv /\ Held(reader[r].row) /\ reader[r].floor <= Stamp(reader[r].row)
      /\ Reflected(Stamp(reader[r].row), reader[r].began, SettingsTTL + Latency - 1)
      /\ reader[r].began \in Nat
  BY DEF SettingsInv, SettingsTypes, GetterSound, Getters
<1>2. Settings!Reflects(reader[r].row) = Stamp(reader[r].row)
  BY <1>1, HeldFacts
<1>3. /\ SettingsTTL \in Nat /\ Latency \in Nat
      /\ \A v \in 1 .. Len(log) - 1 : cacheCommittedAt[v] \in Nat
  <2>1. SettingsTTL \in Nat /\ Latency \in Nat
    BY StoresParameters DEF Settings!Parameters
  <2>2. \A v \in 1 .. Len(log) - 1 : cacheCommittedAt[v] \in Nat
    BY <1>1 DEF LogInv
  <2>3. QED BY <2>1, <2>2
<1>4. ASSUME NEW v \in 1 .. Settings!version,
             reader[r].began >= cacheCommittedAt[v] + SettingsTTL + Latency
      PROVE  v <= Stamp(reader[r].row)
  <2>1. v \in 1 .. Len(log) - 1 /\ cacheCommittedAt[v] \in Nat
    BY <1>3 DEF Settings!version
  <2>2. cacheCommittedAt[v] + (SettingsTTL + Latency - 1) < reader[r].began
    BY <1>1, <1>3, <1>4, <2>1
  <2>3. QED BY <1>1, <2>1, <2>2 DEF Reflected
<1>5. QED BY <1>1, <1>2, <1>4

\* Whoever begins late enough after a change, to the data or to a setting, sees it,
\* announced or not; and a getter that begins after a setter has answered, when
\* nothing overlapped its refresh, sees what it set.  (startLoad and publish;
\* getCached, cacheRow and invalidateSystemSettingsCache.)
THEOREM ChangesSeen == ASSUME Latency > 0 PROVE MCSpec => []ChangesAreSeen
<1>1. Spec => []StalenessBounded
  BY AnswersAge
<1>2. StalenessBounded /\ SettingsInv => ChangesAreSeen
  BY SettingsPromises DEF ChangesAreSeen
<1>3. QED BY <1>1, <1>2, Parts, SettingsAlways, PTL
----------------------------------------------------------------------------
(* The lockout: rungs and sets of sign-ins                                 *)

SignInRecs == [pc: {"away", "checking", "counted", "locking"}, attempts: Nat,
               lockedUntil: Nat, moved: Nat, failures: Nat]

Total == Cardinality(SignIns)

\* The shortest lock that n failures leave in the end.
Rung(n) == IF n - (Total - 1) >= Threshold THEN Lockout!LockLength(n - (Total - 1))
           ELSE Ladder[1]

\* The three modules count alike.
LEMMA SameSizes ==
  ASSUME NEW S
  PROVE  /\ Lockout!IsFiniteSet(S) <=> IsFiniteSet(S)
         /\ Lockout!Cardinality(S) = Cardinality(S)
         /\ Limits!Cardinality(S) = Cardinality(S)
<1>1. Lockout!IsFiniteSet(S) <=> IsFiniteSet(S)
  BY DEF Lockout!IsFiniteSet, IsFiniteSet
<1>2. Lockout!Cardinality(S) = Cardinality(S)
  BY DEF Lockout!Cardinality, Cardinality
<1>3. Limits!Cardinality(S) = Cardinality(S)
  BY DEF Limits!Cardinality, Cardinality
<1>4. QED BY <1>1, <1>2, <1>3

LEMMA LockoutParameters ==
  /\ Threshold \in Nat \ {0} /\ MaxFailures \in Nat /\ LoginMaxTime \in Nat \ {0}
  /\ Ladder \in Seq(Nat) /\ Len(Ladder) \in Nat \ {0} /\ Ladder[1] > 3
  /\ \A i \in 1 .. Len(Ladder) : Ladder[i] \in Nat
  /\ \A i, j \in 1 .. Len(Ladder) : i <= j => Ladder[i] <= Ladder[j]
  /\ IsFiniteSet(SignIns) /\ Total \in Nat \ {0}
  /\ Ladder[1] \in Nat /\ Lockout!Longest \in Nat
<1>1. /\ Threshold \in Nat \ {0} /\ MaxFailures \in Nat /\ LoginMaxTime \in Nat \ {0}
      /\ Ladder \in Seq(Nat) /\ Ladder # <<>> /\ Ladder[1] > 3
      /\ \A i, j \in DOMAIN Ladder : i <= j => Ladder[i] <= Ladder[j]
      /\ IsFiniteSet(SignIns) /\ SignIns # {}
  BY StoresParameters, SameSizes DEF Lockout!Parameters
<1>2. Total \in Nat \ {0}
  BY <1>1, FS_CardinalityType, FS_EmptySet DEF Total
<1>3. Len(Ladder) \in Nat \ {0} /\ DOMAIN Ladder = 1 .. Len(Ladder)
  BY <1>1
<1>4. \A i \in 1 .. Len(Ladder) : Ladder[i] \in Nat
  BY <1>1, <1>3
<1>5. Ladder[1] \in Nat /\ Lockout!Longest \in Nat
  BY <1>3, <1>4 DEF Lockout!Longest
<1>6. \A i, j \in 1 .. Len(Ladder) : i <= j => Ladder[i] <= Ladder[j]
  BY <1>1, <1>3
<1>7. QED BY <1>1, <1>2, <1>3, <1>4, <1>5, <1>6

\* A lock is as long as a rung of the ladder, and longer after more failures.
LEMMA LockLengths ==
  ASSUME NEW a \in Nat, a >= Threshold
  PROVE  /\ Lockout!LockLength(a) \in Nat
         /\ Lockout!LockLength(a) >= Ladder[1] /\ Lockout!LockLength(a) <= Lockout!Longest
         /\ \A b \in Nat : b >= a => Lockout!LockLength(a) <= Lockout!LockLength(b)
<1> DEFINE at(n) == Lockout!SmallerOf(n - Threshold + 1, Len(Ladder))
<1>1. ASSUME NEW n \in Nat, n >= Threshold
      PROVE  at(n) \in 1 .. Len(Ladder) /\ Lockout!LockLength(n) = Ladder[at(n)]
  BY <1>1, LockoutParameters DEF Lockout!SmallerOf, Lockout!LockLength
<1>2. ASSUME NEW b \in Nat, b >= a PROVE at(a) <= at(b)
  BY <1>2, LockoutParameters DEF Lockout!SmallerOf
<1> HIDE DEF at
<1>3. 1 \in 1 .. Len(Ladder) /\ Len(Ladder) \in 1 .. Len(Ladder)
  BY LockoutParameters
<1>4. /\ at(a) \in 1 .. Len(Ladder) /\ Lockout!LockLength(a) = Ladder[at(a)]
  BY <1>1
<1>5. Ladder[1] <= Ladder[at(a)] /\ Ladder[at(a)] <= Ladder[Len(Ladder)] /\ Ladder[at(a)] \in Nat
      /\ Ladder[1] \in Nat
  BY <1>3, <1>4, LockoutParameters
<1>6. ASSUME NEW b \in Nat, b >= a PROVE Lockout!LockLength(a) <= Lockout!LockLength(b)
  <2>1. at(b) \in 1 .. Len(Ladder) /\ Lockout!LockLength(b) = Ladder[at(b)]
    BY <1>1, <1>6, LockoutParameters
  <2>2. QED BY <1>2, <1>4, <1>6, <2>1, LockoutParameters
<1>7. QED BY <1>4, <1>5, <1>6 DEF Lockout!Longest

LEMMA RungBelow ==
  ASSUME NEW c \in Nat, c >= Threshold, NEW n \in Nat, n - c <= Total - 1
  PROVE  Rung(n) <= Lockout!LockLength(c) /\ Rung(n) \in Nat
<1>1. CASE n - (Total - 1) >= Threshold
  <2> PICK a : a = n - (Total - 1) OBVIOUS
  <2>1. a \in Nat /\ a >= Threshold /\ a <= c
    BY <1>1, LockoutParameters
  <2>2. Rung(n) = Lockout!LockLength(a)
    BY <1>1 DEF Rung
  <2>3. QED BY <2>1, <2>2, LockLengths
<1>2. CASE ~(n - (Total - 1) >= Threshold)
  <2>1. 1 \in 1 .. Len(Ladder) BY LockoutParameters
  <2>2. Rung(n) = Ladder[1] /\ Ladder[1] \in Nat
    BY <1>2, <2>1, LockoutParameters DEF Rung
  <2>3. QED BY <2>2, LockLengths
<1>3. QED BY <1>1, <1>2

Fails(x) == x.pc \in {"counted", "locking"}

\* The sign-ins that counted a failure after s and are not done with it; those that
\* may still count one.
Newer(f, s) == {o \in SignIns \ {s} : Fails(f[o]) /\ f[o].attempts > f[s].attempts}
Checking(f) == {o \in SignIns : f[o].pc = "checking"}
Waiting(f, s) == Checking(f) \ {s}

LEMMA SetsOfSignIns ==
  ASSUME NEW f, NEW s \in SignIns
  PROVE  /\ IsFiniteSet(Newer(f, s)) /\ IsFiniteSet(Waiting(f, s)) /\ IsFiniteSet(Checking(f))
         /\ Cardinality(Newer(f, s)) \in Nat /\ Cardinality(Waiting(f, s)) \in Nat
         /\ Cardinality(Checking(f)) \in Nat /\ Cardinality(Checking(f)) <= Total
         /\ Cardinality(Newer(f, s)) + Cardinality(Waiting(f, s)) <= Total - 1
<1>1. IsFiniteSet(SignIns) /\ Total \in Nat
  BY LockoutParameters
<1>2. IsFiniteSet(SignIns \ {s}) /\ Cardinality(SignIns \ {s}) = Total - 1
  BY <1>1, FS_RemoveElement DEF Total
<1>3. Newer(f, s) \subseteq SignIns \ {s} /\ Waiting(f, s) \subseteq SignIns \ {s} /\ Checking(f) \subseteq SignIns
  BY DEF Newer, Waiting, Checking
<1>4. /\ IsFiniteSet(Newer(f, s)) /\ IsFiniteSet(Waiting(f, s)) /\ IsFiniteSet(Checking(f))
      /\ Cardinality(Checking(f)) <= Total
  BY <1>1, <1>2, <1>3, FS_Subset DEF Total
<1>5. Newer(f, s) \cap Waiting(f, s) = {}
  BY DEF Newer, Waiting, Checking, Fails
<1>6. Newer(f, s) \cup Waiting(f, s) \subseteq SignIns \ {s}
  BY <1>3
<1>7. Cardinality(Newer(f, s) \cup Waiting(f, s)) <= Total - 1
  BY <1>2, <1>6, FS_Subset
<1>8. Cardinality(Newer(f, s) \cup Waiting(f, s)) = Cardinality(Newer(f, s)) + Cardinality(Waiting(f, s))
  <2>1. Cardinality({}) = 0 BY FS_EmptySet
  <2>2. /\ Cardinality(Newer(f, s)) \in Nat /\ Cardinality(Waiting(f, s)) \in Nat
    BY <1>4, FS_CardinalityType
  <2>3. Cardinality(Newer(f, s) \cup Waiting(f, s))
          = Cardinality(Newer(f, s)) + Cardinality(Waiting(f, s)) - Cardinality(Newer(f, s) \cap Waiting(f, s))
    BY <1>4, FS_Union
  <2>4. Cardinality(Newer(f, s) \cap Waiting(f, s)) = 0
    BY <1>5, <2>1
  <2>5. QED BY <2>2, <2>3, <2>4
<1>9. QED BY <1>4, <1>7, <1>8, FS_CardinalityType

LEMMA CheckingCount == ASSUME NEW f PROVE Cardinality(Checking(f)) \in Nat
<1>1. PICK s : s \in SignIns
  BY StoresParameters DEF Lockout!Parameters
<1>2. QED BY <1>1, SetsOfSignIns

\* What a step of one sign-in does to the sets of another.
LEMMA SetsMove ==
  ASSUME NEW f \in [SignIns -> SignInRecs], NEW g \in [SignIns -> SignInRecs],
         NEW p \in SignIns, NEW x \in SignInRecs, g[p] = x,
         \A o \in SignIns \ {p} : g[o] = f[o], NEW s \in SignIns \ {p}
  PROVE  /\ Newer(f, s) \ {p} \subseteq Newer(g, s)
         /\ Fails(x) /\ x.attempts > f[s].attempts => Newer(g, s) = Newer(f, s) \cup {p}
         /\ x.pc # "checking" => /\ Waiting(g, s) = Waiting(f, s) \ {p}
                                 /\ Checking(g) = Checking(f) \ {p}
         /\ p \in Waiting(f, s) <=> f[p].pc = "checking"
         /\ p \in Newer(f, s) => Fails(f[p]) /\ f[p].attempts > f[s].attempts
BY DEF Newer, Waiting, Checking, Fails

\* The moment by which a sign-in writes its lock.
Due(x) == IF x.pc = "counted" THEN x.moved + 2 ELSE x.moved + 1

\* Since s counted its failure no sign-in has counted two: either whoever counted
\* one is still on its way to a lock, or a lock holds until s has written its own.
Overtaken(n, until, f, s) ==
  \/ n - f[s].attempts <= Cardinality(Newer(f, s))
  \/ /\ n - f[s].attempts + Cardinality(Waiting(f, s)) <= Total - 1
     /\ until > Due(f[s])

LEMMA OvertakenKept ==
  ASSUME NEW n \in Nat, NEW until \in Nat, NEW f \in [SignIns -> SignInRecs],
         NEW g \in [SignIns -> SignInRecs], NEW s \in SignIns,
         Overtaken(n, until, f, s),
         g[s].attempts = f[s].attempts, Due(g[s]) <= Due(f[s]),
         Newer(f, s) \subseteq Newer(g, s), Waiting(g, s) \subseteq Waiting(f, s)
  PROVE  Overtaken(n, until, g, s)
<1>1. /\ Cardinality(Newer(f, s)) <= Cardinality(Newer(g, s))
      /\ Cardinality(Waiting(g, s)) <= Cardinality(Waiting(f, s))
  BY SetsOfSignIns, FS_Subset
<1>2. /\ Cardinality(Newer(f, s)) \in Nat /\ Cardinality(Newer(g, s)) \in Nat
      /\ Cardinality(Waiting(f, s)) \in Nat /\ Cardinality(Waiting(g, s)) \in Nat
      /\ f[s].attempts \in Nat /\ Total \in Nat
  BY SetsOfSignIns, LockoutParameters DEF SignInRecs
<1>3. Due(g[s]) \in Nat /\ Due(f[s]) \in Nat
  BY DEF Due, SignInRecs
<1>4. QED BY <1>1, <1>2, <1>3 DEF Overtaken

\* However late s is, fewer failures were counted since its own than there are
\* other sign-ins.
LEMMA OvertakenByFew ==
  ASSUME NEW n \in Nat, NEW until \in Nat, NEW f \in [SignIns -> SignInRecs],
         NEW s \in SignIns, Overtaken(n, until, f, s)
  PROVE  n - f[s].attempts + Cardinality(Waiting(f, s)) <= Total - 1
<1>1. /\ Cardinality(Newer(f, s)) \in Nat /\ Cardinality(Waiting(f, s)) \in Nat
      /\ f[s].attempts \in Nat /\ Total \in Nat
      /\ Cardinality(Newer(f, s)) + Cardinality(Waiting(f, s)) <= Total - 1
  BY SetsOfSignIns, LockoutParameters DEF SignInRecs
<1>2. QED BY <1>1 DEF Overtaken

LockTypes ==
  /\ {attempts, lockedUntil, failures, cleared, succeeded, lastFailure} \subseteq Nat
  /\ clock \in 1 .. LoginMaxTime /\ disturbed \in BOOLEAN
  /\ signIn \in [SignIns -> SignInRecs]

\* The history agrees with the row, and the bound on the failures bounds the count.
LockCounts ==
  /\ attempts + cleared = failures /\ succeeded <= cleared /\ lastFailure <= clock
  /\ failures + Cardinality(Checking(signIn)) < MaxFailures + Total
  /\ lockedUntil <= clock + Lockout!Longest

\* A sign-in rests at most a tick; one whose password is being checked read no more
\* failures than there are, and if it read none, none since the last clear; one
\* that locks does so for the rung of its count.
SignInSound(x) ==
  /\ x.pc # "away" => x.moved <= clock /\ clock <= x.moved + 1
  /\ x.pc = "checking" =>
       /\ x.failures <= failures
       /\ x.attempts = 0 => x.failures <= cleared
  /\ x.pc = "locking" =>
       /\ x.attempts >= Threshold /\ x.lockedUntil <= x.moved + Lockout!Longest
       /\ x.lockedUntil >= x.moved + Lockout!LockLength(x.attempts)
  /\ Fails(x) /\ ~disturbed => x.attempts <= attempts

LocksInOrder ==
  \A s \in SignIns :
    Fails(signIn[s]) /\ signIn[s].attempts >= Threshold
      => Overtaken(attempts, lockedUntil, signIn, s)

\* The last to count has yet to write its lock, or the lock is long enough.
LockStands ==
  attempts >= Threshold =>
    \/ \E s \in SignIns : Fails(signIn[s]) /\ signIn[s].attempts = attempts
    \/ lockedUntil >= lastFailure - 1 + Rung(attempts)

LockEarned == lockedUntil # Lockout!Unlocked => attempts >= Threshold

LockInv ==
  /\ LockTypes /\ LockCounts
  /\ \A s \in SignIns : SignInSound(signIn[s])
  /\ ~disturbed => LockEarned /\ LocksInOrder /\ LockStands

LEMMA AwaySignIn ==
  /\ Lockout!Away \in SignInRecs /\ Lockout!Away.pc = "away" /\ ~Fails(Lockout!Away)
  /\ SignInSound(Lockout!Away)
BY DEF Lockout!Away, Lockout!Unlocked, SignInRecs, Fails, SignInSound

LEMMA LockoutInit == Lockout!InitAccount => LockInv
<1> SUFFICES ASSUME Lockout!InitAccount PROVE LockInv
  OBVIOUS
<1>1. LockTypes
  <2>1. /\ attempts = 0 /\ lockedUntil = 0 /\ failures = 0 /\ cleared = 0 /\ succeeded = 0
        /\ lastFailure = 0 /\ clock = 1 /\ disturbed = FALSE
        /\ signIn = [s \in SignIns |-> Lockout!Away]
    BY DEF Lockout!InitAccount, Lockout!Unlocked
  <2>2. signIn \in [SignIns -> SignInRecs] BY <2>1, AwaySignIn
  <2>3. clock \in 1 .. LoginMaxTime BY <2>1, LockoutParameters
  <2>4. {attempts, lockedUntil, failures, cleared, succeeded, lastFailure} \subseteq Nat
    BY <2>1
  <2>5. disturbed \in BOOLEAN
    BY <2>1
  <2>6. QED BY <2>2, <2>3, <2>4, <2>5, Zenon DEF LockTypes
<1>2. \A s \in SignIns : signIn[s] = Lockout!Away
  BY DEF Lockout!InitAccount
<1>3. Checking(signIn) = {}
  BY <1>2, AwaySignIn DEF Checking
<1>4. Lockout!Longest \in Nat
  BY LockoutParameters DEF Lockout!Longest
<1>5. LockCounts
  <2>1. Cardinality(Checking(signIn)) = 0
    BY <1>3, FS_EmptySet
  <2>2. QED
    BY <1>4, <2>1, LockoutParameters DEF Lockout!InitAccount, LockCounts, Lockout!Unlocked
<1>6. LockEarned /\ LocksInOrder /\ LockStands
  BY <1>2, AwaySignIn, LockoutParameters
     DEF Lockout!InitAccount, LockEarned, LocksInOrder, LockStands, Lockout!Unlocked
<1>7. QED BY <1>1, <1>2, <1>5, <1>6, AwaySignIn DEF LockInv

\* What every step of one sign-in does to the others.
LEMMA SignInStep ==
  ASSUME LockInv, NEW p \in SignIns, NEW x \in SignInRecs, signIn' = [signIn EXCEPT ![p] = x]
  PROVE  /\ signIn \in [SignIns -> SignInRecs] /\ signIn[p] \in SignInRecs
         /\ signIn' \in [SignIns -> SignInRecs] /\ signIn'[p] = x
         /\ \A s \in SignIns \ {p} : signIn'[s] = signIn[s]
         /\ x.pc # "checking" =>
              /\ Cardinality(Checking(signIn')) <= Cardinality(Checking(signIn))
              /\ signIn[p].pc = "checking" =>
                   Cardinality(Checking(signIn')) = Cardinality(Checking(signIn)) - 1
         /\ Cardinality(Checking(signIn')) \in Nat /\ Cardinality(Checking(signIn')) <= Total
         /\ Cardinality(Checking(signIn)) \in Nat
<1>1. /\ signIn \in [SignIns -> SignInRecs] /\ signIn[p] \in SignInRecs
      /\ signIn' \in [SignIns -> SignInRecs] /\ signIn'[p] = x
      /\ \A s \in SignIns \ {p} : signIn'[s] = signIn[s]
  BY DEF LockInv, LockTypes
<1>2. IsFiniteSet(Checking(signIn)) /\ Cardinality(Checking(signIn)) \in Nat
  BY SetsOfSignIns
<1>3. Cardinality(Checking(signIn')) \in Nat /\ Cardinality(Checking(signIn')) <= Total
  BY SetsOfSignIns
<1>4. ASSUME x.pc # "checking"
      PROVE  /\ Cardinality(Checking(signIn')) <= Cardinality(Checking(signIn))
             /\ signIn[p].pc = "checking" =>
                  Cardinality(Checking(signIn')) = Cardinality(Checking(signIn)) - 1
  <2>1. Checking(signIn') = Checking(signIn) \ {p}
    BY <1>1, <1>4 DEF Checking
  <2>2. p \in Checking(signIn) <=> signIn[p].pc = "checking"
    BY DEF Checking
  <2>3. Cardinality(Checking(signIn) \ {p}) =
          IF p \in Checking(signIn) THEN Cardinality(Checking(signIn)) - 1
          ELSE Cardinality(Checking(signIn))
    BY <1>2, FS_RemoveElement
  <2>4. Cardinality(Checking(signIn)) - 1 <= Cardinality(Checking(signIn))
    BY <1>2
  <2>5. CASE signIn[p].pc = "checking"
    BY <2>1, <2>2, <2>3, <2>4, <2>5
  <2>6. CASE signIn[p].pc # "checking"
    <3>1. Cardinality(Checking(signIn')) = Cardinality(Checking(signIn))
      BY <2>1, <2>2, <2>3, <2>6
    <3>2. QED BY <1>2, <2>6, <3>1
  <2>7. QED BY <2>5, <2>6
<1>5. QED BY <1>1, <1>2, <1>3, <1>4

\* A step of a sign-in that ends without a lock of its own, or is still to write one:
\* the others keep their place.
LEMMA OthersKeepOrder ==
  ASSUME LockInv, NEW p \in SignIns, NEW x \in SignInRecs, signIn' = [signIn EXCEPT ![p] = x],
         ~disturbed, x.pc # "checking",
         \/ ~Fails(signIn[p]) \/ signIn[p].attempts < Threshold
         \/ Fails(x) /\ x.attempts = signIn[p].attempts,
         NEW s \in SignIns \ {p}, Fails(signIn[s]), signIn[s].attempts >= Threshold
  PROVE  Overtaken(attempts, lockedUntil, signIn', s)
<1>1. /\ signIn \in [SignIns -> SignInRecs] /\ signIn[p] \in SignInRecs
      /\ attempts \in Nat /\ lockedUntil \in Nat /\ signIn[s].attempts \in Nat
      /\ Overtaken(attempts, lockedUntil, signIn, s)
      /\ Threshold \in Nat /\ signIn[p].attempts \in Nat
  BY LockoutParameters DEF LockInv, LockTypes, LocksInOrder, SignInRecs
<1>2. /\ signIn' \in [SignIns -> SignInRecs] /\ signIn'[s] = signIn[s]
      /\ Newer(signIn, s) \ {p} \subseteq Newer(signIn', s)
      /\ Fails(x) /\ x.attempts > signIn[s].attempts => Newer(signIn', s) = Newer(signIn, s) \cup {p}
      /\ Waiting(signIn', s) = Waiting(signIn, s) \ {p}
      /\ p \in Newer(signIn, s) => Fails(signIn[p]) /\ signIn[p].attempts > signIn[s].attempts
  <2>1. /\ signIn' \in [SignIns -> SignInRecs] /\ signIn'[s] = signIn[s] /\ signIn'[p] = x
        /\ \A o \in SignIns \ {p} : signIn'[o] = signIn[o]
    BY <1>1
  <2>2. /\ Newer(signIn, s) \ {p} \subseteq Newer(signIn', s)
        /\ Fails(x) /\ x.attempts > signIn[s].attempts => Newer(signIn', s) = Newer(signIn, s) \cup {p}
        /\ p \in Newer(signIn, s) => Fails(signIn[p]) /\ signIn[p].attempts > signIn[s].attempts
    BY <2>1 DEF Newer, Fails
  <2>3. Waiting(signIn', s) = Waiting(signIn, s) \ {p}
    BY <2>1 DEF Waiting, Checking
  <2>4. QED BY <2>1, <2>2, <2>3
<1>3. Newer(signIn, s) \subseteq Newer(signIn', s)
  <2>1. CASE p \notin Newer(signIn, s) BY <1>2, <2>1
  <2>2. CASE p \in Newer(signIn, s)
    <3>1. Fails(signIn[p]) /\ signIn[p].attempts > signIn[s].attempts
      BY <1>2, <2>2
    <3>2. ~(signIn[p].attempts < Threshold)
      BY <1>1, <3>1
    <3>3. Fails(x) /\ x.attempts > signIn[s].attempts
      BY <3>1, <3>2
    <3>4. QED BY <1>2, <3>3
  <2>3. QED BY <2>1, <2>2
<1>4. Due(signIn'[s]) <= Due(signIn[s])
  BY <1>1, <1>2 DEF Due, SignInRecs
<1>5. QED BY <1>1, <1>2, <1>3, <1>4, OvertakenKept

LEMMA ReadAccountLock ==
  ASSUME LockInv, NEW p \in SignIns, Lockout!ReadAccount(p)
  PROVE  LockInv'
<1> PICK x : x = [pc |-> "checking", attempts |-> attempts, lockedUntil |-> lockedUntil,
                  moved |-> clock, failures |-> failures] OBVIOUS
<1>1. /\ signIn[p] = Lockout!Away /\ ~(lockedUntil > clock) /\ failures < MaxFailures
      /\ signIn' = [signIn EXCEPT ![p] = x]
      /\ UNCHANGED <<attempts, lockedUntil, clock, failures, cleared, succeeded, lastFailure, disturbed>>
  BY DEF Lockout!ReadAccount, Lockout!LockedOut, Lockout!history
<1>2. /\ attempts \in Nat /\ lockedUntil \in Nat /\ clock \in Nat /\ failures \in Nat /\ cleared \in Nat
      /\ attempts + cleared = failures /\ MaxFailures \in Nat /\ Total \in Nat
  BY LockoutParameters DEF LockInv, LockTypes, LockCounts
<1>3. x \in SignInRecs /\ x.pc = "checking" /\ ~Fails(x)
  BY <1>2 DEF SignInRecs, Fails
<1>4. /\ signIn \in [SignIns -> SignInRecs]
      /\ signIn' \in [SignIns -> SignInRecs] /\ signIn'[p] = x
      /\ \A s \in SignIns \ {p} : signIn'[s] = signIn[s]
      /\ Cardinality(Checking(signIn')) \in Nat /\ Cardinality(Checking(signIn')) <= Total
  BY <1>1, <1>3, SignInStep
<1>5. LockTypes' /\ LockCounts'
  <2>1. failures + Cardinality(Checking(signIn')) < MaxFailures + Total
    BY <1>1, <1>2, <1>4
  <2>2. QED BY <2>1, <1>1, <1>4 DEF LockInv, LockTypes, LockCounts
<1>6. \A s \in SignIns : SignInSound(signIn[s])'
  <2>1. SignInSound(x)'
    BY <1>1, <1>2, <1>3 DEF SignInSound
  <2>2. ASSUME NEW s \in SignIns \ {p} PROVE SignInSound(signIn[s])'
    BY <1>1, <1>4 DEF LockInv, SignInSound
  <2>3. SignInSound(signIn[p])'
    BY <1>4, <2>1 DEF SignInSound
  <2>4. QED BY <2>2, <2>3
<1>7. ASSUME ~disturbed' PROVE LockEarned' /\ LocksInOrder' /\ LockStands'
  <2>1. ~disturbed /\ LockEarned /\ LocksInOrder /\ LockStands
    BY <1>1, <1>7 DEF LockInv
  <2>2. LockEarned'
    BY <1>1, <2>1 DEF LockEarned
  <2>3. ASSUME NEW s \in SignIns, Fails(signIn'[s]), signIn'[s].attempts >= Threshold
        PROVE  Overtaken(attempts', lockedUntil', signIn', s)
    <3>1. s # p /\ signIn'[s] = signIn[s] /\ signIn[s] \in SignInRecs
      BY <1>3, <1>4, <2>3
    <3>2. Overtaken(attempts, lockedUntil, signIn, s)
      BY <2>1, <2>3, <3>1 DEF LocksInOrder
    <3>3. clock <= Due(signIn[s])
      BY <1>2, <2>3, <3>1 DEF LockInv, SignInSound, Due, Fails, SignInRecs
    <3>4. attempts - signIn[s].attempts <= Cardinality(Newer(signIn, s))
      BY <1>1, <1>2, <3>1, <3>2, <3>3 DEF Overtaken, Due, SignInRecs
    <3>5. Newer(signIn, s) \subseteq Newer(signIn', s)
      <4>1. p \notin Newer(signIn, s)
        BY <1>1, AwaySignIn DEF Newer
      <4>2. s \in SignIns \ {p} BY <3>1
      <4>3. Newer(signIn, s) \ {p} \subseteq Newer(signIn', s)
        BY <4>2, <1>3, <1>4, SetsMove
      <4>4. QED BY <4>1, <4>3
    <3>6. /\ Cardinality(Newer(signIn, s)) <= Cardinality(Newer(signIn', s))
          /\ Cardinality(Newer(signIn, s)) \in Nat /\ Cardinality(Newer(signIn', s)) \in Nat
      BY <3>5, SetsOfSignIns, FS_Subset
    <3>7. signIn[s].attempts \in Nat BY <3>1 DEF SignInRecs
    <3>8. QED BY <1>1, <1>2, <3>1, <3>4, <3>6, <3>7 DEF Overtaken
  <2>4. LockStands'
    <3>1. ASSUME NEW s \in SignIns, Fails(signIn[s]) PROVE signIn'[s] = signIn[s]
      <4>1. s # p BY <1>1, <3>1, AwaySignIn
      <4>2. QED BY <4>1, <1>4
    <3>2. QED BY <1>1, <2>1, <3>1 DEF LockStands, Rung
  <2>5. QED BY <2>2, <2>3, <2>4 DEF LocksInOrder
<1>8. QED BY <1>5, <1>6, <1>7 DEF LockInv

LEMMA CountFailureLock ==
  ASSUME LockInv, NEW p \in SignIns, Lockout!CountFailure(p)
  PROVE  LockInv'
<1> PICK x : x = [signIn[p] EXCEPT !.pc = "counted", !.attempts = attempts + 1, !.moved = clock]
  OBVIOUS
<1>1. /\ signIn[p].pc = "checking" /\ attempts' = attempts + 1 /\ failures' = failures + 1
      /\ lastFailure' = clock
      /\ UNCHANGED <<lockedUntil, clock, cleared, succeeded, disturbed>>
      /\ signIn' = [signIn EXCEPT ![p].pc = "counted", ![p].attempts = attempts + 1,
                                  ![p].moved = clock]
  BY DEF Lockout!CountFailure, Lockout!Counted
<1>2. /\ attempts \in Nat /\ lockedUntil \in Nat /\ clock \in Nat /\ failures \in Nat /\ cleared \in Nat
      /\ attempts + cleared = failures /\ MaxFailures \in Nat /\ Total \in Nat /\ Threshold \in Nat
      /\ signIn \in [SignIns -> SignInRecs] /\ signIn[p] \in SignInRecs
  <2>1. MaxFailures \in Nat /\ Total \in Nat /\ Threshold \in Nat /\ LoginMaxTime \in Nat
    BY LockoutParameters
  <2>2. attempts + cleared = failures
    BY DEF LockInv, LockCounts
  <2>3. QED BY <2>1, <2>2 DEF LockInv, LockTypes
<1>3. /\ x \in SignInRecs /\ x.pc = "counted" /\ x.attempts = attempts + 1 /\ x.moved = clock
      /\ Fails(x)
  <2>1. attempts + 1 \in Nat BY <1>2
  <2>2. QED BY <1>2, <2>1 DEF SignInRecs, Fails
<1>4. signIn' = [signIn EXCEPT ![p] = x]
  BY <1>1, <1>2
<1>5. /\ signIn' \in [SignIns -> SignInRecs] /\ signIn'[p] = x
      /\ \A s \in SignIns \ {p} : signIn'[s] = signIn[s]
      /\ Cardinality(Checking(signIn')) = Cardinality(Checking(signIn)) - 1
      /\ Cardinality(Checking(signIn)) \in Nat
  BY <1>1, <1>3, <1>4, SignInStep
<1>6. LockTypes' /\ LockCounts'
  <2>1. failures' + Cardinality(Checking(signIn')) < MaxFailures + Total
    BY <1>1, <1>2, <1>5 DEF LockInv, LockCounts
  <2>2. attempts' + cleared' = failures' /\ attempts' \in Nat /\ failures' \in Nat /\ lastFailure' \in Nat
    BY <1>1, <1>2
  <2>3. QED BY <2>1, <2>2, <1>1, <1>2, <1>5 DEF LockInv, LockTypes, LockCounts
<1>7. \A s \in SignIns : SignInSound(signIn[s])'
  <2>1. SignInSound(x)'
    BY <1>1, <1>2, <1>3 DEF SignInSound, Fails
  <2>2. ASSUME NEW s \in SignIns \ {p} PROVE SignInSound(signIn[s])'
    <3>1. SignInSound(signIn[s]) /\ signIn[s] \in SignInRecs /\ signIn'[s] = signIn[s]
      BY <1>2, <1>5 DEF LockInv
    <3>2. signIn[s].attempts \in Nat /\ signIn[s].failures \in Nat
      BY <3>1 DEF SignInRecs
    <3>3. QED BY <3>1, <3>2, <1>1, <1>2 DEF SignInSound
  <2>3. SignInSound(signIn[p])'
    BY <1>5, <2>1 DEF SignInSound
  <2>4. QED BY <2>2, <2>3
<1>8. ASSUME ~disturbed' PROVE LockEarned' /\ LocksInOrder' /\ LockStands'
  <2>1. ~disturbed /\ LockEarned /\ LocksInOrder /\ LockStands
    BY <1>1, <1>8 DEF LockInv
  <2>2. LockEarned'
    BY <1>1, <1>2, <2>1 DEF LockEarned
  <2>3. ASSUME NEW s \in SignIns, Fails(signIn'[s]), signIn'[s].attempts >= Threshold
        PROVE  Overtaken(attempts', lockedUntil', signIn', s)
    <3>1. CASE s = p
      <4>1. Cardinality(Newer(signIn', s)) \in Nat BY SetsOfSignIns
      <4>2. attempts' - signIn'[s].attempts = 0
        BY <1>1, <1>2, <1>3, <1>5, <3>1
      <4>3. QED BY <4>1, <4>2 DEF Overtaken
    <3>2. CASE s # p
      <4>1. /\ signIn'[s] = signIn[s] /\ signIn[s] \in SignInRecs /\ Fails(signIn[s])
            /\ signIn[s].attempts \in Nat
        BY <1>2, <1>5, <2>3, <3>2 DEF SignInRecs
      <4>2. signIn[s].attempts <= attempts
        BY <2>1, <4>1 DEF LockInv, SignInSound
      <4>3. Overtaken(attempts, lockedUntil, signIn, s)
        BY <1>5, <2>1, <2>3, <3>2 DEF LocksInOrder
      <4>4. /\ IsFiniteSet(Newer(signIn, s)) /\ Cardinality(Newer(signIn, s)) \in Nat
            /\ IsFiniteSet(Waiting(signIn, s)) /\ Cardinality(Waiting(signIn, s)) \in Nat
            /\ Cardinality(Waiting(signIn', s)) \in Nat
        BY SetsOfSignIns
      <4>5. Cardinality(Newer(signIn', s)) = Cardinality(Newer(signIn, s)) + 1
        <5>1. x.attempts > signIn[s].attempts
          BY <1>2, <1>3, <4>1, <4>2
        <5>2. s \in SignIns \ {p} BY <3>2
        <5>3. Newer(signIn', s) = Newer(signIn, s) \cup {p}
          BY <1>3, <1>5, <4>1, <5>1, <5>2 DEF Newer
        <5>4. p \notin Newer(signIn, s)
          BY <1>1 DEF Newer, Fails
        <5>5. QED BY <4>4, <5>3, <5>4, FS_AddElement
      <4>6. Cardinality(Waiting(signIn', s)) = Cardinality(Waiting(signIn, s)) - 1
        <5>1. Waiting(signIn', s) = Waiting(signIn, s) \ {p} /\ p \in Waiting(signIn, s)
          BY <1>1, <1>3, <1>5, <3>2 DEF Waiting, Checking
        <5>2. QED BY <4>4, <5>1, FS_RemoveElement
      <4>7. QED
        BY <1>1, <1>2, <4>1, <4>3, <4>4, <4>5, <4>6 DEF Overtaken
    <3>3. QED BY <3>1, <3>2
  <2>4. LockStands'
    <3>1. Fails(signIn'[p]) /\ signIn'[p].attempts = attempts'
      BY <1>1, <1>3, <1>5
    <3>2. QED BY <3>1 DEF LockStands
  <2>5. QED BY <2>2, <2>3, <2>4 DEF LocksInOrder
<1>9. QED BY <1>6, <1>7, <1>8 DEF LockInv

LEMMA ComputeLockLock ==
  ASSUME LockInv, NEW p \in SignIns, Lockout!ComputeLock(p)
  PROVE  LockInv'
<1> DEFINE q == signIn[p]
<1> PICK x : x = IF q.attempts < Threshold THEN Lockout!Away
                 ELSE [q EXCEPT !.pc = "locking", !.moved = clock,
                                !.lockedUntil = clock + Lockout!LockLength(q.attempts)]
  OBVIOUS
<1>1. /\ q.pc = "counted"
      /\ UNCHANGED <<attempts, lockedUntil, clock, failures, cleared, succeeded, lastFailure, disturbed>>
  BY DEF Lockout!ComputeLock, Lockout!history
<1>2. /\ attempts \in Nat /\ lockedUntil \in Nat /\ clock \in Nat /\ failures \in Nat
      /\ MaxFailures \in Nat /\ Total \in Nat /\ Threshold \in Nat \ {0}
      /\ signIn \in [SignIns -> SignInRecs] /\ q \in SignInRecs
      /\ SignInSound(q)
  <2>1. MaxFailures \in Nat /\ Total \in Nat /\ Threshold \in Nat \ {0} /\ LoginMaxTime \in Nat
    BY LockoutParameters
  <2>2. QED BY <2>1 DEF LockInv, LockTypes
<1>3. q.attempts \in Nat /\ q.moved \in Nat /\ q.moved <= clock /\ clock <= q.moved + 1 /\ Fails(q)
  BY <1>1, <1>2 DEF SignInRecs, SignInSound, Fails
<1>4. signIn' = [signIn EXCEPT ![p] = x]
  <2>1. CASE q.attempts < Threshold
    BY <2>1, <1>1 DEF Lockout!ComputeLock, Lockout!Leave
  <2>2. CASE ~(q.attempts < Threshold)
    <3>1. signIn' = [signIn EXCEPT ![p].pc = "locking", ![p].moved = clock,
                       ![p].lockedUntil = clock + Lockout!LockLength(q.attempts)]
      BY <2>2, <1>1 DEF Lockout!ComputeLock
    <3>2. QED BY <3>1, <2>2, <1>2
  <2>3. QED BY <2>1, <2>2
<1>5. q.attempts < Threshold => x = Lockout!Away /\ x \in SignInRecs /\ x.pc = "away"
  BY AwaySignIn
<1>6. ~(q.attempts < Threshold) =>
        /\ x \in SignInRecs /\ x.pc = "locking" /\ x.attempts = q.attempts /\ x.moved = clock
        /\ x.lockedUntil = clock + Lockout!LockLength(q.attempts)
        /\ Lockout!LockLength(q.attempts) <= Lockout!Longest
        /\ Lockout!LockLength(q.attempts) \in Nat
  <2> SUFFICES ASSUME ~(q.attempts < Threshold)
               PROVE  /\ x \in SignInRecs /\ x.pc = "locking" /\ x.attempts = q.attempts /\ x.moved = clock
                      /\ x.lockedUntil = clock + Lockout!LockLength(q.attempts)
                      /\ Lockout!LockLength(q.attempts) <= Lockout!Longest
                      /\ Lockout!LockLength(q.attempts) \in Nat
    OBVIOUS
  <2>1. q.attempts >= Threshold BY <1>2, <1>3
  <2>2. /\ Lockout!LockLength(q.attempts) \in Nat /\ Lockout!LockLength(q.attempts) <= Lockout!Longest
    BY <2>1, <1>3, LockLengths
  <2>3. clock + Lockout!LockLength(q.attempts) \in Nat BY <2>2, <1>2
  <2>4. x = [q EXCEPT !.pc = "locking", !.moved = clock,
                      !.lockedUntil = clock + Lockout!LockLength(q.attempts)]
    OBVIOUS
  <2>5. QED BY <2>2, <2>3, <2>4, <1>2 DEF SignInRecs
<1>7. x \in SignInRecs /\ x.pc # "checking"
  BY <1>5, <1>6
<1> HIDE DEF q
<1>8. /\ signIn' \in [SignIns -> SignInRecs] /\ signIn'[p] = x
      /\ \A s \in SignIns \ {p} : signIn'[s] = signIn[s]
      /\ Cardinality(Checking(signIn')) <= Cardinality(Checking(signIn))
      /\ Cardinality(Checking(signIn)) \in Nat /\ Cardinality(Checking(signIn')) \in Nat
  BY <1>4, <1>7, SignInStep
<1>9. LockTypes' /\ LockCounts'
  <2>1. failures + Cardinality(Checking(signIn')) < MaxFailures + Total
    BY <1>2, <1>8 DEF LockInv, LockCounts
  <2>2. QED BY <2>1, <1>1, <1>8 DEF LockInv, LockTypes, LockCounts
<1>10. \A s \in SignIns : SignInSound(signIn[s])'
  <2>1. SignInSound(x)'
    <3>1. CASE q.attempts < Threshold
      BY <1>5, <3>1 DEF SignInSound, Fails
    <3>2. CASE ~(q.attempts < Threshold)
      <4>1. /\ x.pc = "locking" /\ x.attempts = q.attempts /\ x.moved = clock
            /\ x.lockedUntil = clock + Lockout!LockLength(q.attempts)
            /\ Lockout!LockLength(q.attempts) <= Lockout!Longest
            /\ Lockout!LockLength(q.attempts) \in Nat
        BY <3>2, <1>6
      <4>2. ~disturbed => q.attempts <= attempts
        BY <1>2, <1>3 DEF SignInSound
      <4>3. /\ x.lockedUntil <= x.moved + Lockout!Longest
            /\ x.lockedUntil >= x.moved + Lockout!LockLength(x.attempts)
            /\ x.attempts >= Threshold /\ x.moved <= clock /\ clock <= x.moved + 1
        <5>1. q.attempts >= Threshold BY <3>2, <1>2, <1>3
        <5>2. x.lockedUntil = x.moved + Lockout!LockLength(x.attempts)
          BY <4>1
        <5>3. x.moved + Lockout!LockLength(x.attempts) <= x.moved + Lockout!Longest
          <6>1. PICK a \in Nat, b \in Nat :
                  a = Lockout!LockLength(x.attempts) /\ b = Lockout!Longest
            BY <4>1, LockoutParameters
          <6>2. a <= b /\ x.moved \in Nat
            BY <4>1, <1>2, <6>1
          <6>3. QED BY <6>1, <6>2
        <5>4. QED BY <4>1, <5>1, <5>2, <5>3, <1>2
      <4>4. /\ clock' = clock /\ attempts' = attempts /\ disturbed' = disturbed
            /\ x.pc # "checking"
        BY <4>1, <1>1
      <4>5. QED BY <4>1, <4>2, <4>3, <4>4 DEF SignInSound
    <3>3. QED BY <3>1, <3>2
  <2>2. ASSUME NEW s \in SignIns \ {p} PROVE SignInSound(signIn[s])'
    BY <1>1, <1>8 DEF LockInv, SignInSound
  <2>3. SignInSound(signIn[p])'
    BY <1>8, <2>1 DEF SignInSound
  <2>4. QED BY <2>2, <2>3
<1>11. ASSUME ~disturbed' PROVE LockEarned' /\ LocksInOrder' /\ LockStands'
  <2>1. ~disturbed /\ LockEarned /\ LocksInOrder /\ LockStands
    BY <1>1, <1>11 DEF LockInv
  <2>2. LockEarned'
    BY <1>1, <2>1 DEF LockEarned
  <2>3. ASSUME NEW s \in SignIns, Fails(signIn'[s]), signIn'[s].attempts >= Threshold
        PROVE  Overtaken(attempts', lockedUntil', signIn', s)
    <3>1. CASE s = p
      <4>1. ~(q.attempts < Threshold) /\ signIn[p] = q
        BY <1>5, <1>8, <2>3, <3>1 DEF Fails, q
      <4>2. /\ x.attempts = q.attempts /\ x.pc = "locking" /\ x.moved = clock
        BY <1>6, <4>1
      <4>3. Overtaken(attempts, lockedUntil, signIn, p)
        BY <2>1, <4>1, <1>2, <1>3 DEF LocksInOrder
      <4>4. Due(signIn'[p]) <= Due(signIn[p])
        BY <4>1, <4>2, <1>1, <1>2, <1>3, <1>8 DEF Due
      <4>5. Newer(signIn, p) \subseteq Newer(signIn', p) /\ Waiting(signIn', p) \subseteq Waiting(signIn, p)
        BY <4>1, <4>2, <1>8 DEF Newer, Waiting, Checking
      <4>6. signIn'[p].attempts = signIn[p].attempts
        BY <4>1, <4>2, <1>8
      <4>7. QED BY <3>1, <4>3, <4>4, <4>5, <4>6, <1>1, <1>2, <1>8, OvertakenKept
    <3>2. CASE s # p
      <4>1. s \in SignIns \ {p} /\ signIn'[s] = signIn[s]
        BY <1>8, <3>2
      <4>2. \/ signIn[p].attempts < Threshold
            \/ Fails(x) /\ x.attempts = signIn[p].attempts
        BY <1>6 DEF q, Fails
      <4>3. QED BY <4>1, <4>2, <2>1, <2>3, <1>1, <1>4, <1>7, OthersKeepOrder
    <3>3. QED BY <3>1, <3>2
  <2>4. LockStands'
    <3>1. ASSUME NEW s \in SignIns, Fails(signIn[s]), signIn[s].attempts = attempts,
                 attempts >= Threshold
          PROVE  Fails(signIn'[s]) /\ signIn'[s].attempts = attempts
      <4>1. CASE s = p
        <5>1. ~(q.attempts < Threshold) /\ q.attempts = attempts
          BY <3>1, <4>1, <1>2 DEF q
        <5>2. QED BY <4>1, <5>1, <1>6, <1>8 DEF Fails
      <4>2. CASE s # p
        BY <3>1, <4>2, <1>8
      <4>3. QED BY <4>1, <4>2
    <3>2. QED BY <1>1, <2>1, <3>1 DEF LockStands, Rung
  <2>5. QED BY <2>2, <2>3, <2>4 DEF LocksInOrder
<1>12. QED BY <1>9, <1>10, <1>11 DEF LockInv

LEMMA WriteLockLock ==
  ASSUME LockInv, NEW p \in SignIns, Lockout!WriteLock(p)
  PROVE  LockInv'
<1> PICK q : q = signIn[p] OBVIOUS
<1> PICK x : x = Lockout!Away OBVIOUS
<1>1. /\ q.pc = "locking" /\ lockedUntil' = q.lockedUntil
      /\ signIn' = [signIn EXCEPT ![p] = x]
      /\ UNCHANGED <<attempts, clock, failures, cleared, succeeded, lastFailure, disturbed>>
  BY DEF Lockout!WriteLock, Lockout!Leave
<1>2. /\ attempts \in Nat /\ lockedUntil \in Nat /\ clock \in Nat /\ failures \in Nat
      /\ lastFailure \in Nat /\ lastFailure <= clock
      /\ MaxFailures \in Nat /\ Total \in Nat /\ Threshold \in Nat \ {0}
      /\ signIn \in [SignIns -> SignInRecs] /\ q \in SignInRecs
      /\ SignInSound(q) /\ Lockout!Longest \in Nat /\ Ladder[1] \in Nat /\ Ladder[1] > 3
  BY LockoutParameters DEF LockInv, LockTypes, LockCounts
<1>3. /\ q.attempts \in Nat /\ q.moved \in Nat /\ q.lockedUntil \in Nat /\ q.attempts >= Threshold
      /\ q.moved <= clock /\ clock <= q.moved + 1 /\ Fails(q)
      /\ q.lockedUntil <= q.moved + Lockout!Longest
      /\ q.lockedUntil >= q.moved + Lockout!LockLength(q.attempts)
  BY <1>1, <1>2 DEF SignInRecs, SignInSound, Fails
<1>4. Lockout!LockLength(q.attempts) \in Nat /\ Lockout!LockLength(q.attempts) >= Ladder[1]
  BY <1>3, LockLengths
<1>5. x \in SignInRecs /\ x.pc = "away" /\ ~Fails(x) /\ x = Lockout!Away
  BY AwaySignIn
<1>6. /\ signIn' \in [SignIns -> SignInRecs] /\ signIn'[p] = x
      /\ \A s \in SignIns \ {p} : signIn'[s] = signIn[s]
      /\ Cardinality(Checking(signIn')) <= Cardinality(Checking(signIn))
      /\ Cardinality(Checking(signIn)) \in Nat /\ Cardinality(Checking(signIn')) \in Nat
  BY <1>1, <1>5, SignInStep
<1>7. LockTypes' /\ LockCounts'
  <2>1. failures + Cardinality(Checking(signIn')) < MaxFailures + Total
    BY <1>2, <1>6 DEF LockInv, LockCounts
  <2>2. lockedUntil' \in Nat /\ lockedUntil' <= clock + Lockout!Longest
    BY <1>1, <1>2, <1>3
  <2>3. QED BY <2>1, <2>2, <1>1, <1>6 DEF LockInv, LockTypes, LockCounts
<1>8. \A s \in SignIns : SignInSound(signIn[s])'
  <2>1. SignInSound(x)'
    BY <1>5 DEF SignInSound, Fails
  <2>2. ASSUME NEW s \in SignIns \ {p} PROVE SignInSound(signIn[s])'
    BY <1>1, <1>6 DEF LockInv, SignInSound
  <2>3. SignInSound(signIn[p])'
    BY <1>6, <2>1 DEF SignInSound
  <2>4. QED BY <2>2, <2>3
<1>9. ASSUME ~disturbed' PROVE LockEarned' /\ LocksInOrder' /\ LockStands'
  <2>1. ~disturbed /\ LockEarned /\ LocksInOrder /\ LockStands
    BY <1>1, <1>9 DEF LockInv
  <2>2. LockEarned'
    BY <1>1, <1>2, <1>3, <2>1 DEF LockEarned, SignInSound
  <2>3. ASSUME NEW s \in SignIns, Fails(signIn'[s]), signIn'[s].attempts >= Threshold
        PROVE  Overtaken(attempts', lockedUntil', signIn', s)
    <3>1. s # p /\ signIn'[s] = signIn[s] /\ signIn[s] \in SignInRecs /\ SignInSound(signIn[s])
      BY <1>2, <1>5, <1>6, <2>3 DEF LockInv
    <3>2. Overtaken(attempts, lockedUntil, signIn, s)
      BY <2>1, <2>3, <3>1 DEF LocksInOrder
    <3>3. attempts - signIn[s].attempts + Cardinality(Waiting(signIn, s)) <= Total - 1
      BY <3>2, <1>2, OvertakenByFew
    <3>4. Waiting(signIn', s) = Waiting(signIn, s)
      BY <1>1, <1>5, <1>6, <3>1 DEF Waiting, Checking
    <3>5. lockedUntil' > Due(signIn'[s])
      <4>1. signIn[s].moved \in Nat /\ signIn[s].moved <= clock
        BY <2>3, <3>1 DEF SignInRecs, SignInSound, Fails
      <4>2. Due(signIn'[s]) <= clock + 2 /\ Due(signIn'[s]) \in Nat
        BY <3>1, <4>1, <1>2 DEF Due
      <4>3. lockedUntil' >= clock + 3
        BY <1>1, <1>2, <1>3, <1>4
      <4>4. QED BY <4>2, <4>3, <1>1, <1>2, <1>3
    <3>6. QED BY <1>1, <3>1, <3>3, <3>4, <3>5 DEF Overtaken
  <2>4. LockStands'
    <3>1. Overtaken(attempts, lockedUntil, signIn, p)
      BY <2>1, <1>3 DEF LocksInOrder
    <3>2. attempts - q.attempts + Cardinality(Waiting(signIn, p)) <= Total - 1
      BY <3>1, <1>2, OvertakenByFew
    <3>3. attempts - q.attempts <= Total - 1
      <4>1. Cardinality(Waiting(signIn, p)) \in Nat BY SetsOfSignIns
      <4>2. QED BY <3>2, <4>1, <1>2, <1>3
    <3>4. Rung(attempts) <= Lockout!LockLength(q.attempts) /\ Rung(attempts) \in Nat
      BY <3>3, <1>2, <1>3, RungBelow
    <3>5. lockedUntil' >= lastFailure - 1 + Rung(attempts)
      BY <3>4, <1>1, <1>2, <1>3, <1>4
    <3>6. QED BY <3>5, <1>1 DEF LockStands, Rung
  <2>5. QED BY <2>2, <2>3, <2>4 DEF LocksInOrder
<1>10. QED BY <1>7, <1>8, <1>9 DEF LockInv

\* A clear leaves nothing to be wrong about: whoever is failing disturbs it.
LEMMA ClearLock ==
  ASSUME LockInv, Lockout!Clear, UNCHANGED <<clock, failures, lastFailure>>,
         signIn' \in [SignIns -> SignInRecs],
         \A s \in SignIns : signIn'[s] = signIn[s] \/ signIn'[s] = Lockout!Away,
         Cardinality(Checking(signIn')) <= Cardinality(Checking(signIn)),
         succeeded' \in Nat, succeeded' <= failures
  PROVE  LockInv'
<1>1. /\ attempts' = 0 /\ lockedUntil' = 0 /\ cleared' = failures
      /\ disturbed' = \E o \in SignIns : Lockout!Failing(o)
  BY DEF Lockout!Clear, Lockout!Unlocked
<1>2. /\ failures \in Nat /\ clock \in Nat /\ lastFailure \in Nat /\ Total \in Nat
      /\ MaxFailures \in Nat /\ Lockout!Longest \in Nat /\ Threshold \in Nat \ {0}
      /\ signIn \in [SignIns -> SignInRecs]
  BY LockoutParameters DEF LockInv, LockTypes
<1>3. disturbed' <=> \E o \in SignIns : Fails(signIn[o])
  BY <1>1 DEF Lockout!Failing, Fails
<1>4. LockTypes'
  <2>1. disturbed' \in BOOLEAN BY <1>1
  <2>2. {attempts', lockedUntil', failures', cleared', succeeded', lastFailure'} \subseteq Nat
    BY <1>1, <1>2
  <2>3. clock' \in 1 .. LoginMaxTime BY DEF LockInv, LockTypes
  <2>4. QED BY <2>1, <2>2, <2>3 DEF LockTypes
<1>5. LockCounts'
  <2>1. Cardinality(Checking(signIn)) \in Nat /\ Cardinality(Checking(signIn')) \in Nat
    BY CheckingCount
  <2>2. failures + Cardinality(Checking(signIn')) < MaxFailures + Total
    BY <1>2, <2>1 DEF LockInv, LockCounts
  <2>3. QED BY <1>1, <1>2, <2>2 DEF LockInv, LockCounts
<1>6. ASSUME NEW s \in SignIns PROVE SignInSound(signIn[s])'
  <2>1. CASE signIn'[s] = Lockout!Away
    BY <2>1, AwaySignIn DEF SignInSound
  <2>2. CASE signIn'[s] = signIn[s]
    <3>1. SignInSound(signIn[s]) /\ signIn[s] \in SignInRecs /\ (Fails(signIn[s]) => disturbed')
      BY <1>2, <1>3 DEF LockInv
    <3>2. QED BY <2>2, <3>1, <1>1, <1>2 DEF SignInSound
  <2>3. QED BY <2>1, <2>2
<1>7. ASSUME ~disturbed' PROVE LockEarned' /\ LocksInOrder' /\ LockStands'
  <2>1. \A s \in SignIns : ~Fails(signIn'[s])
    BY <1>3, <1>7, AwaySignIn
  <2>2. LockEarned' BY <1>1 DEF LockEarned, Lockout!Unlocked
  <2>3. LocksInOrder' BY <2>1 DEF LocksInOrder
  <2>4. LockStands' BY <1>1, <1>2 DEF LockStands
  <2>5. QED BY <2>2, <2>3, <2>4
<1>8. QED BY <1>4, <1>5, <1>6, <1>7 DEF LockInv

\* A sign-in ends without having touched the row, and without a failure lost.
LEMMA LeaveLock ==
  ASSUME LockInv, NEW p \in SignIns, signIn' = [signIn EXCEPT ![p] = Lockout!Away],
         UNCHANGED <<attempts, lockedUntil, clock, failures, cleared, lastFailure>>,
         disturbed' \in BOOLEAN, ~disturbed' => ~disturbed /\ ~Fails(signIn[p]),
         succeeded' \in Nat, succeeded' <= cleared
  PROVE  LockInv'
<1> PICK x : x = Lockout!Away OBVIOUS
<1>1. x \in SignInRecs /\ x.pc = "away" /\ ~Fails(x) /\ x = Lockout!Away
  BY AwaySignIn
<1>2. /\ signIn \in [SignIns -> SignInRecs]
      /\ signIn' \in [SignIns -> SignInRecs] /\ signIn'[p] = x
      /\ \A s \in SignIns \ {p} : signIn'[s] = signIn[s]
      /\ Cardinality(Checking(signIn')) <= Cardinality(Checking(signIn))
      /\ Cardinality(Checking(signIn)) \in Nat /\ Cardinality(Checking(signIn')) \in Nat
  BY <1>1, SignInStep
<1>3. failures \in Nat /\ MaxFailures \in Nat /\ Total \in Nat
  BY LockoutParameters DEF LockInv, LockTypes
<1>4. LockTypes' /\ LockCounts'
  <2>1. failures + Cardinality(Checking(signIn')) < MaxFailures + Total
    BY <1>2, <1>3 DEF LockInv, LockCounts
  <2>2. LockCounts' BY <2>1 DEF LockInv, LockCounts
  <2>3. {attempts', lockedUntil', failures', cleared', succeeded', lastFailure'} \subseteq Nat
    BY DEF LockInv, LockTypes
  <2>4. clock' \in 1 .. LoginMaxTime BY DEF LockInv, LockTypes
  <2>5. QED BY <1>2, <2>2, <2>3, <2>4 DEF LockTypes
<1>5. \A s \in SignIns : SignInSound(signIn[s])'
  <2>1. SignInSound(x)'
    BY <1>1 DEF SignInSound, Fails
  <2>2. ASSUME NEW s \in SignIns \ {p} PROVE SignInSound(signIn[s])'
    <3>1. SignInSound(signIn[s]) /\ signIn'[s] = signIn[s] BY <1>2 DEF LockInv
    <3>2. QED BY <3>1 DEF SignInSound
  <2>3. SignInSound(signIn[p])'
    BY <1>2, <2>1 DEF SignInSound
  <2>4. QED BY <2>2, <2>3
<1>6. ASSUME ~disturbed' PROVE LockEarned' /\ LocksInOrder' /\ LockStands'
  <2>1. ~disturbed /\ ~Fails(signIn[p]) /\ LockEarned /\ LocksInOrder /\ LockStands
    BY <1>6 DEF LockInv
  <2>2. LockEarned'
    BY <2>1 DEF LockEarned
  <2>3. ASSUME NEW s \in SignIns, Fails(signIn'[s]), signIn'[s].attempts >= Threshold
        PROVE  Overtaken(attempts', lockedUntil', signIn', s)
    <3>1. s \in SignIns \ {p} /\ signIn'[s] = signIn[s]
      BY <1>1, <1>2, <2>3
    <3>2. QED BY <3>1, <1>1, <2>1, <2>3, OthersKeepOrder
  <2>4. LockStands'
    <3>1. ASSUME NEW s \in SignIns, Fails(signIn[s]) PROVE signIn'[s] = signIn[s]
      BY <1>2, <2>1, <3>1
    <3>2. QED BY <2>1, <3>1 DEF LockStands, Rung
  <2>5. QED BY <2>2, <2>3, <2>4 DEF LocksInOrder
<1>7. QED BY <1>4, <1>5, <1>6 DEF LockInv

LEMMA RegisterSuccessLock ==
  ASSUME LockInv, NEW p \in SignIns, Lockout!RegisterSuccess(p)
  PROVE  LockInv'
<1>1. /\ signIn[p].pc = "checking"
      /\ succeeded' = IF signIn[p].failures > succeeded THEN signIn[p].failures ELSE succeeded
      /\ signIn' = [signIn EXCEPT ![p] = Lockout!Away]
      /\ UNCHANGED <<clock, failures, lastFailure>>
  BY DEF Lockout!RegisterSuccess, Lockout!Leave
<1>2. /\ signIn[p] \in SignInRecs /\ succeeded \in Nat /\ cleared \in Nat /\ failures \in Nat
      /\ attempts \in Nat /\ attempts + cleared = failures /\ succeeded <= cleared
      /\ SignInSound(signIn[p]) /\ disturbed \in BOOLEAN
  BY DEF LockInv, LockTypes, LockCounts
<1>3. signIn[p].failures \in Nat /\ signIn[p].failures <= failures
  BY <1>1, <1>2 DEF SignInRecs, SignInSound
<1>4. CASE Lockout!NothingToClear(p)
  <2>1. UNCHANGED <<attempts, lockedUntil, cleared, disturbed>>
    BY <1>4 DEF Lockout!RegisterSuccess
  <2>2. signIn[p].failures <= cleared
    BY <1>1, <1>2, <1>4 DEF SignInSound, Lockout!NothingToClear
  <2>3. succeeded' \in Nat /\ succeeded' <= cleared
    BY <1>1, <1>2, <1>3, <2>2
  <2>4. ~Fails(signIn[p])
    BY <1>1 DEF Fails
  <2>5. disturbed' \in BOOLEAN /\ (~disturbed' => ~disturbed /\ ~Fails(signIn[p]))
    BY <1>2, <2>1, <2>4
  <2>6. QED BY <1>1, <2>1, <2>3, <2>5, LeaveLock
<1>5. CASE ~Lockout!NothingToClear(p)
  <2>1. Lockout!Clear
    BY <1>5 DEF Lockout!RegisterSuccess
  <2>2. succeeded' \in Nat /\ succeeded' <= failures
    BY <1>1, <1>2, <1>3
  <2>3. /\ signIn' \in [SignIns -> SignInRecs] /\ signIn'[p] = Lockout!Away
        /\ \A s \in SignIns \ {p} : signIn'[s] = signIn[s]
        /\ Cardinality(Checking(signIn')) <= Cardinality(Checking(signIn))
    BY <1>1, AwaySignIn, SignInStep
  <2>4. \A s \in SignIns : signIn'[s] = signIn[s] \/ signIn'[s] = Lockout!Away
    BY <2>3
  <2>5. QED BY <1>1, <2>1, <2>2, <2>3, <2>4, ClearLock
<1>6. QED BY <1>4, <1>5

LEMMA GiveUpLock ==
  ASSUME LockInv, NEW p \in SignIns, Lockout!GiveUp(p)
  PROVE  LockInv'
<1>1. /\ signIn' = [signIn EXCEPT ![p] = Lockout!Away]
      /\ disturbed' = (disturbed \/ Lockout!Failing(p))
      /\ UNCHANGED <<attempts, lockedUntil, clock, failures, cleared, succeeded, lastFailure>>
  BY DEF Lockout!GiveUp, Lockout!Leave
<1>2. disturbed' \in BOOLEAN /\ (~disturbed' => ~disturbed /\ ~Fails(signIn[p]))
  BY <1>1 DEF Lockout!Failing, Fails
<1>3. succeeded' \in Nat /\ succeeded' <= cleared
  BY <1>1 DEF LockInv, LockTypes, LockCounts
<1>4. QED BY <1>1, <1>2, <1>3, LeaveLock

LEMMA TickClockLock ==
  ASSUME LockInv, Lockout!TickClock
  PROVE  LockInv'
<1>1. /\ clock' = clock + 1 /\ clock < LoginMaxTime
      /\ \A s \in SignIns : signIn[s] # Lockout!Away => signIn[s].moved = clock
      /\ UNCHANGED <<attempts, lockedUntil, signIn, failures, cleared, succeeded, lastFailure, disturbed>>
  BY DEF Lockout!TickClock, Lockout!history
<1>2. /\ clock \in Nat /\ clock \in 1 .. LoginMaxTime /\ lockedUntil \in Nat /\ lastFailure \in Nat
      /\ Lockout!Longest \in Nat /\ LoginMaxTime \in Nat
      /\ signIn \in [SignIns -> SignInRecs]
  BY LockoutParameters DEF LockInv, LockTypes
<1>3. LockTypes' /\ LockCounts'
  <2>1. clock' \in 1 .. LoginMaxTime BY <1>1, <1>2
  <2>2. lastFailure <= clock' /\ lockedUntil <= clock' + Lockout!Longest
    BY <1>1, <1>2 DEF LockInv, LockCounts
  <2>3. QED BY <1>1, <2>1, <2>2 DEF LockInv, LockTypes, LockCounts
<1>4. ASSUME NEW s \in SignIns PROVE SignInSound(signIn[s])'
  <2>1. SignInSound(signIn[s]) /\ signIn[s] \in SignInRecs /\ signIn'[s] = signIn[s]
    BY <1>1, <1>2 DEF LockInv
  <2>2. signIn[s].pc # "away" => signIn[s].moved = clock
    BY <1>1, AwaySignIn
  <2>3. QED BY <2>1, <2>2, <1>1, <1>2 DEF SignInSound
<1>5. ~disturbed' => LockEarned' /\ LocksInOrder' /\ LockStands'
  BY <1>1 DEF LockInv, LockEarned, LocksInOrder, LockStands, Rung
<1>6. QED BY <1>3, <1>4, <1>5 DEF LockInv

LEMMA LockoutStep == LockInv /\ [Lockout!NextAccount]_Lockout!loginVars => LockInv'
<1> SUFFICES ASSUME LockInv, [Lockout!NextAccount]_Lockout!loginVars PROVE LockInv'
  OBVIOUS
<1>1. ASSUME NEW p \in SignIns,
             \/ Lockout!ReadAccount(p) \/ Lockout!CountFailure(p) \/ Lockout!ComputeLock(p)
             \/ Lockout!WriteLock(p) \/ Lockout!RegisterSuccess(p) \/ Lockout!GiveUp(p)
      PROVE  LockInv'
  BY <1>1, ReadAccountLock, CountFailureLock, ComputeLockLock, WriteLockLock,
     RegisterSuccessLock, GiveUpLock
<1>2. CASE Lockout!UnblockUsername
  <2>1. Lockout!Clear /\ succeeded' = failures /\ UNCHANGED <<signIn, clock, failures, lastFailure>>
    BY <1>2 DEF Lockout!UnblockUsername
  <2>2. /\ failures \in Nat /\ signIn \in [SignIns -> SignInRecs]
        /\ Cardinality(Checking(signIn)) \in Nat
    BY CheckingCount DEF LockInv, LockTypes
  <2>3. succeeded' \in Nat /\ succeeded' <= failures
        /\ Cardinality(Checking(signIn')) <= Cardinality(Checking(signIn))
    BY <2>1, <2>2
  <2>4. QED BY <2>1, <2>2, <2>3, ClearLock
<1>3. CASE UNCHANGED Lockout!loginVars
  <2>1. UNCHANGED <<attempts, lockedUntil, signIn, clock, failures, cleared, succeeded,
                    lastFailure, disturbed>>
    BY <1>3 DEF Lockout!loginVars, Lockout!history
  <2>2. LockTypes' /\ LockCounts'
    BY <2>1 DEF LockInv, LockTypes, LockCounts
  <2>3. \A s \in SignIns : SignInSound(signIn[s])'
    BY <2>1 DEF LockInv, SignInSound
  <2>4. ~disturbed' => LockEarned' /\ LocksInOrder' /\ LockStands'
    BY <2>1 DEF LockInv, LockEarned, LocksInOrder, LockStands, Rung
  <2>5. QED BY <2>2, <2>3, <2>4 DEF LockInv
<1>4. QED BY <1>1, <1>2, <1>3, TickClockLock DEF Lockout!NextAccount

LEMMA LockoutAlways == Lockout!LoginSpec => []LockInv
BY LockoutInit, LockoutStep, PTL DEF Lockout!LoginSpec

LEMMA LoginTypes == LockInv => Lockout!LoginTypeOK
<1> SUFFICES ASSUME LockInv PROVE Lockout!LoginTypeOK
  OBVIOUS
<1>1. /\ {attempts, lockedUntil, failures, cleared, succeeded, lastFailure} \subseteq Nat
      /\ clock \in 1 .. LoginMaxTime /\ disturbed \in BOOLEAN
      /\ signIn \in [SignIns -> SignInRecs]
  BY DEF LockInv, LockTypes
<1>2. Cardinality(Checking(signIn)) \in Nat
  BY CheckingCount
<1>3. attempts \in 0 .. MaxFailures + Lockout!Cardinality(SignIns)
  <2>1. Lockout!Cardinality(SignIns) = Total
    BY SameSizes DEF Total
  <2>2. QED BY <1>1, <1>2, <2>1, LockoutParameters DEF LockInv, LockCounts
<1>4. lockedUntil \in 0 .. clock + Lockout!Longest
  BY <1>1, LockoutParameters DEF LockInv, LockCounts
<1>5. QED BY <1>1, <1>3, <1>4 DEF Lockout!LoginTypeOK, SignInRecs

LEMMA LocksAreEarned == LockInv => Lockout!LocksEarned
<1> SUFFICES ASSUME LockInv, ~disturbed
             PROVE  Lockout!LockHolds /\ Lockout!NoSpuriousLock
  BY DEF Lockout!LocksEarned, Lockout!LockHolds, Lockout!NoSpuriousLock
<1>1. /\ attempts \in Nat /\ lockedUntil \in Nat /\ failures \in Nat /\ cleared \in Nat
      /\ succeeded \in Nat /\ clock \in Nat /\ clock >= 1 /\ lastFailure \in Nat
      /\ attempts + cleared = failures /\ succeeded <= cleared
      /\ LockEarned /\ LockStands /\ Total \in Nat /\ Threshold \in Nat
  BY LockoutParameters DEF LockInv, LockTypes, LockCounts
<1>2. Lockout!NoSpuriousLock
  BY <1>1 DEF LockEarned, Lockout!NoSpuriousLock, Lockout!Locked, Lockout!Unlocked
<1>3. Lockout!LockHolds
  <2>1. Lockout!Cardinality(SignIns) = Total /\ failures - cleared = attempts
    BY <1>1, SameSizes DEF Total
  <2>2. ASSUME Lockout!Settled, attempts >= Threshold
        PROVE  lockedUntil >= lastFailure - 1 + Rung(attempts)
    BY <1>1, <2>2 DEF LockStands, Lockout!Settled, Lockout!Failing, Fails
  <2>3. QED BY <2>1, <2>2 DEF Lockout!LockHolds, Rung
<1>4. QED BY <1>2, <1>3
----------------------------------------------------------------------------
(* The limiter: windows of one key                                         *)

Verdict == [at: Nat, is: {"allowed", "refused", "open"}]

LEMMA LimitsParameters ==
  /\ AddressOf \in [Limited -> Addresses \cup {NoRow}] /\ Limited \cap Nonces = {}
  /\ MaxAttempts \in Nat \ {0} /\ Window \in Nat \ {0, 1}
  /\ PerSecond \in Nat \ {0} /\ Skew \in Nat \ {0}
  /\ CleanupInterval \in Nat /\ LimitsTime \in Nat
  /\ Mixes \subseteq Limits!Workload
  /\ NoRow \notin Addresses \cup Limits!Row
BY StoresParameters DEF Limits!Parameters, Limits!Row

\* The attempts of history h after the first m are those of the last window, which
\* an attempt that read the clock at s began.  Its first MaxAttempts attempts were
\* not refused, none after them was admitted; the attempts before it read the
\* clock earlier, and those of them admitted less than a window earlier are at
\* most MaxAttempts in a row.  The row counts the window, or went after its end.
LastWindow(row, h, t, m, s) ==
  /\ m \in 0 .. Len(h) /\ s \in Int /\ s <= t
  /\ row # NoRow => row.count = Len(h) - m /\ row.resetAt = s + Window
  /\ row = NoRow => t > s + Window
  /\ \A j \in 1 .. Len(h) :
       IF j <= m THEN h[j].at < s
       ELSE /\ s - 1 <= h[j].at /\ h[j].at < s + Window
            /\ h[j].is = "allowed" => j <= m + MaxAttempts
            /\ h[j].is = "refused" => j > m + MaxAttempts
  /\ \E e \in Nat : \A j \in 1 .. m :
       h[j].is = "allowed" /\ h[j].at >= s - Window => e < j /\ j <= e + MaxAttempts

\* The attempts admitted in any span of a window lie in two stretches.
Spread(h) ==
  \A t \in Nat : \E a, b \in Nat : \A j \in 1 .. Len(h) :
    h[j].is = "allowed" /\ t <= h[j].at /\ h[j].at < t + Window =>
      (a < j /\ j <= a + MaxAttempts) \/ (b < j /\ j <= b + MaxAttempts)

\* Before each refusal MaxAttempts attempts in a row were not refused, the earliest
\* of them a window earlier or later.
Refusals(h) ==
  \A j \in 1 .. Len(h) : h[j].is = "refused" =>
    \E e \in Nat :
      /\ e + MaxAttempts <= Len(h)
      /\ \A i \in e + 1 .. e + MaxAttempts :
           h[i].is # "refused" /\ h[i].at >= h[j].at - Window

KeySound(row, h, t) ==
  /\ \E m \in Nat, s \in Int : LastWindow(row, h, t, m, s)
  /\ Spread(h) /\ Refusals(h)

LEMMA AppendVerdict ==
  ASSUME NEW h \in Seq(Verdict), NEW v \in Verdict, NEW g, g = Append(h, v)
  PROVE  /\ g \in Seq(Verdict) /\ Len(g) = Len(h) + 1 /\ Len(h) \in Nat
         /\ g[Len(h) + 1] = v
         /\ \A j \in 1 .. Len(h) : g[j] = h[j] /\ h[j] \in Verdict /\ h[j].at \in Nat
         /\ \A j \in 1 .. Len(g) : j \in 1 .. Len(h) \/ j = Len(h) + 1
<1>1. /\ g \in Seq(Verdict) /\ Len(g) = Len(h) + 1 /\ Len(h) \in Nat
      /\ g[Len(h) + 1] = v
      /\ \A j \in 1 .. Len(h) : g[j] = h[j] /\ h[j] \in Verdict
  OBVIOUS
<1>2. \A j \in 1 .. Len(h) : h[j].at \in Nat
  BY <1>1 DEF Verdict
<1>3. \A j \in 1 .. Len(g) : j \in 1 .. Len(h) \/ j = Len(h) + 1
  BY <1>1
<1>4. QED BY <1>1, <1>2, <1>3

LEMMA NothingYet ==
  ASSUME NEW t \in Nat
  PROVE  KeySound(NoRow, <<>>, t)
<1>1. LastWindow(NoRow, <<>>, t, 0, 0 - Window - 1)
  BY LimitsParameters DEF LastWindow
<1>2. Spread(<<>>) /\ Refusals(<<>>)
  BY DEF Spread, Refusals
<1>3. 0 - Window - 1 \in Int /\ 0 \in Nat
  BY LimitsParameters
<1>4. QED BY <1>1, <1>2, <1>3 DEF KeySound

\* An attempt counted in the window that is open.
LEMMA JoinWindow ==
  ASSUME NEW row \in Limits!Row, NEW h \in Seq(Verdict), NEW now_ \in Nat, NEW m, NEW s,
         LastWindow(row, h, now_, m, s),
         NEW t \in Nat, t <= now_, now_ <= t + 1, row.resetAt > t,
         NEW v \in Verdict, v.at = t,
         v.is = "allowed" => row.count + 1 <= MaxAttempts,
         v.is = "refused" => ~(row.count + 1 <= MaxAttempts)
  PROVE  LastWindow(Limits!Bucket(row, t), Append(h, v), now_, m, s)
<1> DEFINE g == Append(h, v)
           new == Limits!Bucket(row, t)
<1>1. /\ g \in Seq(Verdict) /\ Len(g) = Len(h) + 1 /\ Len(h) \in Nat /\ g[Len(h) + 1] = v
      /\ \A j \in 1 .. Len(h) : g[j] = h[j] /\ h[j] \in Verdict /\ h[j].at \in Nat
      /\ \A j \in 1 .. Len(g) : j \in 1 .. Len(h) \/ j = Len(h) + 1
  BY AppendVerdict
<1>2. row # NoRow /\ row.count \in Nat /\ row.resetAt \in Nat
  BY LimitsParameters DEF Limits!Row
<1>3. /\ m \in 0 .. Len(h) /\ s \in Int /\ s <= now_
      /\ row.count = Len(h) - m /\ row.resetAt = s + Window
      /\ Window \in Nat /\ MaxAttempts \in Nat
  BY <1>2, LimitsParameters DEF LastWindow
<1>4. new = [count |-> row.count + 1, resetAt |-> row.resetAt]
  BY <1>2, <1>3 DEF Limits!Bucket
<1>5. new \in Limits!Row /\ new # NoRow /\ new.count = row.count + 1 /\ new.resetAt = row.resetAt
  BY <1>2, <1>4, LimitsParameters DEF Limits!Row
<1> HIDE DEF g, new
<1>6. ASSUME NEW j \in 1 .. Len(g)
      PROVE  IF j <= m THEN g[j].at < s
             ELSE /\ s - 1 <= g[j].at /\ g[j].at < s + Window
                  /\ g[j].is = "allowed" => j <= m + MaxAttempts
                  /\ g[j].is = "refused" => j > m + MaxAttempts
  <2>1. CASE j \in 1 .. Len(h)
    BY <1>1, <2>1 DEF LastWindow
  <2>2. CASE j = Len(h) + 1
    <3>1. g[j] = v /\ ~(j <= m) /\ s - 1 <= t /\ t < s + Window
      BY <1>1, <1>3, <2>2
    <3>2. j = m + (row.count + 1) /\ row.count + 1 \in Nat /\ m \in Nat
      BY <1>1, <1>2, <1>3, <2>2
    <3>3. v.is = "allowed" => j <= m + MaxAttempts
      BY <1>3, <3>2
    <3>4. v.is = "refused" => j > m + MaxAttempts
      BY <1>3, <3>2
    <3>5. QED BY <3>1, <3>3, <3>4
  <2>3. QED BY <1>1, <2>1, <2>2
<1>7. \E e \in Nat : \A j \in 1 .. m :
        g[j].is = "allowed" /\ g[j].at >= s - Window => e < j /\ j <= e + MaxAttempts
  <2>1. PICK e \in Nat : \A j \in 1 .. m :
          h[j].is = "allowed" /\ h[j].at >= s - Window => e < j /\ j <= e + MaxAttempts
    BY DEF LastWindow
  <2>2. \A j \in 1 .. m : g[j] = h[j]
    <3>1. 1 .. m \subseteq 1 .. Len(h)
      BY <1>1, <1>3
    <3>2. QED BY <1>1, <3>1
  <2>3. QED BY <2>1, <2>2
<1>8. m \in 0 .. Len(g) /\ new.count = Len(g) - m /\ new.resetAt = s + Window
  BY <1>1, <1>3, <1>5
<1>9. QED BY <1>3, <1>5, <1>6, <1>7, <1>8 DEF LastWindow, g, new

\* An attempt that begins a window: the last one is over.
LEMMA OpenWindow ==
  ASSUME NEW row \in Limits!Row \cup {NoRow}, NEW h \in Seq(Verdict), NEW now_ \in Nat,
         NEW m, NEW s, LastWindow(row, h, now_, m, s),
         NEW t \in Nat, t <= now_, now_ <= t + 1, row = NoRow \/ row.resetAt <= t,
         NEW v \in Verdict, v.at = t, v.is # "refused"
  PROVE  LastWindow(Limits!Bucket(row, t), Append(h, v), now_, Len(h), t)
<1> DEFINE g == Append(h, v)
           new == Limits!Bucket(row, t)
<1>1. /\ g \in Seq(Verdict) /\ Len(g) = Len(h) + 1 /\ Len(h) \in Nat /\ g[Len(h) + 1] = v
      /\ \A j \in 1 .. Len(h) : g[j] = h[j] /\ h[j] \in Verdict /\ h[j].at \in Nat
      /\ \A j \in 1 .. Len(g) : j \in 1 .. Len(h) \/ j = Len(h) + 1
  BY AppendVerdict
<1>2. /\ m \in 0 .. Len(h) /\ s \in Int /\ s <= now_
      /\ Window \in Nat /\ Window > 1 /\ MaxAttempts \in Nat /\ MaxAttempts > 0
  BY LimitsParameters DEF LastWindow
<1>3. s + Window <= t
  BY <1>2 DEF LastWindow
<1>4. new = [count |-> 1, resetAt |-> t + Window]
  BY DEF Limits!Bucket
<1>5. new \in Limits!Row /\ new # NoRow /\ new.count = 1 /\ new.resetAt = t + Window
  BY <1>2, <1>4, LimitsParameters DEF Limits!Row
<1> HIDE DEF g, new
<1>6. ASSUME NEW j \in 1 .. Len(h) PROVE g[j].at < t
  <2>1. g[j] = h[j] /\ h[j].at \in Nat
    BY <1>1
  <2>2. h[j].at < s \/ h[j].at < s + Window
    BY DEF LastWindow
  <2>3. QED BY <2>1, <2>2, <1>2, <1>3
<1>7. ASSUME NEW j \in 1 .. Len(g)
      PROVE  IF j <= Len(h) THEN g[j].at < t
             ELSE /\ t - 1 <= g[j].at /\ g[j].at < t + Window
                  /\ g[j].is = "allowed" => j <= Len(h) + MaxAttempts
                  /\ g[j].is = "refused" => j > Len(h) + MaxAttempts
  <2>1. CASE j \in 1 .. Len(h)
    BY <1>1, <1>6, <2>1
  <2>2. CASE j = Len(h) + 1
    BY <1>1, <1>2, <2>2
  <2>3. QED BY <1>1, <2>1, <2>2
<1>8. \A j \in 1 .. Len(h) :
        g[j].is = "allowed" /\ g[j].at >= t - Window => m < j /\ j <= m + MaxAttempts
  <2>1. ASSUME NEW j \in 1 .. Len(h), h[j].is = "allowed", h[j].at >= t - Window
        PROVE  m < j /\ j <= m + MaxAttempts
    <3>1. PICK c \in Nat : c = h[j].at
      BY <1>1
    <3>2. ~(c < s)
      BY <1>2, <1>3, <2>1, <3>1
    <3>3. ~(j <= m) /\ j <= m + MaxAttempts
      BY <2>1, <3>1, <3>2 DEF LastWindow
    <3>4. QED BY <1>2, <3>3
  <2>2. QED BY <1>1, <2>1
<1>9. m \in Nat /\ Len(h) \in 0 .. Len(g) /\ new.count = Len(g) - Len(h)
  BY <1>1, <1>2, <1>5
<1>10. \E e \in Nat : \A j \in 1 .. Len(h) :
         g[j].is = "allowed" /\ g[j].at >= t - Window => e < j /\ j <= e + MaxAttempts
  BY <1>8, <1>9
<1>11. t \in Int /\ t <= now_
  OBVIOUS
<1>12. QED BY <1>5, <1>7, <1>9, <1>10, <1>11 DEF LastWindow, g, new

LEMMA SpreadAppend ==
  ASSUME NEW h \in Seq(Verdict), NEW v \in Verdict, NEW row, NEW now_ \in Nat,
         NEW m \in 0 .. Len(h), NEW s \in Int,
         LastWindow(row, Append(h, v), now_, m, s), Spread(h)
  PROVE  Spread(Append(h, v))
<1> DEFINE g == Append(h, v)
<1>1. /\ g \in Seq(Verdict) /\ Len(g) = Len(h) + 1 /\ Len(h) \in Nat /\ g[Len(h) + 1] = v
      /\ \A j \in 1 .. Len(h) : g[j] = h[j] /\ h[j] \in Verdict /\ h[j].at \in Nat
      /\ \A j \in 1 .. Len(g) : j \in 1 .. Len(h) \/ j = Len(h) + 1
  BY AppendVerdict
<1>2. Window \in Nat /\ MaxAttempts \in Nat /\ v.at \in Nat
  BY LimitsParameters DEF Verdict
<1>3. /\ \A j \in 1 .. Len(g) :
           IF j <= m THEN g[j].at < s
           ELSE /\ s - 1 <= g[j].at /\ g[j].at < s + Window
                /\ g[j].is = "allowed" => j <= m + MaxAttempts
                /\ g[j].is = "refused" => j > m + MaxAttempts
      /\ \E e \in Nat : \A j \in 1 .. m :
           g[j].is = "allowed" /\ g[j].at >= s - Window => e < j /\ j <= e + MaxAttempts
  BY DEF LastWindow
<1> HIDE DEF g
<1> SUFFICES ASSUME NEW t \in Nat
             PROVE  \E a, b \in Nat : \A j \in 1 .. Len(g) :
                      g[j].is = "allowed" /\ t <= g[j].at /\ g[j].at < t + Window =>
                        (a < j /\ j <= a + MaxAttempts) \/ (b < j /\ j <= b + MaxAttempts)
  BY DEF Spread, g
<1>4. CASE v.is = "allowed" /\ t <= v.at /\ v.at < t + Window
  <2>1. s - 1 <= v.at
    <3>1. Len(h) + 1 \in 1 .. Len(g) /\ ~(Len(h) + 1 <= m)
      BY <1>1
    <3>2. QED BY <3>1, <1>1, <1>3
  <2>2. t >= s - Window
    BY <1>2, <1>4, <2>1
  <2>3. PICK e \in Nat : \A j \in 1 .. m :
          g[j].is = "allowed" /\ g[j].at >= s - Window => e < j /\ j <= e + MaxAttempts
    BY <1>3
  <2>4. ASSUME NEW j \in 1 .. Len(g), g[j].is = "allowed", t <= g[j].at, g[j].at < t + Window
        PROVE  (e < j /\ j <= e + MaxAttempts) \/ (m < j /\ j <= m + MaxAttempts)
    <3>1. CASE j <= m
      <4>1. j \in 1 .. m /\ g[j].at \in Nat
        BY <1>1, <1>2, <3>1
      <4>2. g[j].at >= s - Window
        BY <2>2, <2>4, <4>1, <1>2
      <4>3. QED BY <2>3, <2>4, <4>1, <4>2
    <3>2. CASE ~(j <= m)
      BY <1>1, <1>3, <2>4, <3>2
    <3>3. QED BY <3>1, <3>2
  <2>5. m \in Nat BY <1>1
  <2>6. QED BY <2>4, <2>5
<1>5. CASE ~(v.is = "allowed" /\ t <= v.at /\ v.at < t + Window)
  <2>1. PICK a \in Nat, b \in Nat : \A j \in 1 .. Len(h) :
          h[j].is = "allowed" /\ t <= h[j].at /\ h[j].at < t + Window =>
            (a < j /\ j <= a + MaxAttempts) \/ (b < j /\ j <= b + MaxAttempts)
    BY DEF Spread
  <2>2. \A j \in 1 .. Len(g) :
          g[j].is = "allowed" /\ t <= g[j].at /\ g[j].at < t + Window =>
            (a < j /\ j <= a + MaxAttempts) \/ (b < j /\ j <= b + MaxAttempts)
    <3>1. ASSUME NEW j \in 1 .. Len(g), g[j].is = "allowed", t <= g[j].at, g[j].at < t + Window
          PROVE  (a < j /\ j <= a + MaxAttempts) \/ (b < j /\ j <= b + MaxAttempts)
      <4>1. j \in 1 .. Len(h) /\ g[j] = h[j]
        BY <1>1, <1>5, <3>1
      <4>2. QED BY <2>1, <3>1, <4>1
    <3>2. QED BY <3>1
  <2>3. QED BY <2>2
<1>6. QED BY <1>4, <1>5

LEMMA RefusalsAppend ==
  ASSUME NEW h \in Seq(Verdict), NEW v \in Verdict, NEW row, NEW now_ \in Nat,
         NEW m \in 0 .. Len(h), NEW s \in Int,
         LastWindow(row, Append(h, v), now_, m, s), Refusals(h)
  PROVE  Refusals(Append(h, v))
<1> DEFINE g == Append(h, v)
<1>1. /\ g \in Seq(Verdict) /\ Len(g) = Len(h) + 1 /\ Len(h) \in Nat /\ g[Len(h) + 1] = v
      /\ \A j \in 1 .. Len(h) : g[j] = h[j] /\ h[j] \in Verdict /\ h[j].at \in Nat
      /\ \A j \in 1 .. Len(g) : j \in 1 .. Len(h) \/ j = Len(h) + 1
  BY AppendVerdict
<1>2. Window \in Nat /\ MaxAttempts \in Nat /\ v.at \in Nat
  BY LimitsParameters DEF Verdict
<1>3. \A j \in 1 .. Len(g) :
           IF j <= m THEN g[j].at < s
           ELSE /\ s - 1 <= g[j].at /\ g[j].at < s + Window
                /\ g[j].is = "allowed" => j <= m + MaxAttempts
                /\ g[j].is = "refused" => j > m + MaxAttempts
  BY DEF LastWindow
<1> HIDE DEF g
<1> SUFFICES ASSUME NEW j \in 1 .. Len(g), g[j].is = "refused"
             PROVE  \E e \in Nat :
                      /\ e + MaxAttempts <= Len(g)
                      /\ \A i \in e + 1 .. e + MaxAttempts :
                           g[i].is # "refused" /\ g[i].at >= g[j].at - Window
  BY DEF Refusals, g
<1>4. CASE j \in 1 .. Len(h)
  <2>1. g[j] = h[j] BY <1>1, <1>4
  <2>2. PICK e \in Nat :
          /\ e + MaxAttempts <= Len(h)
          /\ \A i \in e + 1 .. e + MaxAttempts :
               h[i].is # "refused" /\ h[i].at >= h[j].at - Window
    BY <1>4, <2>1 DEF Refusals
  <2>3. e + MaxAttempts <= Len(g) /\ \A i \in e + 1 .. e + MaxAttempts : g[i] = h[i]
    BY <1>1, <1>2, <2>2
  <2>4. QED BY <2>1, <2>2, <2>3
<1>5. CASE j = Len(h) + 1
  <2>1. /\ g[j] = v /\ ~(j <= m) /\ m \in Nat
    BY <1>1, <1>5
  <2>2. j > m + MaxAttempts /\ v.at < s + Window
    BY <1>3, <2>1
  <2>3. m + MaxAttempts <= Len(g)
    BY <1>1, <1>2, <1>5, <2>1, <2>2
  <2>4. ASSUME NEW i \in m + 1 .. m + MaxAttempts
        PROVE  g[i].is # "refused" /\ g[i].at >= g[j].at - Window
    <3>1. i \in 1 .. Len(h) /\ ~(i <= m) /\ ~(i > m + MaxAttempts)
      BY <1>1, <1>2, <1>5, <2>1, <2>2
    <3>2. i \in 1 .. Len(g) /\ g[i].at \in Nat
      BY <1>1, <3>1
    <3>3. s - 1 <= g[i].at /\ g[i].is # "refused"
      BY <1>3, <3>1, <3>2
    <3>4. PICK c \in Nat : c = g[i].at
      BY <3>2
    <3>5. c >= v.at - Window
      <4>1. PICK d \in Nat : d = v.at
        BY <1>2
      <4>2. s - 1 <= c /\ d < s + Window /\ Window \in Nat
        BY <1>2, <2>2, <3>3, <3>4, <4>1
      <4>3. d - Window <= s - 1
        BY <4>2
      <4>4. QED BY <4>1, <4>2, <4>3
    <3>6. QED BY <2>1, <3>3, <3>4, <3>5
  <2>5. QED BY <2>1, <2>3, <2>4
<1>6. QED BY <1>1, <1>4, <1>5

\* An attempt, whichever window it is counted in and whether its caller learns
\* of it or not.
LEMMA AttemptKeeps ==
  ASSUME NEW row \in Limits!Row \cup {NoRow}, NEW h \in Seq(Verdict), NEW now_ \in Nat,
         KeySound(row, h, now_), row # NoRow => row.count # 0,
         NEW t \in Nat, t <= now_, now_ <= t + 1,
         NEW v \in Verdict, v.at = t,
         v.is \in {IF Limits!Bucket(row, t).count <= MaxAttempts THEN "allowed" ELSE "refused",
                   "open"}
  PROVE  /\ KeySound(Limits!Bucket(row, t), Append(h, v), now_)
         /\ Limits!Bucket(row, t) \in Limits!Row /\ Limits!Bucket(row, t).count # 0
<1> DEFINE g == Append(h, v)
           new == Limits!Bucket(row, t)
<1>1. PICK m \in Nat, s \in Int : LastWindow(row, h, now_, m, s)
  BY DEF KeySound
<1>2. Window \in Nat /\ MaxAttempts \in Nat /\ MaxAttempts > 0 /\ Len(h) \in Nat
      /\ NoRow \notin Limits!Row
  BY LimitsParameters
<1>3. Spread(h) /\ Refusals(h)
  BY DEF KeySound
<1>4. CASE row = NoRow \/ row.resetAt <= t
  <2>1. new = [count |-> 1, resetAt |-> t + Window]
    BY <1>4 DEF Limits!Bucket
  <2>2. new.count = 1 /\ new \in Limits!Row
    BY <1>2, <2>1 DEF Limits!Row
  <2>3. v.is # "refused"
    BY <1>2, <2>2
  <2>4. LastWindow(new, g, now_, Len(h), t)
    BY <1>1, <1>4, <2>3, OpenWindow
  <2> HIDE DEF g, new
  <2>5. Len(h) \in 0 .. Len(h) /\ t \in Int
    BY <1>2
  <2>6. Spread(g) /\ Refusals(g)
    BY <1>3, <2>4, <2>5, SpreadAppend, RefusalsAppend DEF g
  <2>7. KeySound(new, g, now_)
    BY <1>2, <2>4, <2>5, <2>6 DEF KeySound
  <2>8. QED BY <2>2, <2>7 DEF g, new
<1>5. CASE ~(row = NoRow \/ row.resetAt <= t)
  <2>1. row \in Limits!Row /\ row.count \in Nat /\ row.resetAt \in Nat /\ row.resetAt > t
    BY <1>5 DEF Limits!Row
  <2>2. new = [count |-> row.count + 1, resetAt |-> row.resetAt]
    BY <1>5 DEF Limits!Bucket
  <2>3. new.count = row.count + 1 /\ new \in Limits!Row /\ new.count # 0
    BY <2>1, <2>2 DEF Limits!Row
  <2>4. /\ v.is = "allowed" => row.count + 1 <= MaxAttempts
        /\ v.is = "refused" => ~(row.count + 1 <= MaxAttempts)
    BY <2>3
  <2>5. LastWindow(new, g, now_, m, s)
    BY <1>1, <2>1, <2>4, JoinWindow
  <2>6. m \in 0 .. Len(h)
    BY <1>1 DEF LastWindow
  <2> HIDE DEF g, new
  <2>7. Spread(g) /\ Refusals(g)
    BY <1>3, <2>5, <2>6, SpreadAppend, RefusalsAppend DEF g
  <2>8. KeySound(new, g, now_)
    BY <2>5, <2>7 DEF KeySound
  <2>9. QED BY <2>3, <2>8 DEF g, new
<1>6. QED BY <1>4, <1>5

LEMMA KeyLater ==
  ASSUME NEW row, NEW h, NEW t \in Nat, KeySound(row, h, t), NEW u \in Nat, t <= u
  PROVE  KeySound(row, h, u)
<1>1. PICK m \in Nat, s \in Int : LastWindow(row, h, t, m, s)
  BY DEF KeySound
<1>2. s <= t /\ s <= u /\ Window \in Nat
  BY <1>1, LimitsParameters DEF LastWindow
<1>3. row = NoRow => u > s + Window
  BY <1>1, <1>2 DEF LastWindow
<1>4. LastWindow(row, h, u, m, s)
  BY <1>1, <1>2, <1>3 DEF LastWindow
<1>5. QED BY <1>4 DEF KeySound

\* A row that is deleted after its end takes nothing with it.
LEMMA KeyPruned ==
  ASSUME NEW row \in Limits!Row, NEW h, NEW t \in Nat, KeySound(row, h, t), row.resetAt < t
  PROVE  KeySound(NoRow, h, t)
<1>1. PICK m \in Nat, s \in Int : LastWindow(row, h, t, m, s)
  BY DEF KeySound
<1>2. row # NoRow BY LimitsParameters
<1>3. LastWindow(NoRow, h, t, m, s)
  BY <1>1, <1>2 DEF LastWindow
<1>4. QED BY <1>3 DEF KeySound
----------------------------------------------------------------------------
(* Nonces                                                                  *)

\* The second a clock reading falls in.
LEMMA SecondBounds ==
  ASSUME NEW t \in Nat
  PROVE  /\ Limits!Second(t) \in Nat
         /\ PerSecond * Limits!Second(t) <= t /\ t < PerSecond * (Limits!Second(t) + 1)
<1>1. PICK d \in Nat : d = PerSecond /\ d > 0
  BY LimitsParameters
<1>2. t \div d \in Nat /\ d * (t \div d) <= t /\ t < d * ((t \div d) + 1)
  <2>1. d \in Int /\ t \in Int /\ d > 0 BY <1>1
  <2>2. t = d * (t \div d) + (t % d) /\ t % d \in 0 .. d - 1 /\ t \div d \in Int
    BY <2>1
  <2>3. t \div d >= 0
    BY <1>1
  <2>4. d * ((t \div d) + 1) = d * (t \div d) + d
    BY <2>1, <2>2
  <2>5. QED BY <2>1, <2>2, <2>3, <2>4
<1>3. QED BY <1>1, <1>2 DEF Limits!Second

LEMMA SecondsLater ==
  ASSUME NEW t \in Nat, NEW u \in Nat, u >= t + Limits!NonceTTL
  PROVE  Limits!Second(u) >= Limits!Second(t) + 2 * Skew
<1>1. PICK d \in Nat : d = PerSecond /\ d > 0
  BY LimitsParameters
<1>2. PICK a \in Nat : a = Limits!Second(t)
  BY SecondBounds
<1>3. PICK b \in Nat : b = Limits!Second(u)
  BY SecondBounds
<1>4. d * a <= t /\ u < d * (b + 1)
  BY <1>1, <1>2, <1>3, SecondBounds
<1>5. PICK k \in Nat : k = 2 * Skew
  BY LimitsParameters
<1>6. Limits!NonceTTL = d * k
  BY <1>1, <1>5, LimitsParameters DEF Limits!NonceTTL
<1>7. d * (a + k) < d * (b + 1)
  <2>1. d * (a + k) = d * a + d * k
    OBVIOUS
  <2>2. d * k \in Nat /\ d * a \in Nat /\ d * (b + 1) \in Nat
    OBVIOUS
  <2>3. QED BY <1>4, <1>6, <2>1, <2>2
<1>8. a + k < b + 1
  <2>1. CASE a + k >= b + 1
    <3>1. PICK e \in Nat : a + k = b + 1 + e
      BY <2>1
    <3>2. d * (b + 1 + e) = d * (b + 1) + d * e /\ d * e \in Nat /\ d * (b + 1) \in Nat
      OBVIOUS
    <3>3. QED BY <1>7, <3>1, <3>2
  <2>2. QED BY <2>1
<1>9. QED BY <1>2, <1>3, <1>5, <1>8

\* Before a nonce's row is gone its stamp is too old, unless the sender's clock
\* was a full Skew ahead.
NonceSound(row, acc, stamp, t) ==
  acc # <<>> =>
    \/ stamp >= Limits!Second(acc[1]) + Skew
    \/ /\ Len(acc) = 1
       /\ row # NoRow => row.resetAt = acc[1] + Limits!NonceTTL
       /\ row = NoRow => t > acc[1] + Limits!NonceTTL

LEMMA TTLNat == Limits!NonceTTL \in Nat
BY LimitsParameters DEF Limits!NonceTTL

\* A signed request whose nonce is free: if it was carried out before, its
\* sender's clock was a full Skew ahead.
LEMMA UsedAhead ==
  ASSUME NEW acc \in Seq(Nat), NEW stamp \in Nat, NEW now_ \in Nat,
         NonceSound(NoRow, acc, stamp, now_),
         NEW t \in Nat, t <= now_, now_ <= t + 1,
         ~(Limits!Second(t) - stamp > Skew), acc # <<>>
  PROVE  stamp >= Limits!Second(acc[1]) + Skew
<1>1. acc[1] \in Nat
  OBVIOUS
<1>2. CASE stamp >= Limits!Second(acc[1]) + Skew
  BY <1>2
<1>3. CASE now_ > acc[1] + Limits!NonceTTL
  <2>1. t >= acc[1] + Limits!NonceTTL
    BY <1>1, <1>3, TTLNat
  <2>2. Limits!Second(t) >= Limits!Second(acc[1]) + 2 * Skew
    BY <1>1, <2>1, SecondsLater
  <2>3. Limits!Second(t) \in Nat /\ Limits!Second(acc[1]) \in Nat /\ Skew \in Nat
    BY <1>1, SecondBounds, LimitsParameters
  <2>4. QED BY <2>2, <2>3
<1>4. QED BY <1>2, <1>3 DEF NonceSound

LEMMA UseKeeps ==
  ASSUME NEW acc \in Seq(Nat), NEW stamp \in Nat, NEW now_ \in Nat,
         NonceSound(NoRow, acc, stamp, now_),
         NEW t \in Nat, t <= now_, now_ <= t + 1,
         ~(Limits!Second(t) - stamp > Skew),
         NEW row, row # NoRow, row.resetAt = t + Limits!NonceTTL
  PROVE  NonceSound(row, Append(acc, t), stamp, now_) /\ NonceSound(row, acc, stamp, now_)
<1>1. CASE acc = <<>>
  <2>1. Append(acc, t)[1] = t /\ Len(Append(acc, t)) = 1
    BY <1>1
  <2>2. QED BY <1>1, <2>1 DEF NonceSound
<1>2. CASE acc # <<>>
  <2>1. Append(acc, t)[1] = acc[1]
    BY <1>2
  <2>2. stamp >= Limits!Second(acc[1]) + Skew
    BY <1>2, UsedAhead
  <2>3. QED BY <2>1, <2>2 DEF NonceSound
<1>3. QED BY <1>1, <1>2

LEMMA NonceLater ==
  ASSUME NEW row, NEW acc \in Seq(Nat), NEW stamp, NEW t \in Nat,
         NonceSound(row, acc, stamp, t), NEW u \in Nat, t <= u
  PROVE  NonceSound(row, acc, stamp, u)
<1>1. acc # <<>> => acc[1] + Limits!NonceTTL \in Nat
  BY TTLNat
<1>2. QED BY <1>1 DEF NonceSound

LEMMA NoncePruned ==
  ASSUME NEW row, NEW acc \in Seq(Nat), NEW stamp, NEW t,
         NonceSound(row, acc, stamp, t), row # NoRow, row.resetAt < t
  PROVE  NonceSound(NoRow, acc, stamp, t)
BY DEF NonceSound
----------------------------------------------------------------------------
(* The limiter: steps                                                      *)

\* The statement in progress p belongs to a call that read the clock at most a
\* tick ago and, if it is for a nonce, found its stamp not too old.
CallSound(p, stamps, t) ==
  /\ p.at <= t /\ t <= p.at + 1
  /\ p.key \in Nonces => ~(Limits!Second(p.at) - stamps[p.key] > Skew)

CallsSound == \A r \in Requests : request[r] # Limits!Idle => CallSound(request[r], signed, limitsNow)
PrunesPast == \A cutoff \in prunes : cutoff <= limitsNow
KeysSound == \A k \in Limited : KeySound(rows[k], verdicts[k], limitsNow)
NoncesSound == \A n \in Nonces : NonceSound(rows[n], accepted[n], signed[n], limitsNow)

LimitsInv == Limits!TypeOK /\ CallsSound /\ PrunesPast /\ KeysSound /\ NoncesSound

LEMMA LimitsInit == Limits!Init => LimitsInv
<1> SUFFICES ASSUME Limits!Init PROVE LimitsInv
  OBVIOUS
<1>1. /\ workload \in Mixes /\ rows = [k \in Limits!RowKeys |-> NoRow]
      /\ request = [r \in Requests |-> Limits!Idle] /\ prunes = {}
      /\ lastCleanup = [copy \in Instances \X Limits!Libraries |-> Limits!Never]
      /\ signed \in [Nonces -> 0 .. Limits!Second(LimitsTime)]
      /\ calls = 0 /\ limitsNow = 0
      /\ verdicts = [k \in Limited |-> <<>>] /\ accepted = [n \in Nonces |-> <<>>]
  BY DEF Limits!Init
<1>2. signed \in [Nonces -> Nat]
  BY <1>1, LimitsParameters, SecondBounds
<1>3. Limits!TypeOK
  <2>1. rows \in [Limits!RowKeys -> Limits!Row \cup {NoRow}]
        /\ \A k \in Limits!RowKeys : rows[k] # NoRow => (rows[k].count = 0 <=> k \in Nonces)
    BY <1>1
  <2>2. request \in [Requests -> {Limits!Idle} \cup Limits!Pending] /\ prunes \subseteq 0 .. LimitsTime
    BY <1>1
  <2>3. lastCleanup \in [Instances \X Limits!Libraries -> {Limits!Never} \cup 0 .. LimitsTime]
    BY <1>1
  <2>4. calls \in Nat /\ limitsNow \in 0 .. LimitsTime
    BY <1>1, LimitsParameters
  <2>5. verdicts \in [Limited -> Seq([at: Nat, is: {"allowed", "refused", "open"}])]
        /\ accepted \in [Nonces -> Seq(Nat)]
    BY <1>1
  <2>6. QED BY <1>1, <1>2, <2>1, <2>2, <2>3, <2>4, <2>5 DEF Limits!TypeOK
<1>4. CallsSound /\ PrunesPast
  BY <1>1 DEF CallsSound, PrunesPast
<1>5. KeysSound
  BY <1>1, NothingYet DEF KeysSound, Limits!RowKeys
<1>6. NoncesSound
  BY <1>1 DEF NoncesSound, NonceSound
<1>7. QED BY <1>3, <1>4, <1>5, <1>6 DEF LimitsInv

\* What a key of the table is, and what a call in progress carries.
LEMMA CallFacts ==
  ASSUME LimitsInv, NEW r \in Requests, request[r] # Limits!Idle
  PROVE  /\ request[r].key \in Limits!RowKeys /\ request[r].at \in Nat
         /\ request[r].at <= limitsNow /\ limitsNow <= request[r].at + 1
         /\ limitsNow \in Nat
         /\ request[r].key \in Nonces =>
              ~(Limits!Second(request[r].at) - signed[request[r].key] > Skew)
<1>1. request[r] \in Limits!Pending /\ limitsNow \in Nat
  BY LimitsParameters DEF LimitsInv, Limits!TypeOK
<1>2. request[r].key \in Limits!RowKeys /\ request[r].at \in Nat
  BY <1>1, LimitsParameters DEF Limits!Pending
<1>3. CallSound(request[r], signed, limitsNow)
  BY DEF LimitsInv, CallsSound
<1>4. QED BY <1>1, <1>2, <1>3 DEF CallSound

LEMMA BeginSound ==
  ASSUME LimitsInv, NEW r \in Requests, NEW i \in Instances, NEW library \in Limits!Libraries,
         NEW k \in Limits!RowKeys, Limits!Begin(r, i, library, k),
         k \in Nonces => ~(Limits!Second(limitsNow) - signed[k] > Skew)
  PROVE  LimitsInv'
<1>1. /\ request' = [request EXCEPT ![r] = [pc |-> "pending", key |-> k, at |-> limitsNow]]
      /\ calls' = calls + 1 /\ Limits!MaybeCleanup(i, library)
      /\ UNCHANGED <<workload, rows, signed, limitsNow, verdicts, accepted>>
  BY DEF Limits!Begin
<1>2. /\ limitsNow \in 0 .. LimitsTime /\ limitsNow \in Nat
      /\ request \in [Requests -> {Limits!Idle} \cup Limits!Pending]
      /\ prunes \subseteq 0 .. LimitsTime /\ calls \in Nat
      /\ lastCleanup \in [Instances \X Limits!Libraries -> {Limits!Never} \cup 0 .. LimitsTime]
  BY LimitsParameters DEF LimitsInv, Limits!TypeOK
<1>3. /\ lastCleanup' \in [Instances \X Limits!Libraries -> {Limits!Never} \cup 0 .. LimitsTime]
      /\ prunes' \subseteq prunes \cup {limitsNow}
  BY <1>1, <1>2 DEF Limits!MaybeCleanup
<1>4. prunes' \subseteq 0 .. LimitsTime /\ PrunesPast'
  BY <1>1, <1>2, <1>3 DEF LimitsInv, PrunesPast
<1>5. [pc |-> "pending", key |-> k, at |-> limitsNow] \in Limits!Pending
  BY <1>2 DEF Limits!Pending
<1>6. request' \in [Requests -> {Limits!Idle} \cup Limits!Pending] /\ calls' \in Nat
  BY <1>1, <1>2, <1>5
<1>7. Limits!TypeOK'
  BY <1>1, <1>3, <1>4, <1>6 DEF LimitsInv, Limits!TypeOK
<1>8. CallsSound'
  <2> SUFFICES ASSUME NEW q \in Requests, request'[q] # Limits!Idle
               PROVE  CallSound(request'[q], signed, limitsNow)
    BY <1>1 DEF CallsSound
  <2>1. CASE q = r
    <3>1. request'[q] = [pc |-> "pending", key |-> k, at |-> limitsNow]
      BY <1>1, <1>2, <2>1
    <3>2. QED BY <1>2, <3>1 DEF CallSound
  <2>2. CASE q # r
    BY <1>1, <1>2, <2>2 DEF LimitsInv, CallsSound
  <2>3. QED BY <2>1, <2>2
<1>9. KeysSound' /\ NoncesSound'
  BY <1>1 DEF LimitsInv, KeysSound, NoncesSound
<1>10. QED BY <1>4, <1>7, <1>8, <1>9 DEF LimitsInv

\* The end of a call leaves the others as they were.
LEMMA FinishSound ==
  ASSUME LimitsInv, NEW r \in Requests, Limits!Finish(r)
  PROVE  /\ request' \in [Requests -> {Limits!Idle} \cup Limits!Pending]
         /\ CallsSound' /\ PrunesPast'
         /\ UNCHANGED <<workload, prunes, lastCleanup, signed, calls, limitsNow>>
<1>1. /\ request' = [request EXCEPT ![r] = Limits!Idle]
      /\ UNCHANGED <<workload, prunes, lastCleanup, signed, calls, limitsNow>>
  BY DEF Limits!Finish
<1>2. request \in [Requests -> {Limits!Idle} \cup Limits!Pending]
  BY DEF LimitsInv, Limits!TypeOK
<1>3. request' \in [Requests -> {Limits!Idle} \cup Limits!Pending]
  BY <1>1, <1>2
<1>4. \A q \in Requests : request'[q] # Limits!Idle => request'[q] = request[q]
  BY <1>1, <1>2
<1>5. CallsSound'
  BY <1>1, <1>4 DEF LimitsInv, CallsSound
<1>6. PrunesPast'
  BY <1>1 DEF LimitsInv, PrunesPast
<1>7. QED BY <1>1, <1>3, <1>5, <1>6

LEMMA AttemptSound ==
  ASSUME LimitsInv, NEW r \in Requests, Limits!Attempt(r)
  PROVE  LimitsInv'
<1>1. request[r] # Limits!Idle /\ request[r].key \in Limited /\ Limits!Finish(r)
      /\ UNCHANGED accepted
  BY DEF Limits!Attempt
<1>2. PICK k \in Limited : k = request[r].key
  BY <1>1
<1>3. PICK t \in Nat : t = request[r].at /\ t <= limitsNow /\ limitsNow <= t + 1
  BY <1>1, CallFacts
<1>4. PICK row : row = Limits!Bucket(rows[k], t)
  OBVIOUS
<1>5. rows' = [rows EXCEPT ![k] = row]
      /\ \E verdict \in {IF row.count <= MaxAttempts THEN "allowed" ELSE "refused", "open"} :
           verdicts' = [verdicts EXCEPT ![k] = Append(@, [at |-> t, is |-> verdict])]
  BY <1>2, <1>3, <1>4 DEF Limits!Attempt
<1>6. PICK verdict \in {IF row.count <= MaxAttempts THEN "allowed" ELSE "refused", "open"} :
        verdicts' = [verdicts EXCEPT ![k] = Append(@, [at |-> t, is |-> verdict])]
  BY <1>5
<1>7. PICK v : v = [at |-> t, is |-> verdict]
  OBVIOUS
<1>8. v \in Verdict /\ v.at = t
      /\ v.is \in {IF row.count <= MaxAttempts THEN "allowed" ELSE "refused", "open"}
  BY <1>6, <1>7 DEF Verdict
<1>9. /\ rows \in [Limits!RowKeys -> Limits!Row \cup {NoRow}]
      /\ \A x \in Limits!RowKeys : rows[x] # NoRow => (rows[x].count = 0 <=> x \in Nonces)
      /\ verdicts \in [Limited -> Seq(Verdict)] /\ limitsNow \in Nat
      /\ k \in Limits!RowKeys /\ k \notin Nonces
  BY <1>2, LimitsParameters DEF LimitsInv, Limits!TypeOK, Limits!RowKeys, Verdict
<1>10. KeySound(rows[k], verdicts[k], limitsNow)
  BY DEF LimitsInv, KeysSound
<1>11. KeySound(row, Append(verdicts[k], v), limitsNow) /\ row \in Limits!Row /\ row.count # 0
  <2>1. rows[k] \in Limits!Row \cup {NoRow} /\ verdicts[k] \in Seq(Verdict)
        /\ (rows[k] # NoRow => rows[k].count # 0)
    BY <1>9
  <2>2. PICK old \in Limits!Row \cup {NoRow}, h \in Seq(Verdict) :
          old = rows[k] /\ h = verdicts[k]
    BY <2>1
  <2>3. KeySound(old, h, limitsNow) /\ (old # NoRow => old.count # 0) /\ limitsNow \in Nat
        /\ row = Limits!Bucket(old, t)
    BY <1>4, <1>9, <1>10, <2>1, <2>2
  <2>4. /\ KeySound(Limits!Bucket(old, t), Append(h, v), limitsNow)
        /\ Limits!Bucket(old, t) \in Limits!Row /\ Limits!Bucket(old, t).count # 0
    BY <1>3, <1>8, <2>3, AttemptKeeps
  <2>5. QED BY <2>2, <2>3, <2>4
<1>12. /\ rows'[k] = row
       /\ verdicts'[k] = Append(verdicts[k], v)
       /\ \A x \in Limits!RowKeys : x # k => rows'[x] = rows[x]
       /\ \A x \in Limited : x # k => verdicts'[x] = verdicts[x]
  BY <1>5, <1>6, <1>7, <1>9
<1>13. rows' \in [Limits!RowKeys -> Limits!Row \cup {NoRow}]
       /\ \A x \in Limits!RowKeys : rows'[x] # NoRow => (rows'[x].count = 0 <=> x \in Nonces)
  BY <1>5, <1>9, <1>11, <1>12
<1>14. verdicts' \in [Limited -> Seq(Verdict)]
  <2>1. Append(verdicts[k], v) \in Seq(Verdict)
    BY <1>8, <1>9
  <2>2. verdicts' = [verdicts EXCEPT ![k] = Append(verdicts[k], v)]
    BY <1>6, <1>7, <1>9
  <2>3. QED BY <1>9, <2>1, <2>2
<1>15. /\ request' \in [Requests -> {Limits!Idle} \cup Limits!Pending]
       /\ CallsSound' /\ PrunesPast'
       /\ UNCHANGED <<workload, prunes, lastCleanup, signed, calls, limitsNow>>
  BY <1>1, FinishSound
<1>16. Limits!TypeOK'
  BY <1>1, <1>13, <1>14, <1>15 DEF LimitsInv, Limits!TypeOK, Verdict
<1>17. KeysSound'
  <2> SUFFICES ASSUME NEW x \in Limited PROVE KeySound(rows'[x], verdicts'[x], limitsNow)
    BY <1>15 DEF KeysSound
  <2>1. CASE x = k BY <1>11, <1>12, <2>1
  <2>2. CASE x # k
    BY <1>12, <2>2 DEF LimitsInv, KeysSound, Limits!RowKeys
  <2>3. QED BY <2>1, <2>2
<1>18. NoncesSound'
  <2>1. \A n \in Nonces : rows'[n] = rows[n]
    BY <1>9, <1>12 DEF Limits!RowKeys
  <2>2. QED BY <1>1, <1>15, <2>1 DEF LimitsInv, NoncesSound
<1>19. QED BY <1>15, <1>16, <1>17, <1>18 DEF LimitsInv

LEMMA ConsumeSound ==
  ASSUME LimitsInv, NEW r \in Requests, Limits!Consume(r)
  PROVE  LimitsInv'
<1>1. request[r] # Limits!Idle /\ request[r].key \in Nonces /\ Limits!Finish(r)
      /\ UNCHANGED verdicts
  BY DEF Limits!Consume
<1>2. PICK n \in Nonces : n = request[r].key
  BY <1>1
<1>3. PICK t \in Nat : t = request[r].at /\ t <= limitsNow /\ limitsNow <= t + 1
                       /\ ~(Limits!Second(t) - signed[n] > Skew)
  BY <1>1, <1>2, CallFacts
<1>4. /\ rows \in [Limits!RowKeys -> Limits!Row \cup {NoRow}]
      /\ \A x \in Limits!RowKeys : rows[x] # NoRow => (rows[x].count = 0 <=> x \in Nonces)
      /\ accepted \in [Nonces -> Seq(Nat)] /\ signed \in [Nonces -> Nat] /\ limitsNow \in Nat
      /\ n \in Limits!RowKeys /\ n \notin Limited
  BY <1>2, LimitsParameters DEF LimitsInv, Limits!TypeOK, Limits!RowKeys
<1>5. /\ request' \in [Requests -> {Limits!Idle} \cup Limits!Pending]
      /\ CallsSound' /\ PrunesPast'
      /\ UNCHANGED <<workload, prunes, lastCleanup, signed, calls, limitsNow>>
  BY <1>1, FinishSound
<1>6. CASE rows[n] # NoRow
  <2>1. UNCHANGED <<rows, accepted>>
    BY <1>2, <1>6 DEF Limits!Consume
  <2>2. Limits!TypeOK' /\ KeysSound' /\ NoncesSound'
    BY <1>1, <1>5, <2>1 DEF LimitsInv, Limits!TypeOK, KeysSound, NoncesSound
  <2>3. QED BY <1>5, <2>2 DEF LimitsInv
<1>7. CASE rows[n] = NoRow
  <2>1. PICK row : row = [count |-> 0, resetAt |-> t + Limits!NonceTTL]
    OBVIOUS
  <2>2. row \in Limits!Row /\ row # NoRow /\ row.count = 0 /\ row.resetAt = t + Limits!NonceTTL
    BY <2>1, TTLNat, LimitsParameters DEF Limits!Row
  <2>3. rows' = [rows EXCEPT ![n] = row]
        /\ (accepted' = [accepted EXCEPT ![n] = Append(@, t)] \/ UNCHANGED accepted)
    BY <1>2, <1>3, <1>7, <2>1 DEF Limits!Consume, Limits!RetainedUntil
  <2>4. rows'[n] = row /\ \A x \in Limits!RowKeys : x # n => rows'[x] = rows[x]
    BY <1>4, <2>3
  <2>5. rows' \in [Limits!RowKeys -> Limits!Row \cup {NoRow}]
        /\ \A x \in Limits!RowKeys : rows'[x] # NoRow => (rows'[x].count = 0 <=> x \in Nonces)
    BY <1>4, <2>2, <2>3, <2>4
  <2>6. accepted[n] \in Seq(Nat) /\ signed[n] \in Nat
        /\ NonceSound(NoRow, accepted[n], signed[n], limitsNow)
    BY <1>4, <1>7 DEF LimitsInv, NoncesSound
  <2>7. /\ accepted' \in [Nonces -> Seq(Nat)]
        /\ \A x \in Nonces : x # n => accepted'[x] = accepted[x]
        /\ accepted'[n] = Append(accepted[n], t) \/ accepted'[n] = accepted[n]
    <3>1. CASE UNCHANGED accepted
      BY <1>4, <3>1
    <3>2. CASE accepted' = [accepted EXCEPT ![n] = Append(@, t)]
      <4>1. PICK acc \in Seq(Nat) : acc = Append(accepted[n], t)
        <5>1. Append(accepted[n], t) \in Seq(Nat)
          BY <2>6
        <5>2. QED BY <5>1
      <4>2. accepted' = [accepted EXCEPT ![n] = acc]
        BY <1>4, <3>2, <4>1
      <4>3. QED BY <1>4, <4>1, <4>2
    <3>3. QED BY <2>3, <3>1, <3>2
  <2>8. Limits!TypeOK'
    BY <1>1, <1>5, <2>5, <2>7 DEF LimitsInv, Limits!TypeOK
  <2>9. KeysSound'
    <3>1. \A k \in Limited : rows'[k] = rows[k]
      BY <1>4, <2>4 DEF Limits!RowKeys
    <3>2. QED BY <1>1, <1>5, <3>1 DEF LimitsInv, KeysSound
  <2>10. NonceSound(row, accepted'[n], signed[n], limitsNow)
    <3>1. /\ NonceSound(row, Append(accepted[n], t), signed[n], limitsNow)
          /\ NonceSound(row, accepted[n], signed[n], limitsNow)
      BY <1>3, <1>4, <2>2, <2>6, UseKeeps
    <3>2. QED BY <2>7, <3>1
  <2>11. NoncesSound'
    <3> SUFFICES ASSUME NEW x \in Nonces
                 PROVE  NonceSound(rows'[x], accepted'[x], signed[x], limitsNow)
      BY <1>5 DEF NoncesSound
    <3>1. CASE x = n BY <2>4, <2>10, <3>1
    <3>2. CASE x # n
      BY <2>4, <2>7, <3>2 DEF LimitsInv, NoncesSound, Limits!RowKeys
    <3>3. QED BY <3>1, <3>2
  <2>12. QED BY <1>5, <2>8, <2>9, <2>11 DEF LimitsInv
<1>8. QED BY <1>6, <1>7

LEMMA FailSound ==
  ASSUME LimitsInv, NEW r \in Requests, Limits!Fail(r)
  PROVE  LimitsInv'
<1>1. Limits!Finish(r) /\ UNCHANGED <<rows, accepted, verdicts>>
  BY DEF Limits!Fail
<1>2. /\ request' \in [Requests -> {Limits!Idle} \cup Limits!Pending]
      /\ CallsSound' /\ PrunesPast'
      /\ UNCHANGED <<workload, prunes, lastCleanup, signed, calls, limitsNow>>
  BY <1>1, FinishSound
<1>3. Limits!TypeOK' /\ KeysSound' /\ NoncesSound'
  BY <1>1, <1>2 DEF LimitsInv, Limits!TypeOK, KeysSound, NoncesSound
<1>4. QED BY <1>2, <1>3 DEF LimitsInv

LEMMA PruneSound ==
  ASSUME LimitsInv, NEW cutoff \in prunes, Limits!Prune(cutoff)
  PROVE  LimitsInv'
<1>1. /\ prunes' = prunes \ {cutoff}
      /\ UNCHANGED <<workload, request, lastCleanup, signed, calls, limitsNow, verdicts, accepted>>
      /\ \/ rows' = [k \in Limits!RowKeys |->
                       IF Limits!Expired(rows[k], cutoff) THEN NoRow ELSE rows[k]]
         \/ UNCHANGED rows
  BY DEF Limits!Prune
<1>2. /\ rows \in [Limits!RowKeys -> Limits!Row \cup {NoRow}]
      /\ \A k \in Limits!RowKeys : rows[k] # NoRow => (rows[k].count = 0 <=> k \in Nonces)
      /\ prunes \subseteq 0 .. LimitsTime /\ limitsNow \in Nat
      /\ cutoff \in Nat /\ cutoff <= limitsNow
      /\ accepted \in [Nonces -> Seq(Nat)]
  BY LimitsParameters DEF LimitsInv, Limits!TypeOK, PrunesPast
<1>3. CallsSound' /\ PrunesPast'
  BY <1>1 DEF LimitsInv, CallsSound, PrunesPast
<1>4. ASSUME NEW k \in Limits!RowKeys
      PROVE  \/ rows'[k] = rows[k]
             \/ /\ rows'[k] = NoRow /\ rows[k] \in Limits!Row /\ rows[k] # NoRow
                /\ rows[k].resetAt < limitsNow
  <2>1. CASE UNCHANGED rows
    BY <2>1
  <2>2. CASE rows' = [x \in Limits!RowKeys |->
                       IF Limits!Expired(rows[x], cutoff) THEN NoRow ELSE rows[x]]
    <3>1. CASE Limits!Expired(rows[k], cutoff)
      <4>1. rows'[k] = NoRow /\ rows[k] # NoRow /\ rows[k] \in Limits!Row
            /\ rows[k].resetAt < cutoff
        BY <1>2, <2>2, <3>1 DEF Limits!Expired
      <4>2. rows[k].resetAt \in Nat
        BY <4>1 DEF Limits!Row
      <4>3. QED BY <1>2, <4>1, <4>2
    <3>2. CASE ~Limits!Expired(rows[k], cutoff)
      BY <2>2, <3>2
    <3>3. QED BY <3>1, <3>2
  <2>3. QED BY <1>1, <2>1, <2>2
<1>5. rows' \in [Limits!RowKeys -> Limits!Row \cup {NoRow}]
      /\ \A k \in Limits!RowKeys : rows'[k] # NoRow => (rows'[k].count = 0 <=> k \in Nonces)
  BY <1>1, <1>2, <1>4
<1>6. Limits!TypeOK'
  BY <1>1, <1>5 DEF LimitsInv, Limits!TypeOK
<1>7. KeysSound'
  <2> SUFFICES ASSUME NEW k \in Limited PROVE KeySound(rows'[k], verdicts[k], limitsNow)
    BY <1>1 DEF KeysSound
  <2>1. KeySound(rows[k], verdicts[k], limitsNow) /\ k \in Limits!RowKeys
    BY DEF LimitsInv, KeysSound, Limits!RowKeys
  <2>2. QED BY <1>2, <1>4, <2>1, KeyPruned
<1>8. NoncesSound'
  <2> SUFFICES ASSUME NEW n \in Nonces
               PROVE  NonceSound(rows'[n], accepted[n], signed[n], limitsNow)
    BY <1>1 DEF NoncesSound
  <2>1. NonceSound(rows[n], accepted[n], signed[n], limitsNow) /\ n \in Limits!RowKeys
        /\ accepted[n] \in Seq(Nat)
    BY <1>2 DEF LimitsInv, NoncesSound, Limits!RowKeys
  <2>2. QED BY <1>2, <1>4, <2>1, NoncePruned
<1>9. QED BY <1>3, <1>6, <1>7, <1>8 DEF LimitsInv

LEMMA UnblockSound ==
  ASSUME LimitsInv, NEW ip \in Addresses, Limits!UnblockIp(ip)
  PROVE  LimitsInv'
<1>1. /\ rows' = [k \in Limits!RowKeys |->
                    IF k \in Limited /\ AddressOf[k] = ip THEN NoRow ELSE rows[k]]
      /\ verdicts' = [k \in Limited |-> IF AddressOf[k] = ip THEN <<>> ELSE verdicts[k]]
      /\ UNCHANGED <<workload, request, prunes, lastCleanup, signed, calls, limitsNow, accepted>>
  BY DEF Limits!UnblockIp
<1>2. /\ rows \in [Limits!RowKeys -> Limits!Row \cup {NoRow}]
      /\ \A k \in Limits!RowKeys : rows[k] # NoRow => (rows[k].count = 0 <=> k \in Nonces)
      /\ verdicts \in [Limited -> Seq(Verdict)] /\ limitsNow \in Nat
  BY LimitsParameters DEF LimitsInv, Limits!TypeOK, Verdict
<1>3. CallsSound' /\ PrunesPast'
  BY <1>1 DEF LimitsInv, CallsSound, PrunesPast
<1>4. \A k \in Limits!RowKeys : rows'[k] = NoRow \/ rows'[k] = rows[k]
  BY <1>1
<1>5. rows' \in [Limits!RowKeys -> Limits!Row \cup {NoRow}]
      /\ \A k \in Limits!RowKeys : rows'[k] # NoRow => (rows'[k].count = 0 <=> k \in Nonces)
  BY <1>1, <1>2, <1>4
<1>6. verdicts' \in [Limited -> Seq(Verdict)]
  BY <1>1, <1>2
<1>7. Limits!TypeOK'
  BY <1>1, <1>5, <1>6 DEF LimitsInv, Limits!TypeOK, Verdict
<1>8. KeysSound'
  <2> SUFFICES ASSUME NEW k \in Limited PROVE KeySound(rows'[k], verdicts'[k], limitsNow)
    BY <1>1 DEF KeysSound
  <2>1. KeySound(rows[k], verdicts[k], limitsNow) /\ k \in Limits!RowKeys
    BY DEF LimitsInv, KeysSound, Limits!RowKeys
  <2>2. CASE AddressOf[k] = ip
    <3>1. rows'[k] = NoRow /\ verdicts'[k] = <<>>
      BY <1>1, <2>1, <2>2
    <3>2. QED BY <1>2, <3>1, NothingYet
  <2>3. CASE AddressOf[k] # ip
    BY <1>1, <2>1, <2>3
  <2>4. QED BY <2>2, <2>3
<1>9. NoncesSound'
  <2>1. \A n \in Nonces : rows'[n] = rows[n]
    BY <1>1, LimitsParameters DEF Limits!RowKeys
  <2>2. QED BY <1>1, <2>1 DEF LimitsInv, NoncesSound
<1>10. QED BY <1>3, <1>7, <1>8, <1>9 DEF LimitsInv

LEMMA LimitsTickSound ==
  ASSUME LimitsInv, Limits!Tick
  PROVE  LimitsInv'
<1>1. /\ limitsNow < LimitsTime /\ limitsNow' = limitsNow + 1
      /\ \A r \in Requests : request[r] # Limits!Idle => request[r].at = limitsNow
      /\ UNCHANGED <<workload, rows, request, prunes, lastCleanup, signed, calls,
                     verdicts, accepted>>
  BY DEF Limits!Tick
<1>2. /\ limitsNow \in 0 .. LimitsTime /\ limitsNow \in Nat /\ limitsNow' \in Nat
      /\ limitsNow' \in 0 .. LimitsTime /\ limitsNow <= limitsNow'
      /\ accepted \in [Nonces -> Seq(Nat)] /\ prunes \subseteq Nat
  BY <1>1, LimitsParameters DEF LimitsInv, Limits!TypeOK
<1>3. Limits!TypeOK'
  BY <1>1, <1>2 DEF LimitsInv, Limits!TypeOK
<1>4. CallsSound'
  <2> SUFFICES ASSUME NEW r \in Requests, request[r] # Limits!Idle
               PROVE  CallSound(request[r], signed, limitsNow')
    BY <1>1 DEF CallsSound
  <2>1. request[r].at = limitsNow /\ CallSound(request[r], signed, limitsNow)
    BY <1>1 DEF LimitsInv, CallsSound
  <2>2. limitsNow <= limitsNow' /\ limitsNow' <= limitsNow + 1
    BY <1>1, <1>2
  <2>3. QED BY <2>1, <2>2 DEF CallSound
<1>5. PrunesPast'
  BY <1>1, <1>2 DEF LimitsInv, PrunesPast
<1>6. KeysSound'
  <2> SUFFICES ASSUME NEW k \in Limited PROVE KeySound(rows[k], verdicts[k], limitsNow')
    BY <1>1 DEF KeysSound
  <2>1. KeySound(rows[k], verdicts[k], limitsNow)
    BY DEF LimitsInv, KeysSound
  <2>2. QED BY <1>2, <2>1, KeyLater
<1>7. NoncesSound'
  <2> SUFFICES ASSUME NEW n \in Nonces
               PROVE  NonceSound(rows[n], accepted[n], signed[n], limitsNow')
    BY <1>1 DEF NoncesSound
  <2>1. NonceSound(rows[n], accepted[n], signed[n], limitsNow) /\ accepted[n] \in Seq(Nat)
    BY <1>2 DEF LimitsInv, NoncesSound
  <2>2. QED BY <1>2, <2>1, NonceLater
<1>8. QED BY <1>3, <1>4, <1>5, <1>6, <1>7 DEF LimitsInv

LEMMA LimitsStep == LimitsInv /\ [Limits!Next]_Limits!vars => LimitsInv'
<1> SUFFICES ASSUME LimitsInv, [Limits!Next]_Limits!vars PROVE LimitsInv'
  OBVIOUS
<1>1. ASSUME NEW r \in Requests, NEW i \in Instances, NEW k \in Limited,
             Limits!CheckRateLimit(r, i, k)
      PROVE  LimitsInv'
  <2>1. /\ Limits!Begin(r, i, "rate-limit", k) /\ k \in Limits!RowKeys /\ k \notin Nonces
        /\ "rate-limit" \in Limits!Libraries
    BY <1>1, LimitsParameters DEF Limits!CheckRateLimit, Limits!RowKeys, Limits!Libraries
  <2>2. QED BY <2>1, BeginSound
<1>2. ASSUME NEW r \in Requests, NEW i \in Instances, NEW n \in Nonces,
             Limits!AuthorizeCronRequest(r, i, n)
      PROVE  LimitsInv'
  <2>1. /\ Limits!Begin(r, i, "cron-nonce", n) /\ n \in Limits!RowKeys
        /\ "cron-nonce" \in Limits!Libraries
        /\ ~(Limits!Second(limitsNow) - signed[n] > Skew)
    BY <1>2 DEF Limits!AuthorizeCronRequest, Limits!Timely, Limits!RowKeys, Limits!Libraries
  <2>2. QED BY <2>1, BeginSound
<1>3. CASE UNCHANGED Limits!vars
  <2>1. UNCHANGED <<workload, rows, request, prunes, lastCleanup, signed, calls, limitsNow,
                    verdicts, accepted>>
    BY <1>3 DEF Limits!vars
  <2>2. QED BY <2>1 DEF LimitsInv, Limits!TypeOK, CallsSound, PrunesPast, KeysSound, NoncesSound
<1>4. QED
  BY <1>1, <1>2, <1>3, AttemptSound, ConsumeSound, FailSound, PruneSound, UnblockSound,
     LimitsTickSound DEF Limits!Next

LEMMA LimitsAlways == Limits!Spec => []LimitsInv
BY LimitsInit, LimitsStep, PTL DEF Limits!Spec
----------------------------------------------------------------------------
(* The limiter: what its windows promise                                   *)

\* A set between two stretches of MaxAttempts, and one that holds such a stretch.
LEMMA TwoStretches ==
  ASSUME NEW a \in Nat, NEW b \in Nat, NEW S,
         \A j \in S : j \in Nat
                      /\ ((a < j /\ j <= a + MaxAttempts) \/ (b < j /\ j <= b + MaxAttempts))
  PROVE  Cardinality(S) <= 2 * MaxAttempts
<1>1. PICK n \in Nat : n = MaxAttempts /\ n > 0
  BY LimitsParameters
<1> DEFINE A == a + 1 .. a + n
           B == b + 1 .. b + n
<1>2. /\ IsFiniteSet(A) /\ Cardinality(A) = n /\ IsFiniteSet(B) /\ Cardinality(B) = n
  <2>1. a + 1 \in Int /\ a + n \in Int /\ b + 1 \in Int /\ b + n \in Int
    OBVIOUS
  <2>2. /\ IsFiniteSet(A) /\ Cardinality(A) = (IF a + 1 > a + n THEN 0 ELSE (a + n) - (a + 1) + 1)
        /\ IsFiniteSet(B) /\ Cardinality(B) = (IF b + 1 > b + n THEN 0 ELSE (b + n) - (b + 1) + 1)
    BY <2>1, FS_Interval
  <2> HIDE DEF A, B
  <2>3. QED BY <1>1, <2>2
<1>3. S \subseteq A \cup B
  BY <1>1
<1> HIDE DEF A, B
<1>4. /\ IsFiniteSet(A \cup B) /\ IsFiniteSet(A \cap B)
      /\ Cardinality(A \cup B) = Cardinality(A) + Cardinality(B) - Cardinality(A \cap B)
  <2>1. A \cap B \in SUBSET A
    OBVIOUS
  <2>2. QED BY <1>2, <2>1, FS_Union, FS_Subset
<1>5. Cardinality(A \cap B) \in Nat
  BY <1>4, FS_CardinalityType
<1>6. IsFiniteSet(S) /\ Cardinality(S) <= Cardinality(A \cup B)
  BY <1>3, <1>4, FS_Subset
<1>7. Cardinality(S) \in Nat
  BY <1>6, FS_CardinalityType
<1>8. QED BY <1>1, <1>2, <1>4, <1>5, <1>6, <1>7

LEMMA OneStretch ==
  ASSUME NEW e \in Nat, NEW S, IsFiniteSet(S), e + 1 .. e + MaxAttempts \subseteq S
  PROVE  Cardinality(S) >= MaxAttempts
<1>1. PICK n \in Nat : n = MaxAttempts /\ n > 0
  BY LimitsParameters
<1> DEFINE E == e + 1 .. e + n
<1>2. Cardinality(E) = n
  <2>1. e + 1 \in Int /\ e + n \in Int
    OBVIOUS
  <2>2. Cardinality(E) = IF e + 1 > e + n THEN 0 ELSE (e + n) - (e + 1) + 1
    BY <2>1, FS_Interval
  <2> HIDE DEF E
  <2>3. QED BY <1>1, <2>2
<1>3. E \in SUBSET S
  BY <1>1
<1> HIDE DEF E
<1>4. Cardinality(E) <= Cardinality(S) /\ Cardinality(S) \in Nat
  BY <1>3, FS_Subset, FS_CardinalityType
<1>5. QED BY <1>1, <1>2, <1>4

LEMMA Histories ==
  ASSUME LimitsInv, NEW k \in Limited, NEW h, h = verdicts[k]
  PROVE  /\ h \in Seq(Verdict) /\ Len(h) \in Nat /\ DOMAIN h = 1 .. Len(h)
         /\ \A j \in 1 .. Len(h) : h[j] \in Verdict /\ h[j].at \in Nat
         /\ Spread(h) /\ Refusals(h)
<1>1. h \in Seq(Verdict) /\ KeySound(rows[k], h, limitsNow)
  BY DEF LimitsInv, Limits!TypeOK, KeysSound, Verdict
<1>2. /\ Len(h) \in Nat /\ DOMAIN h = 1 .. Len(h)
      /\ \A j \in 1 .. Len(h) : h[j] \in Verdict
  BY <1>1
<1>3. \A j \in 1 .. Len(h) : h[j].at \in Nat
  BY <1>2 DEF Verdict
<1>4. QED BY <1>1, <1>2, <1>3 DEF KeySound

LEMMA BoundedInTheEnd == LimitsInv => Limits!AdmissionsBounded
<1> SUFFICES ASSUME LimitsInv, NEW k \in Limited, NEW t \in 0 .. LimitsTime
             PROVE  Limits!Cardinality({j \in Limits!At(k, "allowed") :
                                          verdicts[k][j].at \in t .. (t + Window - 1)})
                      <= 2 * MaxAttempts
  BY DEF Limits!AdmissionsBounded
<1>1. PICK h : h = verdicts[k]
  OBVIOUS
<1>2. /\ DOMAIN h = 1 .. Len(h) /\ Len(h) \in Nat /\ Spread(h)
      /\ \A j \in 1 .. Len(h) : h[j].at \in Nat
  BY <1>1, Histories
<1>3. t \in Nat /\ Window \in Nat
  BY LimitsParameters
<1>4. PICK a \in Nat, b \in Nat : \A j \in 1 .. Len(h) :
        h[j].is = "allowed" /\ t <= h[j].at /\ h[j].at < t + Window =>
          (a < j /\ j <= a + MaxAttempts) \/ (b < j /\ j <= b + MaxAttempts)
  BY <1>2, <1>3 DEF Spread
<1> DEFINE S == {j \in Limits!At(k, "allowed") : verdicts[k][j].at \in t .. (t + Window - 1)}
<1>5. \A j \in S : j \in 1 .. Len(h) /\ h[j].is = "allowed" /\ h[j].at \in t .. (t + Window - 1)
  BY <1>1, <1>2 DEF Limits!At
<1> HIDE DEF S
<1>6. \A j \in S : j \in Nat
                   /\ ((a < j /\ j <= a + MaxAttempts) \/ (b < j /\ j <= b + MaxAttempts))
  <2>1. ASSUME NEW j \in S
        PROVE  j \in 1 .. Len(h) /\ h[j].is = "allowed" /\ t <= h[j].at /\ h[j].at < t + Window
    BY <1>2, <1>3, <1>5
  <2>2. QED BY <1>2, <1>4, <2>1
<1>7. Cardinality(S) <= 2 * MaxAttempts
  BY <1>6, TwoStretches
<1>8. QED BY <1>7, SameSizes DEF S

LEMMA RefusedInTheEnd == LimitsInv => Limits!RefusedOnlyWhenFull
<1> SUFFICES ASSUME LimitsInv, NEW k \in Limited, NEW j \in Limits!At(k, "refused")
             PROVE  Limits!Cardinality(
                      {i \in Limits!At(k, "allowed") \cup Limits!At(k, "open") :
                         verdicts[k][i].at >= verdicts[k][j].at - Window}) >= MaxAttempts
  BY DEF Limits!RefusedOnlyWhenFull
<1>1. PICK h : h = verdicts[k]
  OBVIOUS
<1>2. /\ DOMAIN h = 1 .. Len(h) /\ Len(h) \in Nat /\ Refusals(h)
      /\ \A i \in 1 .. Len(h) : h[i] \in Verdict
  BY <1>1, Histories
<1>3. j \in 1 .. Len(h) /\ h[j].is = "refused"
  BY <1>1, <1>2 DEF Limits!At
<1>4. PICK e \in Nat :
        /\ e + MaxAttempts <= Len(h)
        /\ \A i \in e + 1 .. e + MaxAttempts :
             h[i].is # "refused" /\ h[i].at >= h[j].at - Window
  BY <1>2, <1>3 DEF Refusals
<1> DEFINE S == {i \in Limits!At(k, "allowed") \cup Limits!At(k, "open") :
                   verdicts[k][i].at >= verdicts[k][j].at - Window}
<1>5. ASSUME NEW i \in e + 1 .. e + MaxAttempts
      PROVE  i \in S
  <2>1. i \in 1 .. Len(h)
    BY <1>2, <1>4, LimitsParameters
  <2>2. h[i].is = "allowed" \/ h[i].is = "open"
    BY <1>2, <1>4, <2>1 DEF Verdict
  <2>3. QED BY <1>1, <1>2, <1>4, <2>1, <2>2 DEF Limits!At
<1>6. S \subseteq 1 .. Len(h)
  BY <1>1, <1>2 DEF Limits!At
<1> HIDE DEF S
<1>7. IsFiniteSet(S)
  <2>1. IsFiniteSet(1 .. Len(h))
    BY <1>2, FS_Interval
  <2>2. QED BY <1>6, <2>1, FS_Subset
<1>8. Cardinality(S) >= MaxAttempts
  BY <1>5, <1>7, OneStretch
<1>9. QED BY <1>8, SameSizes DEF S

LEMMA UsedOnce == LimitsInv => Limits!SingleUse
<1> SUFFICES ASSUME LimitsInv, NEW n \in Nonces
             PROVE  Len(accepted[n]) <= 1 \/ signed[n] >= Limits!Second(accepted[n][1]) + Skew
  BY DEF Limits!SingleUse
<1>1. PICK acc \in Seq(Nat) : acc = accepted[n]
  BY DEF LimitsInv, Limits!TypeOK
<1>2. NonceSound(rows[n], acc, signed[n], limitsNow)
  BY <1>1 DEF LimitsInv, NoncesSound
<1>3. CASE acc = <<>>
  BY <1>1, <1>3
<1>4. CASE acc # <<>>
  <2>1. Len(acc) = 1 \/ signed[n] >= Limits!Second(acc[1]) + Skew
    BY <1>2, <1>4 DEF NonceSound
  <2>2. Len(acc) = 1 => Len(acc) <= 1
    OBVIOUS
  <2>3. Len(acc) <= 1 \/ signed[n] >= Limits!Second(acc[1]) + Skew
    BY <2>1, <2>2, Zenon
  <2>4. QED BY <1>1, <2>3
<1>5. QED BY <1>3, <1>4
----------------------------------------------------------------------------

\* Whatever calls, answers lost, deletes and clearings by an administrator come in
\* between, a limiter key admits at most twice its attempts in any span of a window
\* and refuses only when its attempts were used up; a signed request is carried out
\* once; and an account is locked when, and only when, its failures earn it.
\* (checkRateLimit, maybeCleanup, unblockIp; verifyCronRequest, consumeCronNonce;
\* registerLoginFailure, isLoginLocked.)
THEOREM ThrottlesHold == MCSpec => []ThrottlesExact
<1>1. LimitsInv /\ LockInv => ThrottlesExact
  BY BoundedInTheEnd, RefusedInTheEnd, UsedOnce, LocksAreEarned
  DEF ThrottlesExact, Limits!AdmissionsExact
<1>2. QED BY <1>1, Parts, LimitsAlways, LockoutAlways, PTL

\* Each of the four components keeps its types in every behaviour of the others: no
\* cached settings row but one the table has held, no row that counts attempts for a
\* nonce, no more failed sign-ins counted than the account can have had.
\* (report-cache.ts, system-settings.ts, rate-limit.ts, cron-nonce.ts,
\* account-lockout.ts.)
THEOREM TypesCorrect == MCSpec => []TypesOK
<1>1. LimitsInv => Limits!TypeOK
  BY DEF LimitsInv
<1>2. TypeOK /\ SettingsInv /\ LimitsInv /\ LockInv => TypesOK
  BY <1>1, SettingsTypeOK, LoginTypes DEF TypesOK
<1>3. QED BY <1>2, Parts, TypeCorrect, SettingsAlways, LimitsAlways, LockoutAlways, PTL
=============================================================================

--------------------- MODULE AdmissionRateLimiter_proofs ---------------------
(***************************************************************************)
(* The limiter for every limit, window and clock resolution.               *)
(***************************************************************************)
EXTENDS AdmissionRateLimiter, FiniteSetTheorems, SequenceTheorems,
        WellFoundedInduction, TLAPS

(***************************************************************************)
(* The inductive invariant.  Admissions are granted in the order of their  *)
(* instants, the limiter remembers the last ones of them, and those it has *)
(* forgotten are at least a window old.                                    *)
(***************************************************************************)
Ordered ==
  /\ \A i, j \in 1 .. Len(granted) : i <= j => granted[i] <= granted[j]
  /\ \A i \in 1 .. Len(granted) : granted[i] <= last_observation

Remembers ==
  /\ Len(admissions) <= Len(granted)
  /\ \A i \in 1 .. Len(admissions) :
       admissions[i] = granted[Len(granted) - Len(admissions) + i]
  /\ \A i \in 1 .. Len(granted) - Len(admissions) :
       last_observation - granted[i] >= WindowTicks

LimiterInv == TypeOK /\ Ordered /\ Remembers /\ SlidingWindow

\* A set of numbers that is not empty has a least one.
LEMMA LeastNumber ==
  ASSUME NEW T \in SUBSET Nat, T # {}
  PROVE  \E x \in T : \A y \in T : x <= y
<1> DEFINE R == OpToRel(<, Nat)
<1>1. IsWellFoundedOn(R, Nat)
  BY NatLessThanWellFounded
<1>2. \A x, y \in Nat : x < y => <<x, y>> \in R
  BY DEF OpToRel
<1> HIDE DEF R
<1>3. PICK x \in T : \A y \in T : ~ (<<y, x>> \in R)
  BY <1>1, WFMin
<1>4. ASSUME NEW y \in T PROVE x <= y
  <2>1. ~ (y < x)
    BY <1>2, <1>3
  <2> QED
    BY <2>1
<1> QED
  BY <1>4

\* A sequence of instants has a length and holds instants.
LEMMA InstantsIn ==
  ASSUME NEW s \in Seq(Instants)
  PROVE  /\ Len(s) \in Nat /\ DOMAIN s = 1 .. Len(s)
         /\ \A i \in 1 .. Len(s) : s[i] \in Instants
  BY LenProperties, ElementOfSeq

\* The window is a positive number of ticks.
LEMMA WindowTicksPositive == WindowTicks \in Nat /\ WindowTicks >= 1
<1>1. \A a, b \in Nat : a >= 1 /\ b >= 1 => a * b \in Nat /\ a * b >= 1
  OBVIOUS
<1> QED
  BY <1>1, LimiterAssumption DEF WindowTicks

\* find_if stops at the first admission that is active, or at the end.
LEMMA FirstActive ==
  ASSUME admissions \in Seq(Instants), NEW now \in Int
  PROVE  \E first \in 1 .. Len(admissions) + 1 :
           /\ Active(now) = SubSeq(admissions, first, Len(admissions))
           /\ first <= Len(admissions) => now - admissions[first] < WindowTicks
           /\ \A j \in 1 .. first - 1 : now - admissions[j] >= WindowTicks
<1>1. PICK size \in Nat : size = Len(admissions)
  BY InstantsIn
<1>2. \A j \in 1 .. size : admissions[j] \in Int
  BY <1>1, InstantsIn DEF Instants
<1>3. WindowTicks \in Int
  BY WindowTicksPositive
<1> DEFINE Stops(i) ==
             /\ i <= size => now - admissions[i] < WindowTicks
             /\ \A j \in 1 .. i - 1 : now - admissions[j] >= WindowTicks
           candidates ==
             {i \in 1 .. size + 1 : i <= size => now - admissions[i] < WindowTicks}
<1>4. \E i \in 1 .. size + 1 : Stops(i)
  <2>1. candidates \in SUBSET Nat /\ size + 1 \in candidates
    OBVIOUS
  <2>2. PICK i \in candidates : \A k \in candidates : i <= k
    BY <2>1, LeastNumber
  <2>3. ASSUME NEW j \in 1 .. i - 1 PROVE now - admissions[j] >= WindowTicks
    <3>1. j \in 1 .. size /\ ~ (i <= j)
      BY <2>2
    <3>2. j \notin candidates
      BY <2>2, <3>1
    <3>3. ~ (now - admissions[j] < WindowTicks)
      BY <3>1, <3>2
    <3> QED
      BY <1>2, <1>3, <3>1, <3>3
  <2> QED
    BY <2>2, <2>3
<1> DEFINE first == CHOOSE i \in 1 .. size + 1 : Stops(i)
<1>5. first \in 1 .. size + 1 /\ Stops(first)
  BY <1>4
<1>6. Active(now) = SubSeq(admissions, first, size)
  BY <1>1 DEF Active
<1> QED
  BY <1>1, <1>5, <1>6

(***************************************************************************)
(* Room(now, n): n of all past admissions are less than a window old, they *)
(* are the last n, and they are what the limiter counts.                   *)
(***************************************************************************)
Room(now, n) ==
  /\ n <= Len(granted) /\ n <= Len(admissions)
  /\ Active(now) \in Seq(Instants) /\ Len(Active(now)) = n
  /\ \A i \in 1 .. n : Active(now)[i] = granted[Len(granted) - n + i]
  /\ \A i \in 1 .. Len(granted) - n : now - granted[i] >= WindowTicks
  /\ \A i \in Len(granted) - n + 1 .. Len(granted) : now - granted[i] < WindowTicks

LEMMA ActiveIsRoom ==
  ASSUME TypeOK, Ordered, Remembers, NEW now \in Int, now >= last_observation
  PROVE  \E n \in Nat : Room(now, n)
<1>1. PICK size \in Nat, all \in Nat : size = Len(admissions) /\ all = Len(granted)
  BY InstantsIn DEF TypeOK
<1>2. /\ \A i \in 1 .. size : admissions[i] \in Instants
      /\ \A i \in 1 .. all : granted[i] \in Int
  BY <1>1, InstantsIn DEF TypeOK, Instants
<1>3. WindowTicks \in Int /\ last_observation \in Int
  BY WindowTicksPositive DEF TypeOK, Instants
<1>4. /\ size <= all
      /\ \A i \in 1 .. size : admissions[i] = granted[all - size + i]
      /\ \A i \in 1 .. all - size : last_observation - granted[i] >= WindowTicks
  BY <1>1 DEF Remembers
<1>5. PICK first \in 1 .. size + 1 :
        /\ Active(now) = SubSeq(admissions, first, size)
        /\ first <= size => now - admissions[first] < WindowTicks
        /\ \A j \in 1 .. first - 1 : now - admissions[j] >= WindowTicks
  BY <1>1, FirstActive DEF TypeOK
<1>6. PICK n \in Nat : n = size - first + 1 /\ n <= size
  OBVIOUS
<1>7. Active(now) \in Seq(Instants) /\ Len(Active(now)) = n
  <2>1. /\ SubSeq(admissions, first, size) \in Seq(Instants)
        /\ Len(SubSeq(admissions, first, size)) =
             IF first <= size THEN size - first + 1 ELSE 0
    BY <1>2, SubSeqProperties
  <2> QED
    BY <1>5, <1>6, <2>1
<1>8. ASSUME NEW i \in 1 .. n PROVE Active(now)[i] = granted[all - n + i]
  <2>1. SubSeq(admissions, first, size)[i] = admissions[first + i - 1]
    BY <1>2, <1>6, SubSeqProperties
  <2>2. PICK j \in 1 .. size : j = first + i - 1 /\ all - size + j = all - n + i
    BY <1>6
  <2>3. admissions[j] = granted[all - size + j]
    BY <1>4, <2>2
  <2> QED
    BY <1>5, <2>1, <2>2, <2>3
<1>9. ASSUME NEW i \in 1 .. all - n PROVE now - granted[i] >= WindowTicks
  <2>1. granted[i] \in Int
    BY <1>2
  <2>2. CASE i <= all - size
    <3>1. last_observation - granted[i] >= WindowTicks
      BY <1>4, <2>2
    <3> QED
      BY <1>3, <2>1, <3>1
  <2>3. CASE i > all - size
    <3>1. PICK j \in 1 .. first - 1 : i = all - size + j
      BY <1>4, <1>6, <2>3
    <3>2. j \in 1 .. size
      BY <3>1
    <3>3. admissions[j] = granted[i]
      BY <1>4, <3>1, <3>2
    <3> QED
      BY <1>5, <3>1, <3>3
  <2> QED
    BY <1>4, <2>2, <2>3
<1>10. ASSUME NEW i \in all - n + 1 .. all PROVE now - granted[i] < WindowTicks
  <2>1. first <= size /\ n >= 1
    BY <1>6
  <2>2. now - admissions[first] < WindowTicks
    BY <1>5, <2>1
  <2>3. PICK k \in 1 .. all : k = all - size + first /\ k <= i
    BY <1>4, <1>6, <2>1
  <2>4. admissions[first] = granted[k]
    BY <1>4, <2>1, <2>3
  <2>5. i \in 1 .. all
    BY <1>4, <1>6
  <2>6. granted[k] <= granted[i]
    BY <1>1, <2>3, <2>5 DEF Ordered
  <2>7. granted[k] \in Int /\ granted[i] \in Int
    BY <1>2, <2>3, <2>5
  <2> QED
    BY <1>3, <2>2, <2>4, <2>6, <2>7
<1>11. n <= all
  BY <1>4, <1>6
<1>12. Room(now, n)
  BY <1>1, <1>6, <1>7, <1>8, <1>9, <1>10, <1>11 DEF Room
<1> QED
  BY <1>12

\* What the limiter counts is how many past admissions are less than a window old.
LEMMA RoomCounts ==
  ASSUME TypeOK, NEW now \in Int, NEW n \in Nat, Room(now, n)
  PROVE  Cardinality({i \in DOMAIN granted : now - granted[i] < WindowTicks}) = n
<1>1. PICK all \in Nat : all = Len(granted) /\ DOMAIN granted = 1 .. all /\ n <= all
  BY InstantsIn DEF TypeOK, Room
<1>2. \A i \in 1 .. all : granted[i] \in Int
  BY <1>1, InstantsIn DEF TypeOK, Instants
<1>3. WindowTicks \in Int
  BY WindowTicksPositive
<1>4. /\ \A i \in 1 .. all - n : now - granted[i] >= WindowTicks
      /\ \A i \in all - n + 1 .. all : now - granted[i] < WindowTicks
  BY <1>1 DEF Room
<1>5. {i \in DOMAIN granted : now - granted[i] < WindowTicks} = all - n + 1 .. all
  <2>1. ASSUME NEW i \in 1 .. all PROVE now - granted[i] < WindowTicks <=> i > all - n
    <3>1. CASE i > all - n
      BY <1>4, <3>1
    <3>2. CASE i <= all - n
      BY <1>2, <1>3, <1>4, <3>2
    <3> QED
      BY <1>1, <3>1, <3>2
  <2> QED
    BY <1>1, <2>1
<1>6. Cardinality(all - n + 1 .. all) = n
  BY <1>1, FS_Interval
<1> QED
  BY <1>5, <1>6

\* At an instant not before the last one, the decision is a matter of the count.
LEMMA DecisionByRoom ==
  ASSUME TypeOK, NEW now \in Int, now >= last_observation, NEW n \in Nat, Room(now, n)
  PROVE  /\ Decision(now).admitted <=> n < MaximumAdmissions
         /\ n >= MaximumAdmissions =>
              Decision(now).retry_after = RoundUpToMs(WindowTicks - (now - Head(Active(now))))
<1>1. Len(Active(now)) = n
  BY DEF Room
<1>2. ~ (now < last_observation) /\ MaximumAdmissions \in Nat
  BY LimiterAssumption DEF TypeOK, Instants
<1>3. CASE n < MaximumAdmissions
  <2>1. Decision(now) = [admitted |-> TRUE, retry_after |-> 0]
    BY <1>1, <1>2, <1>3 DEF Decision
  <2> QED
    BY <1>2, <1>3, <2>1
<1>4. CASE n >= MaximumAdmissions
  <2>1. Decision(now) =
          [admitted |-> FALSE,
           retry_after |-> RoundUpToMs(WindowTicks - (now - Head(Active(now))))]
    BY <1>1, <1>2, <1>4 DEF Decision
  <2> QED
    BY <1>2, <1>4, <2>1
<1> QED
  BY <1>2, <1>3, <1>4

\* Rounding up: enough milliseconds, and not one too many.
LEMMA RoundUpIsExact ==
  ASSUME NEW k \in Nat, k >= 1
  PROVE  /\ RoundUpToMs(k) \in Nat /\ RoundUpToMs(k) >= 1
         /\ RoundUpToMs(k) * TicksPerMs >= k
         /\ (RoundUpToMs(k) - 1) * TicksPerMs < k
<1>1. PICK t \in Nat : t = TicksPerMs /\ t >= 1
  BY LimiterAssumption
<1>2. PICK q \in Nat : q = k \div t /\ q * t <= k /\ k < q * t + t
  <2>1. k \div t \in Nat /\ (k \div t) * t <= k /\ k < (k \div t) * t + t
    BY <1>1
  <2> QED
    BY <2>1
<1>3. /\ (q + 1) * t = q * t + t /\ (q - 1) * t = q * t - t /\ q * t \in Nat
      /\ ((q + 1) - 1) * t = q * t
  OBVIOUS
<1>4. CASE q * t < k
  <2>1. RoundUpToMs(k) = q + 1
    BY <1>1, <1>2, <1>4 DEF RoundUpToMs
  <2> QED
    BY <1>1, <1>2, <1>3, <1>4, <2>1
<1>5. CASE q * t = k
  <2>1. RoundUpToMs(k) = q
    BY <1>1, <1>2, <1>5 DEF RoundUpToMs
  <2>2. q >= 1
    BY <1>5
  <2> QED
    BY <1>1, <1>2, <1>3, <1>5, <2>1, <2>2
<1> QED
  BY <1>2, <1>3, <1>4, <1>5

-----------------------------------------------------------------------------
LEMMA InitHolds == Init => LimiterInv
<1> SUFFICES ASSUME Init PROVE LimiterInv
  OBVIOUS
<1>1. <<>> \in Seq(Instants) /\ Len(<<>>) = 0
  BY EmptySeq
<1>2. MaximumAdmissions \in Nat
  BY LimiterAssumption
<1>3. TypeOK
  BY <1>1, <1>2 DEF Init, TypeOK
<1>4. Ordered /\ Remembers /\ SlidingWindow
  BY <1>1, <1>2 DEF Init, Ordered, Remembers, SlidingWindow
<1> QED
  BY <1>3, <1>4 DEF LimiterInv

\* The two ways in which an attempt in order ends.
Denies(now) ==
  last_observation' = now /\ admissions' = Active(now) /\ UNCHANGED granted
Admits(now) ==
  /\ last_observation' = now
  /\ admissions' = Append(Active(now), now) /\ granted' = Append(granted, now)

\* A denied attempt: expired admissions are erased, nothing else happens.
LEMMA DeniedHolds ==
  ASSUME LimiterInv, NEW now \in Instants, now >= last_observation,
         NEW n \in Nat, Room(now, n), Denies(now)
  PROVE  LimiterInv'
<1>1. PICK all \in Nat, max \in Nat :
        all = Len(granted) /\ max = MaximumAdmissions /\ n <= all /\ n <= max
  BY InstantsIn, LimiterAssumption DEF LimiterInv, TypeOK, Room
<1>2. Len(admissions') = n /\ Len(granted') = all
  BY <1>1 DEF Room, Denies
<1>3. \A i \in 1 .. all : granted[i] \in Int /\ granted[i] <= last_observation
  BY <1>1, InstantsIn DEF LimiterInv, TypeOK, Instants, Ordered
<1>4. now \in Int /\ last_observation \in Int /\ last_observation' = now
  BY DEF Instants, LimiterInv, TypeOK, Denies
<1>5. TypeOK'
  BY <1>1, <1>2 DEF LimiterInv, TypeOK, Room, Denies
<1>6. Ordered'
  BY <1>1, <1>2, <1>3, <1>4 DEF LimiterInv, Ordered, Denies
<1>7. Remembers'
  BY <1>1, <1>2 DEF Room, Remembers, Denies
<1>8. SlidingWindow'
  BY DEF LimiterInv, SlidingWindow, Denies
<1> QED
  BY <1>5, <1>6, <1>7, <1>8 DEF LimiterInv

\* An admission: the one that is maximum_admissions back has left the window.
LEMMA AdmittedHolds ==
  ASSUME LimiterInv, NEW now \in Instants, now >= last_observation,
         NEW n \in Nat, Room(now, n), n < MaximumAdmissions, Admits(now)
  PROVE  LimiterInv'
<1>1. PICK all \in Nat, max \in Nat :
        all = Len(granted) /\ max = MaximumAdmissions /\ n <= all /\ n < max
  BY InstantsIn, LimiterAssumption DEF LimiterInv, TypeOK, Room
<1>2. \A i \in 1 .. all : granted[i] \in Int /\ granted[i] <= last_observation
  BY <1>1, InstantsIn DEF LimiterInv, TypeOK, Instants, Ordered
<1>3. now \in Int /\ last_observation \in Int /\ last_observation' = now
  BY DEF Instants, LimiterInv, TypeOK, Admits
<1>4. /\ granted' \in Seq(Instants) /\ Len(granted') = all + 1
      /\ \A i \in 1 .. all : granted'[i] = granted[i]
      /\ granted'[all + 1] = now
  BY <1>1, AppendProperties DEF LimiterInv, TypeOK, Admits
<1>5. /\ admissions' \in Seq(Instants) /\ Len(admissions') = n + 1
      /\ \A i \in 1 .. n : admissions'[i] = Active(now)[i]
      /\ admissions'[n + 1] = now
  BY AppendProperties DEF Room, Admits
<1>6. /\ \A i \in 1 .. n : Active(now)[i] = granted[all - n + i]
      /\ \A i \in 1 .. all - n : now - granted[i] >= WindowTicks
  BY <1>1 DEF Room
<1>7. TypeOK'
  BY <1>1, <1>3, <1>4, <1>5 DEF TypeOK
<1>8. Ordered'
  <2>1. ASSUME NEW i \in 1 .. all + 1, NEW j \in 1 .. all + 1, i <= j
        PROVE  granted'[i] <= granted'[j]
    <3>1. CASE j <= all
      <4>1. i \in 1 .. all /\ j \in 1 .. all
        BY <2>1, <3>1
      <4>2. granted[i] <= granted[j]
        BY <1>1, <2>1, <4>1 DEF LimiterInv, Ordered
      <4> QED
        BY <1>4, <4>1, <4>2
    <3>2. CASE j = all + 1 /\ i <= all
      <4>1. i \in 1 .. all
        BY <3>2
      <4> QED
        BY <1>2, <1>3, <1>4, <3>2, <4>1
    <3>3. CASE i = all + 1
      BY <1>3, <1>4, <2>1, <3>3
    <3> QED
      BY <3>1, <3>2, <3>3
  <2>2. ASSUME NEW i \in 1 .. all + 1 PROVE granted'[i] <= now
    BY <1>2, <1>3, <1>4
  <2> QED
    BY <1>3, <1>4, <2>1, <2>2 DEF Ordered
<1>9. Remembers'
  <2>1. ASSUME NEW i \in 1 .. n + 1 PROVE admissions'[i] = granted'[all - n + i]
    <3>1. CASE i <= n
      <4>1. i \in 1 .. n /\ all - n + i \in 1 .. all
        BY <1>1, <3>1
      <4> QED
        BY <1>4, <1>5, <1>6, <4>1
    <3>2. CASE i = n + 1
      BY <1>1, <1>4, <1>5, <3>2
    <3> QED
      BY <3>1, <3>2
  <2>2. ASSUME NEW i \in 1 .. all - n PROVE now - granted'[i] >= WindowTicks
    <3>1. i \in 1 .. all
      BY <1>1
    <3> QED
      BY <1>4, <1>6, <3>1
  <2>3. (all + 1) - (n + 1) = all - n /\ n + 1 <= all + 1
    BY <1>1
  <2> QED
    BY <1>3, <1>4, <1>5, <2>1, <2>2, <2>3 DEF Remembers
<1>10. SlidingWindow'
  <2> SUFFICES ASSUME NEW i \in 1 .. all + 1 - max
               PROVE  granted'[i + max] - granted'[i] >= WindowTicks
    BY <1>1, <1>4 DEF SlidingWindow
  <2>1. CASE i + max <= all
    <3>1. i \in 1 .. all - max /\ i \in 1 .. all /\ i + max \in 1 .. all
      BY <2>1
    <3>2. granted[i + max] - granted[i] >= WindowTicks
      BY <1>1, <3>1 DEF LimiterInv, SlidingWindow
    <3> QED
      BY <1>4, <3>1, <3>2
  <2>2. CASE i + max = all + 1
    <3>1. i \in 1 .. all - n /\ i \in 1 .. all
      BY <1>1, <2>2
    <3>2. now - granted[i] >= WindowTicks
      BY <1>6, <3>1
    <3> QED
      BY <1>4, <2>2, <3>1, <3>2
  <2> QED
    BY <2>1, <2>2
<1> QED
  BY <1>7, <1>8, <1>9, <1>10 DEF LimiterInv

LEMMA StepHolds == LimiterInv /\ [Next]_vars => LimiterInv'
<1> SUFFICES ASSUME LimiterInv, [Next]_vars PROVE LimiterInv'
  OBVIOUS
<1>1. CASE UNCHANGED vars
  BY <1>1 DEF vars, LimiterInv, TypeOK, Ordered, Remembers, SlidingWindow
<1>2. CASE reset
  <2>1. admissions' = <<>> /\ last_observation' = -1 /\ granted' = <<>>
    BY <1>2 DEF reset
  <2>2. <<>> \in Seq(Instants) /\ Len(<<>>) = 0 /\ MaximumAdmissions \in Nat
    BY EmptySeq, LimiterAssumption
  <2>3. TypeOK'
    BY <2>1, <2>2 DEF TypeOK
  <2>4. Ordered' /\ Remembers' /\ SlidingWindow'
    BY <2>1, <2>2 DEF Ordered, Remembers, SlidingWindow
  <2> QED
    BY <2>3, <2>4 DEF LimiterInv
<1>3. ASSUME NEW now \in Instants, try_admit(now), now >= last_observation
      PROVE  LimiterInv'
  <2>1. now \in Int
    BY DEF Instants
  <2>2. PICK n \in Nat : Room(now, n)
    BY <1>3, <2>1, ActiveIsRoom DEF LimiterInv
  <2>3. Decision(now).admitted <=> n < MaximumAdmissions
    BY <1>3, <2>1, <2>2, DecisionByRoom DEF LimiterInv
  <2>4. ~ (now < last_observation)
    BY <1>3, <2>1 DEF LimiterInv, TypeOK, Instants
  <2>5. CASE n < MaximumAdmissions
    <3>1. Admits(now)
      BY <1>3, <2>3, <2>4, <2>5 DEF try_admit, Admits
    <3> QED
      BY <1>3, <2>2, <2>5, <3>1, AdmittedHolds
  <2>6. CASE ~ (n < MaximumAdmissions)
    <3>1. Denies(now)
      BY <1>3, <2>3, <2>4, <2>6 DEF try_admit, Denies
    <3> QED
      BY <1>3, <2>2, <3>1, DeniedHolds
  <2> QED
    BY <2>5, <2>6
<1>4. ASSUME NEW now \in Instants, try_admit(now), ~ (now >= last_observation)
      PROVE  LimiterInv'
  BY <1>1, <1>4 DEF try_admit
<1> QED
  BY <1>1, <1>2, <1>3, <1>4 DEF Next

(***************************************************************************)
(* However long the limiter runs and whatever instants it is given, no     *)
(* window contains more than maximum_admissions admissions.                *)
(***************************************************************************)
THEOREM WindowIsNeverOverfull == Spec => []SlidingWindow
<1>1. LimiterInv => SlidingWindow
  BY DEF LimiterInv
<1> QED
  BY <1>1, InitHolds, StepHolds, PTL DEF Spec

\* A full window: its oldest admission is the one that has to leave.
LEMMA FullWindow ==
  ASSUME LimiterInv, NEW now \in Instants, now >= last_observation,
         ~ Decision(now).admitted
  PROVE  \E i \in 1 .. Len(granted), k \in Nat :
           /\ i = Len(granted) - MaximumAdmissions + 1
           /\ k >= 1 /\ k = WindowTicks - (now - granted[i])
           /\ Decision(now).retry_after = RoundUpToMs(k)
<1>1. now \in Int /\ last_observation \in Int
  BY DEF Instants, LimiterInv, TypeOK
<1>2. PICK n \in Nat : Room(now, n)
  BY <1>1, ActiveIsRoom DEF LimiterInv
<1>3. PICK all \in Nat, max \in Nat :
        all = Len(granted) /\ max = MaximumAdmissions /\ max >= 1 /\ n <= all
  BY <1>2, InstantsIn, LimiterAssumption DEF LimiterInv, TypeOK, Room, valid
<1>4. n >= max
  BY <1>1, <1>2, <1>3, DecisionByRoom DEF LimiterInv
<1>5. n = max
  <2>1. n <= Len(admissions) /\ Len(admissions) <= max /\ Len(admissions) \in Nat
    BY <1>2, <1>3, InstantsIn DEF LimiterInv, TypeOK, Room
  <2> QED
    BY <1>4, <2>1
<1>6. n >= 1 /\ n <= all
  BY <1>3, <1>5
<1>7. all - n + 1 \in 1 .. all
  BY <1>6
<1>8. PICK i \in 1 .. all : i = all - n + 1
  BY <1>7
<1>9. PICK h \in Int : h = granted[i] /\ h <= now
  <2>1. granted[i] \in Int
    BY <1>3, InstantsIn DEF LimiterInv, TypeOK, Instants
  <2>2. granted[i] <= last_observation
    BY <1>3 DEF LimiterInv, Ordered
  <2> QED
    BY <1>1, <2>1, <2>2
<1>10. Head(Active(now)) = h
  <2>1. Active(now) \in Seq(Instants) /\ Len(Active(now)) = n /\ Active(now)[1] = granted[i]
    BY <1>2, <1>3, <1>5, <1>8 DEF Room
  <2> QED
    BY <1>3, <1>5, <1>9, <2>1
<1>11. now - h < WindowTicks
  <2>1. now - granted[i] < WindowTicks
    BY <1>2, <1>3, <1>8 DEF Room
  <2> QED
    BY <1>9, <2>1
<1>12. PICK k \in Nat : k = WindowTicks - (now - h) /\ k >= 1
  BY <1>1, <1>11, WindowTicksPositive
<1>13. Decision(now).retry_after = RoundUpToMs(k)
  BY <1>1, <1>2, <1>3, <1>4, <1>10, <1>12, DecisionByRoom DEF LimiterInv
<1> QED
  BY <1>3, <1>5, <1>8, <1>9, <1>12, <1>13

\* From a full window on: room again once its oldest admission has left, not before.
LEMMA RoomAgain ==
  ASSUME LimiterInv, NEW i \in 1 .. Len(granted),
         i = Len(granted) - MaximumAdmissions + 1,
         NEW now \in Int, now >= last_observation
  PROVE  Decision(now).admitted <=> now - granted[i] >= WindowTicks
<1>1. PICK n \in Nat : Room(now, n)
  BY ActiveIsRoom DEF LimiterInv
<1>2. PICK all \in Nat, max \in Nat :
        all = Len(granted) /\ max = MaximumAdmissions /\ n <= all
  BY <1>1, InstantsIn, LimiterAssumption DEF LimiterInv, TypeOK, Room
<1>3. Decision(now).admitted <=> n < max
  BY <1>1, <1>2, DecisionByRoom DEF LimiterInv
<1>4. granted[i] \in Int /\ WindowTicks \in Int
  BY InstantsIn, WindowTicksPositive DEF LimiterInv, TypeOK, Instants
<1>5. CASE n < max
  <2>1. i \in 1 .. all - n
    BY <1>2, <1>5
  <2>2. now - granted[i] >= WindowTicks
    BY <1>1, <1>2, <2>1 DEF Room
  <2> QED
    BY <1>3, <1>5, <2>2
<1>6. CASE n >= max
  <2>1. i \in all - n + 1 .. all
    BY <1>2, <1>6
  <2>2. now - granted[i] < WindowTicks
    BY <1>1, <1>2, <2>1 DEF Room
  <2> QED
    BY <1>2, <1>3, <1>4, <1>6, <2>2
<1> QED
  BY <1>2, <1>5, <1>6

(***************************************************************************)
(* try_admit admits exactly when the reference definition does, and its    *)
(* retry_after is the least number of milliseconds that is enough, for     *)
(* every limit, window and clock resolution.                               *)
(***************************************************************************)
THEOREM DecisionsAreExact == Spec => []DecisionIsExact
<1>1. LimiterInv => AdmitsExactlyWhenRoom
  <2> SUFFICES ASSUME LimiterInv, NEW now \in Instants, now >= last_observation
               PROVE  Decision(now).admitted <=>
                        Cardinality({i \in DOMAIN granted : now - granted[i] < WindowTicks})
                          < MaximumAdmissions
    BY DEF AdmitsExactlyWhenRoom
  <2>1. now \in Int
    BY DEF Instants
  <2>2. PICK n \in Nat : Room(now, n)
    BY <2>1, ActiveIsRoom DEF LimiterInv
  <2>3. Cardinality({i \in DOMAIN granted : now - granted[i] < WindowTicks}) = n
    BY <2>1, <2>2, RoomCounts DEF LimiterInv
  <2>4. Decision(now).admitted <=> n < MaximumAdmissions
    BY <2>1, <2>2, DecisionByRoom DEF LimiterInv
  <2> QED
    BY <2>3, <2>4
<1>2. LimiterInv => RetryAfterIsExact
  <2> SUFFICES ASSUME LimiterInv, NEW now \in Instants, now >= last_observation,
                      ~ Decision(now).admitted
               PROVE  LET d == Decision(now)
                      IN  /\ Decision(now + d.retry_after * TicksPerMs).admitted
                          /\ ~ Decision(now + (d.retry_after - 1) * TicksPerMs).admitted
    BY DEF RetryAfterIsExact
  <2>1. PICK i \in 1 .. Len(granted), k \in Nat :
          /\ i = Len(granted) - MaximumAdmissions + 1
          /\ k >= 1 /\ k = WindowTicks - (now - granted[i])
          /\ Decision(now).retry_after = RoundUpToMs(k)
    BY FullWindow
  <2>2. PICK r \in Nat : /\ r = Decision(now).retry_after /\ r >= 1
                         /\ r * TicksPerMs >= k /\ (r - 1) * TicksPerMs < k
    BY <2>1, RoundUpIsExact
  <2>3. PICK wait \in Nat, short \in Nat :
          /\ wait = r * TicksPerMs /\ short = (r - 1) * TicksPerMs
          /\ wait >= k /\ short < k
    <3>1. TicksPerMs \in Nat /\ r - 1 \in Nat
      BY <2>2, LimiterAssumption
    <3>2. \A a, b \in Nat : a * b \in Nat
      OBVIOUS
    <3>3. r * TicksPerMs \in Nat /\ (r - 1) * TicksPerMs \in Nat
      BY <3>1, <3>2
    <3> QED
      BY <2>2, <3>3
  <2>4. PICK h \in Int, w \in Int, t \in Int :
          /\ h = granted[i] /\ w = WindowTicks /\ t = now /\ k = w - (t - h)
          /\ t >= last_observation /\ last_observation \in Int
    BY <2>1, InstantsIn, WindowTicksPositive DEF LimiterInv, TypeOK, Instants
  <2>5. wait >= k /\ short < k
    BY <2>3
  <2>6. Decision(t + wait).admitted
    <3>1. t + wait \in Int /\ t + wait >= last_observation /\ (t + wait) - h >= w
      BY <2>4, <2>5
    <3> QED
      BY <2>1, <2>4, <3>1, RoomAgain
  <2>7. ~ Decision(t + short).admitted
    <3>1. t + short \in Int /\ t + short >= last_observation /\ ~ ((t + short) - h >= w)
      BY <2>4, <2>5
    <3> QED
      BY <2>1, <2>4, <3>1, RoomAgain
  <2> QED
    BY <2>2, <2>3, <2>4, <2>6, <2>7
<1>3. LimiterInv => DecisionIsExact
  BY <1>1, <1>2 DEF DecisionIsExact
<1> QED
  BY <1>3, InitHolds, StepHolds, PTL DEF Spec
=============================================================================

---------------------------- MODULE StudyProofs ----------------------------
(***************************************************************************)
(* What the gate for documents and the statistics promise, for every       *)
(* document whose fields are in their ranges, every seed of rotation and   *)
(* order, and every set of observations.                                   *)
(*                                                                         *)
(* A document the gate accepts compiles.  Trial o of a plan is at a place  *)
(* of its set that is a remainder, in a set that is a quotient of o - 1    *)
(* (TrialPlace).  A set holds the arms in an order that the repetition     *)
(* turns (SetHasEveryArm), so turning further pairs the trials that have   *)
(* an arm at one place with those that have it at another; repetitions     *)
(* that are a multiple of the arms make this a bijection (EquallyOften).   *)
(*                                                                         *)
(* A contrast that calls itself confirmatory used every planned episode    *)
(* (AllIsAnalysed), Holm's adjustment is the closed test (HolmIsClosed),   *)
(* a test that enumerates keeps its level because few relabelings are met  *)
(* or exceeded by few (FewAreExtreme), and so does one that draws, because *)
(* the observed labels and the draws may be exchanged (DrawsAreFair).      *)
(***************************************************************************)
EXTENDS Inference, FiniteSetTheorems, WellFoundedInduction, TLAPS

-----------------------------------------------------------------------------
(* Quotient and remainder                                                  *)

LEMMA GrowsWithFactor ==
  ASSUME NEW c \in Nat, NEW x \in Int, NEW y \in Int, x >= y
  PROVE  c * x >= c * y
  OBVIOUS

LEMMA Split ==
  ASSUME NEW n \in Nat \ {0}, NEW x \in Int
  PROVE  /\ x \div n \in Int /\ x % n \in 0..(n - 1)
         /\ x = n * (x \div n) + (x % n)
  OBVIOUS

LEMMA Unique ==
  ASSUME NEW n \in Nat \ {0}, NEW q \in Int, NEW r \in 0..(n - 1), NEW t \in Int,
         NEW u \in 0..(n - 1), n * q + r = n * t + u
  PROVE  q = t /\ r = u
<1>1. ~(q >= t + 1)
  <2> SUFFICES ASSUME q >= t + 1 PROVE FALSE
    OBVIOUS
  <2>1. n * q >= n * (t + 1)
    BY GrowsWithFactor
  <2> QED
    BY <2>1
<1>2. ~(t >= q + 1)
  <2> SUFFICES ASSUME t >= q + 1 PROVE FALSE
    OBVIOUS
  <2>1. n * t >= n * (q + 1)
    BY GrowsWithFactor
  <2> QED
    BY <2>1
<1> QED
  BY <1>1, <1>2

LEMMA Join ==
  ASSUME NEW n \in Nat \ {0}, NEW q \in Int, NEW r \in 0..(n - 1)
  PROVE  (n * q + r) \div n = q /\ (n * q + r) % n = r
<1>1. n * q + r \in Int
  OBVIOUS
<1> QED
  BY <1>1, Split, Unique

(* The n cells of m places are numbered without gap.                       *)
LEMMA Cells ==
  ASSUME NEW n \in Nat \ {0}, NEW m \in Nat
  PROVE  /\ \A x \in 0..(n * m - 1) : x \div n \in 0..(m - 1)
         /\ \A q \in 0..(m - 1), r \in 0..(n - 1) : n * q + r \in 0..(n * m - 1)
<1>1. ASSUME NEW x \in 0..(n * m - 1) PROVE x \div n \in 0..(m - 1)
  <2>1. PICK q \in Int, r \in 0..(n - 1) : q = x \div n /\ x = n * q + r
    BY Split
  <2>2. q >= m => n * q >= n * m
    BY GrowsWithFactor
  <2>3. q <= -1 => n * (-1) >= n * q
    BY GrowsWithFactor
  <2> QED
    BY <2>1, <2>2, <2>3
<1>2. ASSUME NEW q \in 0..(m - 1), NEW r \in 0..(n - 1) PROVE n * q + r \in 0..(n * m - 1)
  <2>1. n * m >= n * (q + 1)
    BY GrowsWithFactor
  <2>2. n * q >= n * 0
    BY GrowsWithFactor
  <2> QED
    BY <2>1, <2>2
<1> QED
  BY <1>1, <1>2

(* What is taken modulo a multiple of n first comes to the same modulo n.  *)
LEMMA ModuloMultiple ==
  ASSUME NEW n \in Nat \ {0}, NEW m \in Nat \ {0}, m % n = 0, NEW x \in Int, NEW y \in Int
  PROVE  ((x % m) + y) % n = (x + y) % n
<1>1. PICK k \in Int : m = n * k
  <2>1. m \div n \in Int /\ m = n * (m \div n) + (m % n)
    BY Split
  <2> QED
    BY <2>1
<1>2. PICK j \in Int, a \in Int : a = x % m /\ x = m * j + a
  <2>1. x \div m \in Int /\ x % m \in Int /\ x = m * (x \div m) + (x % m)
    BY Split
  <2> QED
    BY <2>1
<1>3. PICK q \in Int, r \in 0..(n - 1) : a + y = n * q + r /\ r = (a + y) % n
  <2>1. (a + y) \div n \in Int /\ (a + y) % n \in 0..(n - 1)
        /\ a + y = n * ((a + y) \div n) + ((a + y) % n)
    BY Split
  <2> QED
    BY <2>1
<1>4. PICK u \in Int, v \in Int : u = k * j /\ v = n * u
  OBVIOUS
<1>5. PICK t \in Int : t = u + q /\ n * t = v + n * q
  BY <1>4
<1>6. x + y = n * t + r
  <2>1. m * j = v
    BY <1>1, <1>4
  <2> QED
    BY <1>2, <1>3, <1>5, <2>1
<1>7. (n * t + r) % n = r
  BY Join
<1> QED
  BY <1>2, <1>3, <1>6, <1>7

-----------------------------------------------------------------------------
(* A seed, and where its trials come to stand                              *)

SetCount(s) == Blocks(s) * s.conditions * s.repeats
Seed(s, base, order) ==
  /\ s.arms \in Nat \ {0} /\ s.repeats \in Nat \ {0} /\ s.concurrency \in Nat \ {0}
  /\ s.conditions \in Nat \ {0} /\ Blocks(s) \in Nat \ {0}
  /\ base \in [Strata(s) -> 0..(s.arms - 1)]
  /\ order \in [1..SetCount(s) -> 1..SetCount(s)] /\ Len(order) = SetCount(s)
  /\ \A i, j \in 1..SetCount(s) : order[i] = order[j] => i = j
  /\ \A set \in 1..SetCount(s) : \E i \in 1..SetCount(s) : order[i] = set

Place(s, i, p) == s.arms * (i - 1) + p
ArmAt(s, base, set, p) == ((Rotation(s, base, set) + p - 1) % s.arms) + 1

LEMMA Positive ==
  ASSUME NEW x \in Nat \ {0}, NEW y \in Nat \ {0}
  PROVE  x * y \in Nat \ {0}
  BY GrowsWithFactor

LEMMA Counts ==
  ASSUME NEW s, NEW base, NEW order, Seed(s, base, order)
  PROVE  /\ Blocks(s) * s.conditions \in Nat \ {0} /\ SetCount(s) \in Nat \ {0}
         /\ SetCount(s) = s.repeats * (Blocks(s) * s.conditions)
<1>1. Blocks(s) * s.conditions \in Nat \ {0}
  BY Positive DEF Seed
<1>2. PICK g \in Nat \ {0} : g = Blocks(s) * s.conditions
  BY <1>1
<1>3. s.repeats * g \in Nat \ {0} /\ g * s.repeats = s.repeats * g
  BY Positive DEF Seed
<1> QED
  BY <1>1, <1>2, <1>3 DEF SetCount

(* A set is a repetition of a stratum.                                     *)
LEMMA SetCell ==
  ASSUME NEW s, NEW base, NEW order, Seed(s, base, order)
  PROVE  /\ \A set \in 1..SetCount(s) :
              /\ StratumOf(s, set) \in Strata(s) /\ Repetition(s, set) \in 1..s.repeats
              /\ set = s.repeats * (StratumOf(s, set) - 1) + Repetition(s, set)
         /\ \A g \in Strata(s), r \in 1..s.repeats :
              LET set == s.repeats * (g - 1) + r
              IN  set \in 1..SetCount(s) /\ StratumOf(s, set) = g /\ Repetition(s, set) = r
<1>0. PICK G \in Nat \ {0}, R \in Nat \ {0} :
        G = Blocks(s) * s.conditions /\ R = s.repeats /\ SetCount(s) = R * G
  BY Counts DEF Seed
<1>1. ASSUME NEW set \in 1..SetCount(s)
      PROVE  /\ StratumOf(s, set) \in Strata(s) /\ Repetition(s, set) \in 1..s.repeats
             /\ set = s.repeats * (StratumOf(s, set) - 1) + Repetition(s, set)
  <2>1. set - 1 \in 0..(R * G - 1)
    BY <1>0
  <2>2. (set - 1) \div R \in 0..(G - 1)
    BY <2>1, Cells
  <2>3. (set - 1) % R \in 0..(R - 1) /\ set - 1 = R * ((set - 1) \div R) + ((set - 1) % R)
    BY Split
  <2>4. PICK q \in 0..(G - 1), r \in 0..(R - 1) :
          q = (set - 1) \div R /\ r = (set - 1) % R /\ set - 1 = R * q + r
    BY <2>2, <2>3
  <2>5. StratumOf(s, set) = q + 1 /\ Repetition(s, set) = r + 1
    BY <1>0, <2>4 DEF StratumOf, Repetition
  <2>6. q + 1 \in Strata(s) /\ r + 1 \in 1..s.repeats
    BY <1>0 DEF Strata
  <2>7. (q + 1) - 1 = q /\ set = R * q + (r + 1)
    BY <2>4
  <2>8. set = s.repeats * ((q + 1) - 1) + (r + 1)
    BY <1>0, <2>7
  <2> QED
    BY <2>5, <2>6, <2>8
<1>2. ASSUME NEW g \in Strata(s), NEW r \in 1..s.repeats
      PROVE  LET set == s.repeats * (g - 1) + r
             IN  set \in 1..SetCount(s) /\ StratumOf(s, set) = g /\ Repetition(s, set) = r
  <2>1. PICK q \in 0..(G - 1), t \in 0..(R - 1) : q = g - 1 /\ t = r - 1
    BY <1>0 DEF Strata
  <2>2. PICK x \in 0..(R * G - 1) : x = R * q + t
    BY Cells
  <2>3. x \div R = q /\ x % R = t
    BY <2>2, Join
  <2>4. s.repeats * (g - 1) + r = x + 1 /\ (x + 1) - 1 = x
    BY <1>0, <2>1, <2>2
  <2>5. x + 1 \in 1..SetCount(s)
    BY <1>0
  <2>6. StratumOf(s, x + 1) = q + 1 /\ Repetition(s, x + 1) = t + 1
    BY <1>0, <2>3, <2>4 DEF StratumOf, Repetition
  <2>7. q + 1 = g /\ t + 1 = r
    BY <2>1 DEF Strata
  <2> QED
    BY <2>4, <2>5, <2>6, <2>7
<1> QED
  BY <1>1, <1>2

(* A trial is a position of a set.                                         *)
Placement(s, base, order, P) ==
  /\ \A o \in DOMAIN P : \E i \in 1..SetCount(s), p \in 1..s.arms : o = Place(s, i, p)
  /\ \A i \in 1..SetCount(s), p \in 1..s.arms :
       LET o == Place(s, i, p)
       IN  /\ o \in DOMAIN P
           /\ P[o].set = order[i] /\ P[o].position = p
           /\ P[o].arm = ArmAt(s, base, order[i], p)
           /\ P[o].block = IF s.design = "block"
                           THEN ((StratumOf(s, order[i]) - 1) \div s.conditions) + 1 ELSE 0

LEMMA TrialPlace ==
  ASSUME NEW s, NEW base, NEW order, Seed(s, base, order), NEW P, P = Trials(s, base, order)
  PROVE  Placement(s, base, order, P)
<1>0. PICK N \in Nat \ {0}, A \in Nat \ {0} : N = SetCount(s) /\ A = s.arms
  BY Counts DEF Seed
<1>1. DOMAIN P = 1..(A * N)
  <2>1. N * A = A * N
    OBVIOUS
  <2> QED
    BY <1>0, <2>1 DEF Trials, Seed
<1>2. ASSUME NEW o \in DOMAIN P
      PROVE  \E i \in 1..SetCount(s), p \in 1..s.arms : o = Place(s, i, p)
  <2>1. PICK x \in 0..(A * N - 1) : o = x + 1
    <3>1. o - 1 \in 0..(A * N - 1) /\ o = (o - 1) + 1
      BY <1>1
    <3> QED
      BY <3>1
  <2>2. PICK q \in 0..(N - 1), r \in 0..(A - 1) : x = A * q + r
    <3>1. x \div A \in 0..(N - 1)
      BY Cells
    <3>2. x % A \in 0..(A - 1) /\ x = A * (x \div A) + (x % A)
      BY Split
    <3> QED
      BY <3>1, <3>2
  <2>3. (q + 1) - 1 = q /\ o = A * q + (r + 1) /\ q + 1 \in 1..N /\ r + 1 \in 1..A
    BY <2>1, <2>2
  <2> QED
    BY <1>0, <2>3 DEF Place
<1>3. ASSUME NEW i \in 1..SetCount(s), NEW p \in 1..s.arms, NEW o, o = Place(s, i, p)
      PROVE  /\ o \in DOMAIN P
             /\ P[o].set = order[i] /\ P[o].position = p
             /\ P[o].arm = ArmAt(s, base, order[i], p)
             /\ P[o].block = IF s.design = "block"
                             THEN ((StratumOf(s, order[i]) - 1) \div s.conditions) + 1 ELSE 0
  <2>1. PICK q \in 0..(N - 1), r \in 0..(A - 1) : q = i - 1 /\ r = p - 1
    BY <1>0
  <2>2. PICK x \in 0..(A * N - 1) : x = A * q + r
    BY Cells
  <2>3. x \div A = q /\ x % A = r
    BY <2>2, Join
  <2>4. o = x + 1 /\ o - 1 = x /\ q + 1 = i /\ r + 1 = p
    BY <1>0, <1>3, <2>1, <2>2 DEF Place
  <2>5. o \in DOMAIN P
    BY <1>1, <2>2, <2>4
  <2>6. order[((o - 1) \div s.arms) + 1] = order[i] /\ ((o - 1) % s.arms) + 1 = p
    BY <1>0, <2>3, <2>4
  <2> QED
    BY <2>5, <2>6 DEF Trials, ArmAt
<1> QED
  BY <1>2, <1>3 DEF Placement
-----------------------------------------------------------------------------
(* Complete sets                                                           *)

LEMMA Modulo ==
  ASSUME NEW n \in Nat \ {0}, NEW x \in Int, NEW y \in Int
  PROVE  ((x % n) + y) % n = (x + y) % n
<1>1. n % n = 0
  <2>1. n * 1 + 0 = n /\ 0 \in 0..(n - 1)
    OBVIOUS
  <2>2. (n * 1 + 0) % n = 0
    BY Join
  <2> QED
    BY <2>1, <2>2
<1> QED
  BY <1>1, ModuloMultiple

LEMMA Small ==
  ASSUME NEW n \in Nat \ {0}, NEW x \in 0..(n - 1)
  PROVE  x % n = x
<1>1. (n * 0 + x) % n = x /\ n * 0 + x = x
  BY Join
<1> QED
  BY <1>1

LEMMA ArmsOfPositions ==
  ASSUME NEW s, NEW base, NEW order, Seed(s, base, order), NEW set \in 1..SetCount(s)
  PROVE  /\ Rotation(s, base, set) \in Int
         /\ \A p \in 1..s.arms : ArmAt(s, base, set, p) \in 1..s.arms
         /\ \A a \in 1..s.arms : \E p \in 1..s.arms : ArmAt(s, base, set, p) = a
<1>0. PICK n \in Nat \ {0} : n = s.arms
  BY DEF Seed
<1>1. PICK r \in Int : r = Rotation(s, base, set)
  <2>1. StratumOf(s, set) \in Strata(s) /\ Repetition(s, set) \in Int
    BY <1>0, SetCell
  <2>2. base[StratumOf(s, set)] \in Int
    BY <1>0, <2>1 DEF Seed
  <2> QED
    BY <2>1, <2>2 DEF Rotation
<1>2. ASSUME NEW p \in 1..s.arms PROVE ArmAt(s, base, set, p) \in 1..s.arms
  <2>1. PICK x \in Int : x = r + p - 1
    BY <1>0
  <2>2. x % n \in 0..(n - 1)
    BY Split
  <2> QED
    BY <1>0, <1>1, <2>1, <2>2 DEF ArmAt
<1>3. ASSUME NEW a \in 1..s.arms PROVE \E p \in 1..s.arms : ArmAt(s, base, set, p) = a
  <2>1. PICK x \in Int : x = a - 1 - r
    BY <1>0
  <2>2. PICK q \in 0..(n - 1) : q = x % n
    BY Split
  <2>3. (q + r) % n = (x + r) % n
    BY <2>2, Modulo
  <2>4. x + r = a - 1 /\ a - 1 \in 0..(n - 1)
    BY <1>0, <2>1
  <2>5. (q + r) % n = a - 1
    BY <2>3, <2>4, Small
  <2>6. r + (q + 1) - 1 = q + r /\ q + 1 \in 1..n
    OBVIOUS
  <2>7. ArmAt(s, base, set, q + 1) = a
    BY <1>0, <1>1, <2>5, <2>6 DEF ArmAt
  <2> QED
    BY <1>0, <2>6, <2>7
<1> QED
  BY <1>1, <1>2, <1>3

LEMMA EveryArm ==
  ASSUME NEW s, NEW base, NEW order, Seed(s, base, order), NEW P, P = Trials(s, base, order)
  PROVE  {P[o].arm : o \in DOMAIN P} = 1..s.arms
<1>0. Placement(s, base, order, P)
  BY TrialPlace
<1>1. ASSUME NEW o \in DOMAIN P PROVE P[o].arm \in 1..s.arms
  <2>1. PICK i \in 1..SetCount(s), p \in 1..s.arms : o = Place(s, i, p)
    BY <1>0 DEF Placement
  <2>2. P[o].arm = ArmAt(s, base, order[i], p)
    BY <1>0, <2>1 DEF Placement
  <2>3. order[i] \in 1..SetCount(s)
    BY DEF Seed
  <2> QED
    BY <2>2, <2>3, ArmsOfPositions
<1>2. ASSUME NEW a \in 1..s.arms PROVE \E o \in DOMAIN P : P[o].arm = a
  <2>1. 1 \in 1..SetCount(s)
    BY Counts
  <2>2. PICK set \in 1..SetCount(s) : set = order[1]
    BY <2>1 DEF Seed
  <2>3. PICK p \in 1..s.arms : ArmAt(s, base, set, p) = a
    BY ArmsOfPositions
  <2> QED
    BY <1>0, <2>1, <2>2, <2>3 DEF Placement
<1> QED
  BY <1>1, <1>2

(* A set has one trial at each position, and so one of each arm.           *)
OfSet(P, set) == {o \in DOMAIN P : P[o].set = set}

LEMMA SetHasEveryArm ==
  ASSUME NEW s, NEW base, NEW order, Seed(s, base, order), NEW P, P = Trials(s, base, order),
         NEW o \in DOMAIN P
  PROVE  /\ Cardinality(OfSet(P, P[o].set)) = s.arms
         /\ {P[j].arm : j \in OfSet(P, P[o].set)} = 1..s.arms
<1> DEFINE S == OfSet(P, P[o].set)
<1>0. PICK n \in Nat \ {0} : n = s.arms
  BY DEF Seed
<1> Placement(s, base, order, P)
  BY TrialPlace
<1>1. PICK i \in 1..SetCount(s) : P[o].set = order[i]
  BY DEF Placement
<1>2. S = {Place(s, i, p) : p \in 1..n}
  <2>1. ASSUME NEW j \in S PROVE \E p \in 1..n : j = Place(s, i, p)
    <3>1. PICK k \in 1..SetCount(s), p \in 1..n : j = Place(s, k, p)
      BY <1>0 DEF Placement, OfSet
    <3>2. order[k] = order[i]
      BY <1>0, <1>1, <3>1 DEF Placement, OfSet
    <3>3. k = i
      BY <3>2 DEF Seed
    <3> QED
      BY <3>1, <3>3
  <2>2. \A p \in 1..n : Place(s, i, p) \in S
    BY <1>0, <1>1 DEF Placement, OfSet
  <2> QED
    BY <2>1, <2>2
<1>3. Cardinality(S) = n
  <2> DEFINE f == [p \in 1..n |-> Place(s, i, p)]
  <2>1. \A p, q \in 1..n : Place(s, i, p) = Place(s, i, q) => p = q
    <3>1. PICK b \in Int : b = s.arms * (i - 1)
      BY <1>0, Counts
    <3> QED
      BY <3>1 DEF Place
  <2>2. f \in Bijection(1..n, S)
    BY <1>2, <2>1 DEF Bijection, Injection, Surjection, IsInjective
  <2>3. ExistsBijection(1..n, S)
    BY <2>2 DEF ExistsBijection
  <2>4. IsFiniteSet(1..n) /\ Cardinality(1..n) = n
    BY FS_Interval
  <2> HIDE DEF S
  <2> QED
    BY <2>3, <2>4, FS_Bijection
<1>4. {P[j].arm : j \in S} = 1..s.arms
  <2>1. PICK set \in 1..SetCount(s) : set = order[i]
    BY DEF Seed
  <2>2. \A p \in 1..n : P[Place(s, i, p)].arm = ArmAt(s, base, set, p)
    BY <1>0, <2>1 DEF Placement
  <2>3. \A p \in 1..n : ArmAt(s, base, set, p) \in 1..n
    BY <1>0, ArmsOfPositions
  <2>4. \A a \in 1..n : \E p \in 1..n : ArmAt(s, base, set, p) = a
    BY <1>0, ArmsOfPositions
  <2> QED
    BY <1>0, <1>2, <2>2, <2>3, <2>4
<1> QED
  BY <1>0, <1>3, <1>4

-----------------------------------------------------------------------------
(* Balanced positions                                                      *)

TrialsAt(P, a, p) == {o \in DOMAIN P : P[o].arm = a /\ P[o].position = p}

(* When the arm at a position moves to another one: the repetition before  *)
(* or after by the distance, in the same stratum.                          *)
Shifted(s, r, d) == ((r - 1 + d) % s.repeats) + 1

LEMMA ShiftKeepsArm ==
  ASSUME NEW s, NEW base, NEW order, Seed(s, base, order), s.repeats % s.arms = 0,
         NEW g \in Strata(s), NEW r \in 1..s.repeats, NEW p \in 1..s.arms, NEW q \in 1..s.arms
  PROVE  /\ Shifted(s, r, p - q) \in 1..s.repeats
         /\ Shifted(s, Shifted(s, r, p - q), q - p) = r
         /\ (base[g] + Shifted(s, r, p - q) - 1 + q - 1) % s.arms
              = (base[g] + r - 1 + p - 1) % s.arms
<1>0. PICK n \in Nat \ {0}, R \in Nat \ {0}, b \in Int :
        n = s.arms /\ R = s.repeats /\ b = base[g]
  BY DEF Seed
<1>1. PICK x \in Int : x = r - 1 + (p - q)
  BY <1>0
<1>2. PICK t \in 0..(R - 1) : t = x % R
  BY Split
<1>3. Shifted(s, r, p - q) = t + 1
  BY <1>0, <1>1, <1>2 DEF Shifted
<1>4. (t + (q - p)) % R = r - 1
  <2>1. ((x % R) + (q - p)) % R = (x + (q - p)) % R
    <3>1. PICK y \in Int : y = q - p
      BY <1>0
    <3> QED
      BY <3>1, Modulo
  <2>2. x + (q - p) = r - 1 /\ r - 1 \in 0..(R - 1)
    BY <1>0, <1>1
  <2> QED
    BY <1>2, <2>1, <2>2, Small
<1>5. (t + (b + q - 1)) % n = (x + (b + q - 1)) % n
  <2>1. PICK y \in Int : y = b + q - 1
    BY <1>0
  <2>2. R % n = 0
    BY <1>0
  <2>3. ((x % R) + y) % n = (x + y) % n
    BY <2>2, ModuloMultiple
  <2> QED
    BY <1>2, <2>1, <2>3
<1>6. x + (b + q - 1) = b + r - 1 + p - 1 /\ t + (b + q - 1) = b + (t + 1) - 1 + q - 1
  BY <1>0, <1>1
<1>7. (b + (t + 1) - 1 + q - 1) % n = (b + r - 1 + p - 1) % n
  BY <1>5, <1>6
<1>8. Shifted(s, t + 1, q - p) = r
  <2>1. (t + 1) - 1 + (q - p) = t + (q - p)
    BY <1>0
  <2> QED
    BY <1>0, <1>4, <2>1 DEF Shifted
<1> QED
  BY <1>0, <1>3, <1>7, <1>8

LEMMA TrialsAreFinite ==
  ASSUME NEW s, NEW base, NEW order, Seed(s, base, order), NEW P, P = Trials(s, base, order),
         NEW a, NEW p
  PROVE  IsFiniteSet(TrialsAt(P, a, p))
<1>1. DOMAIN P = 1..(SetCount(s) * s.arms) /\ SetCount(s) * s.arms \in Int
  BY Counts DEF Trials, Seed
<1>2. IsFiniteSet(DOMAIN P)
  BY <1>1, FS_Interval
<1> QED
  BY <1>2, FS_Subset DEF TrialsAt

(* The trial of an arm at another position that a trial is matched with.   *)
Matched(s, P, o, o2, p, q) ==
  /\ StratumOf(s, P[o2].set) = StratumOf(s, P[o].set)
  /\ Repetition(s, P[o2].set) = Shifted(s, Repetition(s, P[o].set), p - q)

LEMMA EachHasItsMatch ==
  ASSUME NEW s, NEW base, NEW order, Seed(s, base, order), NEW P, P = Trials(s, base, order),
         s.repeats % s.arms = 0,
         NEW a \in 1..s.arms, NEW p \in 1..s.arms, NEW q \in 1..s.arms,
         NEW o \in TrialsAt(P, a, p)
  PROVE  \E o2 \in TrialsAt(P, a, q) : Matched(s, P, o, o2, p, q)
<1> Placement(s, base, order, P)
  BY TrialPlace
<1>1. PICK i \in 1..SetCount(s) : o = Place(s, i, p)
  <2>1. PICK i \in 1..SetCount(s), r \in 1..s.arms : o = Place(s, i, r)
    BY DEF Placement, TrialsAt
  <2>2. r = p
    BY <2>1 DEF Placement, TrialsAt
  <2> QED
    BY <2>1, <2>2
<1>2. PICK set \in 1..SetCount(s) : set = order[i] /\ P[o].set = set
  <2>1. order[i] \in 1..SetCount(s)
    BY DEF Seed
  <2>2. P[o].set = order[i]
    BY <1>1 DEF Placement, TrialsAt
  <2> QED
    BY <2>1, <2>2
<1>3. PICK g \in Strata(s), r \in 1..s.repeats :
        g = StratumOf(s, set) /\ r = Repetition(s, set)
  BY SetCell
<1>4. PICK u \in 1..s.repeats : u = Shifted(s, r, p - q)
  BY ShiftKeepsArm
<1>5. PICK set2 \in 1..SetCount(s) : StratumOf(s, set2) = g /\ Repetition(s, set2) = u
  BY SetCell
<1>6. PICK j \in 1..SetCount(s) : order[j] = set2
  BY DEF Seed
<1>7. ArmAt(s, base, set2, q) = ArmAt(s, base, set, p)
  <2>1. (base[g] + u - 1 + q - 1) % s.arms = (base[g] + r - 1 + p - 1) % s.arms
    BY <1>4, ShiftKeepsArm
  <2> QED
    BY <1>3, <1>5, <2>1 DEF ArmAt, Rotation
<1>8. /\ Place(s, j, q) \in DOMAIN P /\ P[Place(s, j, q)].set = set2
      /\ P[Place(s, j, q)].position = q /\ P[Place(s, j, q)].arm = ArmAt(s, base, set2, q)
  BY <1>6 DEF Placement
<1>9. ArmAt(s, base, set, p) = a
  BY <1>1, <1>2 DEF Placement, TrialsAt
<1> QED
  BY <1>2, <1>3, <1>4, <1>5, <1>7, <1>8, <1>9 DEF TrialsAt, Matched

LEMMA NoTwoHaveOneMatch ==
  ASSUME NEW s, NEW base, NEW order, Seed(s, base, order), NEW P, P = Trials(s, base, order),
         s.repeats % s.arms = 0,
         NEW a \in 1..s.arms, NEW p \in 1..s.arms, NEW q \in 1..s.arms,
         NEW o1 \in TrialsAt(P, a, p), NEW o2 \in TrialsAt(P, a, p), NEW o,
         Matched(s, P, o1, o, p, q), Matched(s, P, o2, o, p, q)
  PROVE  o1 = o2
<1> Placement(s, base, order, P)
  BY TrialPlace
<1>1. ASSUME NEW x \in TrialsAt(P, a, p)
      PROVE  \E i \in 1..SetCount(s) :
               x = Place(s, i, p) /\ P[x].set = order[i] /\ order[i] \in 1..SetCount(s)
  <2>1. PICK i \in 1..SetCount(s), r \in 1..s.arms : x = Place(s, i, r)
    BY DEF Placement, TrialsAt
  <2>2. r = p /\ P[x].set = order[i]
    BY <2>1 DEF Placement, TrialsAt
  <2>3. order[i] \in 1..SetCount(s)
    BY DEF Seed
  <2> QED
    BY <2>1, <2>2, <2>3
<1>2. PICK i \in 1..SetCount(s), j \in 1..SetCount(s),
           x \in 1..SetCount(s), y \in 1..SetCount(s) :
        /\ o1 = Place(s, i, p) /\ P[o1].set = x /\ x = order[i]
        /\ o2 = Place(s, j, p) /\ P[o2].set = y /\ y = order[j]
  BY <1>1
<1>3. StratumOf(s, x) = StratumOf(s, y)
  BY <1>2 DEF Matched
<1>4. Repetition(s, x) = Repetition(s, y)
  <2>1. PICK g \in Strata(s), r \in 1..s.repeats, t \in 1..s.repeats :
          g = StratumOf(s, x) /\ r = Repetition(s, x) /\ t = Repetition(s, y)
    BY SetCell
  <2>2. Shifted(s, r, p - q) = Shifted(s, t, p - q)
    BY <1>2, <2>1 DEF Matched
  <2>3. Shifted(s, Shifted(s, r, p - q), q - p) = r
    BY ShiftKeepsArm
  <2>4. Shifted(s, Shifted(s, t, p - q), q - p) = t
    BY ShiftKeepsArm
  <2> QED
    BY <2>1, <2>2, <2>3, <2>4
<1>5. x = y
  <2>1. /\ x = s.repeats * (StratumOf(s, x) - 1) + Repetition(s, x)
        /\ y = s.repeats * (StratumOf(s, y) - 1) + Repetition(s, y)
    BY SetCell
  <2> QED
    BY <1>3, <1>4, <2>1
<1>6. i = j
  <2>1. order[i] = order[j]
    BY <1>2, <1>5
  <2> QED
    BY <2>1 DEF Seed
<1> QED
  BY <1>2, <1>6

LEMMA AtMostAsOften ==
  ASSUME NEW s, NEW base, NEW order, Seed(s, base, order), NEW P, P = Trials(s, base, order),
         s.repeats % s.arms = 0,
         NEW a \in 1..s.arms, NEW p \in 1..s.arms, NEW q \in 1..s.arms
  PROVE  Cardinality(TrialsAt(P, a, p)) <= Cardinality(TrialsAt(P, a, q))
<1> DEFINE S == TrialsAt(P, a, p)
           T == TrialsAt(P, a, q)
           f == [o \in S |-> CHOOSE o2 \in T : Matched(s, P, o, o2, p, q)]
<1>1. \A o \in S : f[o] \in T /\ Matched(s, P, o, f[o], p, q)
  BY EachHasItsMatch
<1>2. ASSUME NEW o1 \in S, NEW o2 \in S, f[o1] = f[o2] PROVE o1 = o2
  <2>1. PICK o : o = f[o1]
    OBVIOUS
  <2>2. Matched(s, P, o1, o, p, q) /\ Matched(s, P, o2, o, p, q)
    BY <1>1, <1>2, <2>1
  <2> QED
    BY <2>2, NoTwoHaveOneMatch
<1>3. f \in Injection(S, T)
  BY <1>1, <1>2 DEF Injection, IsInjective
<1>4. IsFiniteSet(T)
  BY TrialsAreFinite
<1> HIDE DEF S, T, f
<1>5. Cardinality(S) <= Cardinality(T)
  BY <1>3, <1>4, FS_Injection
<1> QED
  BY <1>5 DEF S, T

(* Every arm comes to every position, and to each equally often.           *)
LEMMA EquallyOften ==
  ASSUME NEW s, NEW base, NEW order, Seed(s, base, order), NEW P, P = Trials(s, base, order),
         s.repeats % s.arms = 0,
         NEW a \in 1..s.arms, NEW p \in 1..s.arms, NEW q \in 1..s.arms
  PROVE  /\ Cardinality(TrialsAt(P, a, p)) = Cardinality(TrialsAt(P, a, q))
         /\ Cardinality(TrialsAt(P, a, p)) > 0
<1>1. /\ Cardinality(TrialsAt(P, a, p)) \in Nat /\ Cardinality(TrialsAt(P, a, q)) \in Nat
      /\ IsFiniteSet(TrialsAt(P, a, p))
  BY TrialsAreFinite, FS_CardinalityType
<1>2. Cardinality(TrialsAt(P, a, p)) = Cardinality(TrialsAt(P, a, q))
  <2>1. Cardinality(TrialsAt(P, a, p)) <= Cardinality(TrialsAt(P, a, q))
    BY AtMostAsOften
  <2>2. Cardinality(TrialsAt(P, a, q)) <= Cardinality(TrialsAt(P, a, p))
    BY AtMostAsOften
  <2> QED
    BY <1>1, <2>1, <2>2
<1>3. TrialsAt(P, a, p) # {}
  <2>1. PICK o \in DOMAIN P : P[o].arm = a
    BY EveryArm
  <2> Placement(s, base, order, P)
    BY TrialPlace
  <2>2. PICK i \in 1..SetCount(s), r \in 1..s.arms : o = Place(s, i, r)
    BY DEF Placement
  <2>3. P[o].position = r
    BY <2>2 DEF Placement
  <2>4. o \in TrialsAt(P, a, r)
    BY <2>1, <2>3 DEF TrialsAt
  <2>5. \E o2 \in TrialsAt(P, a, p) : Matched(s, P, o, o2, r, p)
    BY <2>4, EachHasItsMatch
  <2> QED
    BY <2>5
<1>4. Cardinality(TrialsAt(P, a, p)) # 0
  BY <1>1, <1>3, FS_EmptySet
<1> QED
  BY <1>1, <1>2, <1>4

-----------------------------------------------------------------------------
(* Every accepted document, for every seed                                 *)

LEMMA EveryOrderIsASeed ==
  ASSUME NEW s \in Drafts, Accepts(s), s.conditions # 0,
         NEW base \in [Strata(s) -> 0..(s.arms - 1)], NEW order \in Orders(s)
  PROVE  Seed(s, base, order)
<1>1. /\ s.arms \in Nat \ {0} /\ s.repeats \in Nat \ {0} /\ s.concurrency \in Nat \ {0}
      /\ s.conditions \in Nat \ {0} /\ Blocks(s) \in Nat \ {0}
  BY DraftsAssumption DEF Accepts, AcceptsUnbalanced, Blocks
<1>2. PICK n \in Nat \ {0} : n = SetCount(s)
  <2>1. PICK g \in Nat \ {0} : g = Blocks(s) * s.conditions
    BY <1>1, Positive
  <2>2. g * s.repeats \in Nat \ {0}
    BY <1>1, Positive
  <2> QED
    BY <2>1, <2>2 DEF SetCount
<1>3. SetsOf(s) = 1..n /\ IsFiniteSet(1..n) /\ Cardinality(1..n) = n
  BY <1>2, FS_Interval DEF SetsOf, SetCount
<1>4. InOrder(s) \in [1..n -> 1..n] /\ Len(InOrder(s)) = n /\ \A i \in 1..n : InOrder(s)[i] = i
  BY <1>3 DEF InOrder
<1>5. CASE order \in SetToSeqs(SetsOf(s))
  <2>1. order \in [1..n -> 1..n] /\ \A i, j \in 1..n : order[i] = order[j] => i = j
    BY <1>3, <1>5 DEF SetToSeqs
  <2>2. order \in Injection(1..n, 1..n)
    BY <2>1 DEF Injection, IsInjective
  <2>3. order \in Surjection(1..n, 1..n)
    BY <1>3, <2>2, FS_Injection
  <2>4. \A set \in 1..n : \E i \in 1..n : order[i] = set
    BY <2>3 DEF Surjection
  <2>5. Len(order) = n
    BY <2>1
  <2> QED
    BY <1>1, <1>2, <2>1, <2>4, <2>5 DEF Seed
<1>6. CASE order = InOrder(s)
  BY <1>1, <1>2, <1>4, <1>6 DEF Seed
<1>7. CASE order = Reverse(InOrder(s))
  <2>1. order = [i \in 1..n |-> InOrder(s)[(n - i) + 1]]
    BY <1>4, <1>7 DEF Reverse
  <2>2. order = [i \in 1..n |-> (n - i) + 1]
    BY <1>4, <2>1
  <2>3. order \in [1..n -> 1..n] /\ Len(order) = n
    BY <2>2
  <2>4. \A i, j \in 1..n : order[i] = order[j] => i = j
    BY <2>2
  <2>5. \A set \in 1..n : order[(n - set) + 1] = set /\ (n - set) + 1 \in 1..n
    BY <2>2
  <2> QED
    BY <1>1, <1>2, <2>3, <2>4, <2>5 DEF Seed
<1> QED
  BY <1>5, <1>6, <1>7 DEF Orders

(* Compile's next plan passes the diagnostics of the design and the plan's *)
(* own checks.                                                             *)
LEMMA CompiledPlanPasses ==
  ASSUME NEW base \in [Strata(study) -> 0..(study.arms - 1)], NEW order \in Orders(study),
         study \in Drafts, study.conditions # 0, Accepts(study), Compile(base, order)
  PROVE  PlanIsAccepted' /\ SetsComplete' /\ (Confirmatory => DesignIsValid')
<1>1. PICK s \in Drafts : s = study
  OBVIOUS
<1>2. PICK P : P = Trials(s, base, order)
  OBVIOUS
<1>3. plan' = P /\ study' = s
  BY <1>1, <1>2 DEF Compile
<1>4. Seed(s, base, order) /\ Accepts(s)
  BY <1>1, EveryOrderIsASeed
<1>5. PICK n \in Nat \ {0} : n = s.arms
  BY <1>4 DEF Seed
<1>6. Arms' = 1..n /\ Cardinality(1..n) = n
  <2>1. {P[o].arm : o \in DOMAIN P} = 1..s.arms
    BY <1>2, <1>4, EveryArm
  <2> QED
    BY <1>3, <1>5, <2>1, FS_Interval DEF Arms, Ordinals
<1>7. SetsComplete'
  <2>1. ASSUME NEW o \in DOMAIN P
        PROVE  /\ Cardinality(OfSet(P, P[o].set)) = n
               /\ {P[j].arm : j \in OfSet(P, P[o].set)} = 1..n
    BY <1>2, <1>4, <1>5, SetHasEveryArm
  <2>2. \A set : InSet(set)' = OfSet(P, set)
    BY <1>3 DEF InSet, OfSet, Ordinals
  <2>3. \A o \in DOMAIN P :
          /\ Cardinality(InSet(P[o].set)') = Cardinality(Arms')
          /\ {P[j].arm : j \in InSet(P[o].set)'} = Arms'
    BY <1>6, <2>1, <2>2
  <2> QED
    BY <1>3, <2>3 DEF SetsComplete, Ordinals
<1>8. \A c \in s.contrasts : c[1] \in 1..n /\ c[2] \in 1..n
  BY <1>4, <1>5 DEF Accepts, AcceptsUnbalanced
<1>9. ASSUME Confirmatory
      PROVE  /\ Declared(s) /\ PositionsBalanced'
             /\ s.design = "block" => \A o \in DOMAIN P : P[o].block # 0
  <2>1. Declared(s) /\ s.repeats % s.arms = 0
    BY <1>1, <1>4, <1>9 DEF Confirmatory, Accepts, AcceptsUnbalanced, Declared
  <2> Placement(s, base, order, P)
    BY <1>2, <1>4, TrialPlace
  <2>2. \A o \in DOMAIN P : P[o].position \in 1..n
    BY <1>5 DEF Placement
  <2>3. \A a, i, j \in 1..n :
          /\ Cardinality(TrialsAt(P, a, i)) = Cardinality(TrialsAt(P, a, j))
          /\ Cardinality(TrialsAt(P, a, i)) > 0
    BY <1>2, <1>4, <1>5, <2>1, EquallyOften
  <2>4. \A a, i : Times(a, i)' = Cardinality(TrialsAt(P, a, i))
    BY <1>3 DEF Times, TrialsAt, Ordinals
  <2>5. PositionsBalanced'
    BY <1>3, <1>6, <2>2, <2>3, <2>4 DEF PositionsBalanced, Ordinals
  <2>6. ASSUME s.design = "block", NEW o \in DOMAIN P PROVE P[o].block # 0
    <3>1. PICK i \in 1..SetCount(s), p \in 1..s.arms : o = Place(s, i, p)
      BY DEF Placement
    <3>2. order[i] \in 1..SetCount(s)
      BY <1>4 DEF Seed
    <3>3. StratumOf(s, order[i]) \in Strata(s)
      BY <1>4, <3>2, SetCell
    <3>4. PICK k \in Nat, c \in Nat \ {0} : k = StratumOf(s, order[i]) - 1 /\ c = s.conditions
      <4>1. StratumOf(s, order[i]) - 1 \in Nat
        BY <1>4, <3>3, Counts DEF Strata
      <4>2. s.conditions \in Nat \ {0}
        BY <1>4 DEF Seed
      <4> QED
        BY <4>1, <4>2
    <3>5. k \div c >= 0 /\ k \div c \in Int
      OBVIOUS
    <3>6. P[o].block = (k \div c) + 1
      BY <2>6, <3>1, <3>4 DEF Placement
    <3> QED
      BY <3>5, <3>6
  <2> QED
    BY <2>1, <2>5, <2>6
<1>10. PlanIsAccepted'
  BY <1>1, <1>3, <1>6, <1>7, <1>8, <1>9 DEF PlanIsAccepted, Confirmatory, Ordinals
<1> QED
  BY <1>3, <1>7, <1>9, <1>10 DEF DesignIsValid

StudyInv ==
  /\ study \in Drafts
  /\ stage = "accepted" => Accepts(study)
  /\ stage # "refused"

LEMMA StepStudy == StudyInv /\ [Next]_vars => StudyInv'
<1> SUFFICES ASSUME StudyInv, [Next]_vars PROVE StudyInv'
  OBVIOUS
<1>1. CASE UNCHANGED vars
  BY <1>1 DEF vars, StudyInv
<1>2. CASE Load \/ NoConditions
  BY <1>2 DEF Load, NoConditions, StudyInv
<1>3. CASE Seeded
  <2>1. PICK base \in [Strata(study) -> 0..(study.arms - 1)], order \in Orders(study) :
          Compile(base, order) /\ study.conditions # 0
    BY <1>3 DEF Seeded
  <2>2. PlanIsAccepted' /\ (Confirmatory => DesignIsValid')
    BY <2>1, CompiledPlanPasses DEF StudyInv, Compile
  <2>3. stage' = "compiled" /\ UNCHANGED study
    BY <2>1, <2>2 DEF Compile
  <2> QED
    BY <2>3 DEF StudyInv
<1>4. CASE Observe \/ Analyse
  BY <1>4 DEF Observe, Analyse, StudyInv
<1> QED
  BY <1>1, <1>2, <1>3, <1>4 DEF Next, Design

LEMMA StudyInvHolds == Spec => []StudyInv
<1>1. Init => StudyInv
  BY DEF Init, DesignInit, StudyInv
<1> QED
  BY <1>1, StepStudy, PTL DEF Spec

(* The gate is decided by the document alone: no study it lets through is  *)
(* refused when it is compiled, for every number of arms, repetitions,     *)
(* conditions and blocks, however its seed rotates and shuffles the sets.  *)
THEOREM ConfirmatoryStudiesCompileHolds == Spec => []ConfirmatoryStudiesCompile
<1>1. StudyInv => ConfirmatoryStudiesCompile
  BY DEF StudyInv, ConfirmatoryStudiesCompile
<1> QED
  BY <1>1, StudyInvHolds, PTL

-----------------------------------------------------------------------------
(***************************************************************************)
(* What a confirmatory result rests on.  A compiled plan has complete sets *)
(* and gives a set one block; so if no value was lost to a policy, no pair *)
(* and no block is broken either, and every planned episode is analysed.   *)
(***************************************************************************)

OneBlock ==
  \A i, j \in Ordinals : plan[i].set = plan[j].set => plan[i].block = plan[j].block
SoundPlan ==
  /\ IsFiniteSet(Ordinals) /\ SetsComplete /\ OneBlock
  /\ \A c \in study.contrasts : c[1] \in Arms /\ c[2] \in Arms

DataInv ==
  /\ stage \in {"compiled", "observed"} => SoundPlan
  /\ stage = "observed" => data \in [Ordinals -> {Failed, Missing, 0, 1}]
  /\ ConfirmatoryMeansNothingLost

LEMMA CompiledPlanIsSound ==
  ASSUME NEW base \in [Strata(study) -> 0..(study.arms - 1)], NEW order \in Orders(study),
         study \in Drafts, study.conditions # 0, Accepts(study), Compile(base, order)
  PROVE  SoundPlan'
<1>1. PICK s \in Drafts : s = study
  OBVIOUS
<1>2. PICK P : P = Trials(s, base, order)
  OBVIOUS
<1>3. plan' = P /\ study' = s
  BY <1>1, <1>2 DEF Compile
<1>4. Seed(s, base, order)
  BY <1>1, EveryOrderIsASeed
<1>5. IsFiniteSet(Ordinals)'
  <2>1. DOMAIN P = 1..(SetCount(s) * s.arms) /\ SetCount(s) * s.arms \in Int
    BY <1>2, <1>4, Counts DEF Trials, Seed
  <2> QED
    BY <1>3, <2>1, FS_Interval DEF Ordinals
<1>6. OneBlock'
  <2> Placement(s, base, order, P)
    BY <1>2, <1>4, TrialPlace
  <2>1. \A o \in DOMAIN P :
          P[o].block = IF s.design = "block"
                       THEN ((StratumOf(s, P[o].set) - 1) \div s.conditions) + 1 ELSE 0
    BY DEF Placement
  <2> QED
    BY <1>3, <2>1 DEF OneBlock, Ordinals
<1>7. SetsComplete' /\ PlanIsAccepted'
  BY CompiledPlanPasses
<1> QED
  BY <1>5, <1>6, <1>7 DEF SoundPlan, PlanIsAccepted

(* Where nothing is censored, nothing is left out.                         *)
LEMMA AllIsAnalysed ==
  ASSUME StudyInv, SoundPlan, data \in [Ordinals -> {Failed, Missing, 0, 1}],
         NEW c \in study.contrasts, NothingCensored(c)
  PROVE  Analysed(c).rows = Relevant(c)
<1>1. /\ study.design \in {"full_factorial", "matched_pair", "block"}
      /\ study.failure \in {"value", "worst_case", "missing"}
      /\ study.missing \in {"value", "worst_case", "descriptive", "error"}
  BY DraftsAssumption DEF StudyInv
<1>2. ASSUME NEW kind, Lost(c, kind) = 0 PROVE \A o \in Relevant(c) : data[o] # kind
  <2>1. IsFiniteSet({o \in Relevant(c) : data[o] = kind})
    BY FS_Subset DEF SoundPlan, Relevant
  <2>2. {o \in Relevant(c) : data[o] = kind} = {}
    BY <1>2, <2>1, FS_EmptySet DEF Lost
  <2> QED
    BY <2>2
<1>3. \A o \in Relevant(c) : HasValue(o)
  <2> SUFFICES ASSUME NEW o \in Relevant(c) PROVE HasValue(o)
    OBVIOUS
  <2>1. o \in Ordinals /\ data[o] \in {Failed, Missing, 0, 1}
    BY DEF Relevant
  <2>2. CASE data[o] = Failed
    <3>1. study.failure # "missing"
      BY <1>2, <2>2 DEF NothingCensored
    <3> QED
      BY <1>1, <2>2, <3>1 DEF HasValue, Policy
  <2>3. CASE data[o] = Missing
    <3>1. study.missing \notin {"descriptive", "error"}
      BY <1>2, <2>3 DEF NothingCensored
    <3>2. Policy(o) = study.missing
      BY <2>3 DEF Policy, Failed, Missing
    <3> QED
      BY <1>1, <3>1, <3>2 DEF HasValue
  <2> QED
    BY <2>1, <2>2, <2>3 DEF HasValue
<1>4. {o \in Relevant(c) : HasValue(o)} = Relevant(c)
  BY <1>3
<1>5. CASE study.design = "full_factorial"
  BY <1>4, <1>5 DEF Analysed
<1>6. CASE study.design # "full_factorial"
  <2> DEFINE V == Relevant(c)
             Group(o) == {i \in V : Stratum(i) = Stratum(o)}
  <2>1. ASSUME NEW o \in V PROVE {plan[i].arm : i \in Group(o)} = {c[1], c[2]}
    <3>1. \A i \in V : plan[i].arm \in {c[1], c[2]}
      BY DEF Relevant
    <3>2. ASSUME NEW a \in {c[1], c[2]} PROVE \E i \in Group(o) : plan[i].arm = a
      <4>1. o \in Ordinals /\ a \in Arms
        BY DEF Relevant, SoundPlan
      <4>2. {plan[i].arm : i \in InSet(plan[o].set)} = Arms
        BY <4>1 DEF SoundPlan, SetsComplete
      <4>3. PICK i \in InSet(plan[o].set) : plan[i].arm = a
        BY <4>1, <4>2
      <4>4. i \in Ordinals /\ plan[i].set = plan[o].set /\ plan[i].block = plan[o].block
        BY <4>1, <4>3 DEF InSet, SoundPlan, OneBlock
      <4>5. i \in V
        BY <4>3, <4>4 DEF Relevant
      <4>6. Stratum(i) = Stratum(o)
        BY <1>1, <1>6, <4>4 DEF Stratum
      <4> QED
        BY <4>3, <4>5, <4>6
    <3> QED
      BY <3>1, <3>2
  <2>2. Analysed(c).rows =
          UNION {B \in {{o \in V : Stratum(o) = g} : g \in {Stratum(o) : o \in V}} :
                   {plan[o].arm : o \in B} = {c[1], c[2]}}
    <3>1. ASSUME NEW W, W = {o \in Relevant(c) : HasValue(o)}
          PROVE  Analysed(c).rows =
                   UNION {B \in {{o \in W : Stratum(o) = g} : g \in {Stratum(o) : o \in W}} :
                            {plan[o].arm : o \in B} = {c[1], c[2]}}
      BY <1>6, <3>1 DEF Analysed
    <3> QED
      BY <1>4, <3>1
  <2>3. ASSUME NEW o \in V PROVE o \in Analysed(c).rows
    <3>1. Group(o) \in {{i \in V : Stratum(i) = g} : g \in {Stratum(i) : i \in V}}
      OBVIOUS
    <3>2. o \in Group(o)
      OBVIOUS
    <3> QED
      BY <2>1, <2>2, <3>1, <3>2
  <2>4. V \subseteq Analysed(c).rows
    BY <2>3
  <2>5. Analysed(c).rows \subseteq V
    BY <2>2
  <2> QED
    BY <2>4, <2>5
<1> QED
  BY <1>5, <1>6

LEMMA SamePlan ==
  ASSUME UNCHANGED <<plan, study>>, SoundPlan
  PROVE  SoundPlan'
<1>1. Ordinals' = Ordinals /\ Arms' = Arms /\ \A set : InSet(set)' = InSet(set)
  BY DEF Ordinals, Arms, InSet
<1>2. SetsComplete'
  BY <1>1 DEF SoundPlan, SetsComplete
<1> QED
  BY <1>1, <1>2 DEF SoundPlan, OneBlock

LEMMA StepData == StudyInv /\ DataInv /\ [Next]_vars => DataInv'
<1> SUFFICES ASSUME StudyInv, DataInv, [Next]_vars PROVE DataInv'
  OBVIOUS
<1>1. CASE UNCHANGED vars
  BY <1>1, SamePlan DEF vars, DataInv, Ordinals, ConfirmatoryMeansNothingLost
<1>2. CASE (Load \/ NoConditions) /\ UNCHANGED <<data, results>>
  BY <1>2 DEF Load, NoConditions, DataInv, ConfirmatoryMeansNothingLost
<1>3. CASE Seeded /\ UNCHANGED <<data, results>>
  <2>1. PICK base \in [Strata(study) -> 0..(study.arms - 1)], order \in Orders(study) :
          Compile(base, order) /\ study.conditions # 0
    BY <1>3 DEF Seeded
  <2>2. SoundPlan'
    BY <2>1, CompiledPlanIsSound DEF StudyInv, Compile
  <2>3. stage' # "observed"
    BY <2>1 DEF Compile
  <2> QED
    BY <1>3, <2>2, <2>3 DEF DataInv, ConfirmatoryMeansNothingLost
<1>4. CASE Observe
  <2>1. data' \in [Ordinals -> {Failed, Missing, 0, 1}]
    BY <1>4 DEF Observe
  <2>2. SoundPlan'
    BY <1>4, SamePlan DEF Observe, DataInv
  <2> QED
    BY <1>4, <2>1, <2>2 DEF Observe, DataInv, Ordinals, ConfirmatoryMeansNothingLost
<1>5. CASE Analyse
  <2>1. stage' \notin {"compiled", "observed"}
    BY <1>5 DEF Analyse
  <2>2. CASE Raises
    BY <1>5, <2>1, <2>2 DEF Analyse, DataInv, ConfirmatoryMeansNothingLost
  <2>3. CASE ~Raises
    <3>1. DOMAIN results' = study.contrasts
          /\ \A c \in study.contrasts : results'[c] \in AnalyseContrast(c)
      BY <1>5, <2>3 DEF Analyse
    <3>2. ASSUME NEW c \in study.contrasts, results'[c].confirmatory
          PROVE  results'[c].status = "completed" /\ results'[c].valid = results'[c].planned
      <4>1. /\ results'[c].status = IF Enough(Analysed(c)) THEN "completed" ELSE "descriptive_only"
            /\ results'[c].planned = Cardinality(Relevant(c))
            /\ results'[c].valid = Cardinality(Analysed(c).rows)
            /\ results'[c].confirmatory = (Enough(Analysed(c)) /\ valid /\ NothingCensored(c))
        BY <3>1 DEF AnalyseContrast
      <4>2. Enough(Analysed(c)) /\ NothingCensored(c)
        BY <3>2, <4>1
      <4>3. Analysed(c).rows = Relevant(c)
        BY <1>5, <4>2, AllIsAnalysed DEF Analyse, DataInv
      <4> QED
        BY <4>1, <4>2, <4>3
    <3> QED
      BY <2>1, <3>1, <3>2 DEF DataInv, ConfirmatoryMeansNothingLost
  <2> QED
    BY <2>2, <2>3
<1> QED
  BY <1>1, <1>2, <1>3, <1>4, <1>5 DEF Next, Design

(* A contrast that calls itself confirmatory used every planned episode,   *)
(* for every document, every plan it compiles to and whatever the episodes *)
(* came to.                                                                *)
THEOREM ConfirmatoryMeansNothingLostHolds == Spec => []ConfirmatoryMeansNothingLost
<1>1. Init => DataInv
  BY DEF Init, DesignInit, DataInv, ConfirmatoryMeansNothingLost
<1>2. DataInv => ConfirmatoryMeansNothingLost
  BY DEF DataInv
<1> QED
  BY <1>1, <1>2, StepData, StudyInvHolds, PTL DEF Spec

-----------------------------------------------------------------------------
(* Fractions                                                               *)

Fraction == Nat \X (Nat \ {0})

LEMMA Cancel ==
  ASSUME NEW x \in Int, NEW y \in Int, NEW d \in Nat \ {0}, x * d <= y * d
  PROVE  x <= y
<1> SUFFICES ASSUME x >= y + 1 PROVE FALSE
  OBVIOUS
<1>1. d * x >= d * (y + 1)
  OBVIOUS
<1> QED
  BY <1>1

LEMMA AtMostIsTotal ==
  ASSUME NEW p \in Fraction, NEW q \in Fraction
  PROVE  AtMost(p, p) /\ (AtMost(p, q) \/ AtMost(q, p))
<1>1. PICK a \in Nat, b \in Nat, c \in Nat, d \in Nat : p = <<a, b>> /\ q = <<c, d>>
  BY DEF Fraction
<1>2. PICK x \in Int, y \in Int : x = a * d /\ y = c * b
  OBVIOUS
<1>3. (AtMost(p, q) <=> x <= y) /\ (AtMost(q, p) <=> y <= x) /\ AtMost(p, p)
  BY <1>1, <1>2 DEF AtMost
<1> QED
  BY <1>2, <1>3

LEMMA AtMostIsTransitive ==
  ASSUME NEW p \in Fraction, NEW q \in Fraction, NEW r \in Fraction, AtMost(p, q), AtMost(q, r)
  PROVE  AtMost(p, r)
<1>1. PICK a \in Nat, b \in Nat \ {0}, c \in Nat, d \in Nat \ {0}, e \in Nat, f \in Nat \ {0} :
        p = <<a, b>> /\ q = <<c, d>> /\ r = <<e, f>>
  BY DEF Fraction
<1>2. a * d <= c * b /\ c * f <= e * d
  BY <1>1 DEF AtMost
<1>3. (a * d) * f <= (c * b) * f
  BY <1>2
<1>4. (c * f) * b <= (e * d) * b
  BY <1>2
<1>5. (a * f) * d <= (e * b) * d
  BY <1>3, <1>4
<1>6. a * f <= e * b
  BY <1>5, Cancel
<1> QED
  BY <1>1, <1>6 DEF AtMost

-----------------------------------------------------------------------------
(* Sorting a finite set                                                    *)

LEMMA LeastNatural ==
  ASSUME NEW N, N \subseteq Nat, N # {}
  PROVE  \E m \in N : \A n \in N : m <= n
<1>1. PICK m \in N : \A n \in N : <<n, m>> \notin OpToRel(<, Nat)
  BY WFMin, NatLessThanWellFounded, Zenon
<1>2. \A n \in N : m <= n
  <2> SUFFICES ASSUME NEW n \in N PROVE m <= n
    OBVIOUS
  <2>1. n \in Nat /\ m \in Nat
    OBVIOUS
  <2>2. ~(n < m)
    BY <1>1, <2>1, Zenon DEF OpToRel
  <2> QED
    BY <2>1, <2>2
<1> QED
  BY <1>2

LEMMA FewestFirst ==
  ASSUME NEW S, IsFiniteSet(S), NEW B, B \subseteq SUBSET S, B # {}
  PROVE  \E T \in B : \A U \in B : Cardinality(T) <= Cardinality(U)
<1>1. \A T \in B : Cardinality(T) \in Nat
  BY FS_Subset, FS_CardinalityType
<1>2. {Cardinality(T) : T \in B} \subseteq Nat /\ {Cardinality(T) : T \in B} # {}
  BY <1>1
<1>3. PICK N : N = {Cardinality(T) : T \in B}
  OBVIOUS
<1>4. PICK m \in N : \A n \in N : m <= n
  BY <1>2, <1>3, LeastNatural
<1> QED
  BY <1>3, <1>4

(* Of finitely many fractions one is the largest.                          *)
LargestIn(S, w, m) == m \in S /\ \A x \in S : AtMost(w[x], w[m])

LEMMA Largest ==
  ASSUME NEW S, IsFiniteSet(S), S # {}, NEW w, \A x \in S : w[x] \in Fraction
  PROVE  \E m \in S : LargestIn(S, w, m)
<1> DEFINE B == {T \in SUBSET S : T # {} /\ ~\E m \in T : LargestIn(T, w, m)}
<1> SUFFICES ASSUME B # {} PROVE FALSE
  OBVIOUS
<1>1. PICK T \in B : \A U \in B : Cardinality(T) <= Cardinality(U)
  BY FewestFirst
<1>2. PICK x : x \in T
  OBVIOUS
<1>3. Cardinality(T \ {x}) < Cardinality(T)
  BY <1>2, FS_Subset, FS_RemoveElement, FS_CardinalityType
<1>4. T \ {x} \notin B
  <2>1. T \ {x} \in B => Cardinality(T) <= Cardinality(T \ {x})
    BY <1>1
  <2>2. Cardinality(T) \in Nat /\ Cardinality(T \ {x}) \in Nat
    BY FS_Subset, FS_RemoveElement, FS_CardinalityType
  <2> QED
    BY <1>3, <2>1, <2>2
<1>5. CASE T \ {x} = {}
  BY <1>2, <1>5, AtMostIsTotal DEF LargestIn
<1>6. CASE T \ {x} # {}
  <2>1. PICK m \in T \ {x} : LargestIn(T \ {x}, w, m)
    BY <1>4, <1>6
  <2>2. CASE AtMost(w[x], w[m])
    BY <2>1, <2>2 DEF LargestIn
  <2>3. CASE AtMost(w[m], w[x])
    <3>1. ASSUME NEW y \in T PROVE AtMost(w[y], w[x])
      BY <1>2, <2>1, <2>3, AtMostIsTotal, AtMostIsTransitive DEF LargestIn
    <3> QED
      BY <1>2, <3>1 DEF LargestIn
  <2> QED
    BY <1>2, <2>1, <2>2, <2>3, AtMostIsTotal
<1> QED
  BY <1>5, <1>6

LEMMA SortedOrder ==
  ASSUME NEW C, IsFiniteSet(C), NEW p, \A c \in C : p[c] \in Fraction
  PROVE  \E o \in SetToSeqs(C) : Ascending(p, o)
<1> DEFINE B == {T \in SUBSET C : ~\E o \in SetToSeqs(T) : Ascending(p, o)}
<1> SUFFICES ASSUME B # {} PROVE FALSE
  OBVIOUS
<1>1. PICK T \in B : \A U \in B : Cardinality(T) <= Cardinality(U)
  BY FewestFirst
<1>2. IsFiniteSet(T) /\ Cardinality(T) \in Nat
  BY FS_Subset, FS_CardinalityType
<1>3. T # {}
  <2> SUFFICES ASSUME T = {} PROVE FALSE
    OBVIOUS
  <2>1. Cardinality(T) = 0
    BY FS_EmptySet
  <2>2. PICK o : o = [i \in 1..0 |-> i]
    OBVIOUS
  <2>3. o \in SetToSeqs(T)
    BY <2>1, <2>2 DEF SetToSeqs
  <2>4. Ascending(p, o)
    BY <2>2 DEF Ascending
  <2> QED
    BY <2>3, <2>4
<1>4. PICK m \in T : LargestIn(T, p, m)
  BY <1>2, <1>3, Largest
<1>5. PICK n \in Nat : n + 1 = Cardinality(T) /\ n = Cardinality(T \ {m})
  <2>1. IsFiniteSet(T \ {m}) /\ Cardinality(T \ {m}) = Cardinality(T) - 1
    BY <1>2, FS_RemoveElement
  <2>2. Cardinality(T \ {m}) \in Nat
    BY <2>1, FS_CardinalityType
  <2> QED
    BY <1>2, <2>1, <2>2
<1>6. T \ {m} \notin B
  <2>1. T \ {m} \in B => Cardinality(T) <= Cardinality(T \ {m})
    BY <1>1
  <2> QED
    BY <1>5, <2>1
<1>7. PICK o \in SetToSeqs(T \ {m}) : Ascending(p, o)
  BY <1>6
<1>8. o \in [1..n -> T \ {m}] /\ \A i, j \in 1..n : i # j => o[i] # o[j]
  BY <1>5, <1>7 DEF SetToSeqs
<1>9. PICK q : q = [i \in 1..(n + 1) |-> IF i = n + 1 THEN m ELSE o[i]]
  OBVIOUS
<1>10. q \in SetToSeqs(T)
  <2>1. q \in [1..(n + 1) -> T]
    BY <1>8, <1>9
  <2>2. \A i, j \in 1..(n + 1) : i # j => q[i] # q[j]
    BY <1>8, <1>9
  <2> QED
    BY <1>5, <2>1, <2>2 DEF SetToSeqs
<1>11. Ascending(p, q)
  <2> SUFFICES ASSUME NEW i \in 1..(n + 1), NEW j \in 1..(n + 1), i < j
               PROVE  AtMost(p[q[i]], p[q[j]])
    BY <1>9 DEF Ascending
  <2>1. i \in 1..n /\ q[i] = o[i] /\ o[i] \in T
    BY <1>8, <1>9, <1>4
  <2>2. CASE j = n + 1
    BY <1>4, <1>9, <2>1, <2>2 DEF LargestIn
  <2>3. CASE j \in 1..n
    BY <1>7, <1>8, <1>9, <2>1, <2>3 DEF Ascending
  <2> QED
    BY <2>2, <2>3
<1> QED
  BY <1>10, <1>11

-----------------------------------------------------------------------------
(* Holm's adjustment                                                       *)

LEMMA BonferroniIsMonotone ==
  ASSUME NEW k \in Nat, NEW p \in Fraction, NEW q \in Fraction
  PROVE  /\ Bonferroni(k, p) \in Fraction
         /\ AtMost(p, q) => AtMost(Bonferroni(k, p), Bonferroni(k, q))
         /\ \A h \in Nat : h <= k => AtMost(Bonferroni(h, p), Bonferroni(k, p))
<1>1. PICK a \in Nat, b \in Nat \ {0}, c \in Nat, d \in Nat \ {0} : p = <<a, b>> /\ q = <<c, d>>
  BY DEF Fraction
<1>2. Bonferroni(k, p) \in Fraction
  BY <1>1 DEF Bonferroni, Fraction
<1>3. ASSUME a * d <= c * b PROVE (k * a) * d <= (k * c) * b
  <2>1. PICK x \in Int, y \in Int : x = a * d /\ y = c * b
    OBVIOUS
  <2>2. k * x <= k * y
    BY <1>3, <2>1
  <2> QED
    BY <2>1, <2>2
<1>4. ASSUME NEW h \in Nat, h <= k PROVE (h * a) * b <= (k * a) * b
  <2>1. PICK x \in Nat : x = a * b
    OBVIOUS
  <2>2. h * x <= k * x
    BY <1>4
  <2> QED
    BY <2>1, <2>2
<1> QED
  BY <1>1, <1>2, <1>3, <1>4 DEF Bonferroni, AtMost

(* A cap at one is invisible below one.                                    *)
LEMMA CapAtOne ==
  ASSUME NEW q \in Fraction, NEW level \in Fraction
  PROVE  /\ Smaller(<<1, 1>>, q) \in Fraction
         /\ AtMost(q, level) => AtMost(Smaller(<<1, 1>>, q), level)
         /\ level[1] < level[2] /\ AtMost(Smaller(<<1, 1>>, q), level) => AtMost(q, level)
         /\ AtMost(Smaller(<<1, 1>>, q), <<1, 1>>)
<1>1. <<1, 1>> \in Fraction
  BY DEF Fraction
<1>2. level[1] < level[2] => ~AtMost(<<1, 1>>, level)
  <2>1. PICK a \in Nat, b \in Nat : level = <<a, b>>
    BY DEF Fraction
  <2>2. 1 * b = b /\ a * 1 = a
    OBVIOUS
  <2> QED
    BY <2>1, <2>2 DEF AtMost
<1>3. CASE AtMost(<<1, 1>>, q)
  <2>1. Smaller(<<1, 1>>, q) = <<1, 1>> /\ AtMost(<<1, 1>>, <<1, 1>>)
    BY <1>3 DEF Smaller, AtMost
  <2> QED
    BY <1>1, <1>2, <1>3, <2>1, AtMostIsTransitive
<1>4. CASE ~AtMost(<<1, 1>>, q)
  <2>1. Smaller(<<1, 1>>, q) = q /\ AtMost(q, <<1, 1>>)
    BY <1>1, <1>4, AtMostIsTotal DEF Smaller
  <2> QED
    BY <2>1
<1> QED
  BY <1>3, <1>4

LEMMA RunningMaximumIsLargest ==
  ASSUME NEW n \in Nat, NEW w, \A j \in 1..n : w[j] \in Fraction, NEW i \in 1..n
  PROVE  /\ RunningMaximum(w, i) \in Fraction
         /\ \A k \in 1..i : AtMost(w[k], RunningMaximum(w, i))
         /\ \E k \in 1..i : RunningMaximum(w, i) = w[k]
<1>1. 1..i # {} /\ IsFiniteSet(1..i) /\ \A k \in 1..i : w[k] \in Fraction
  <2>1. i \in Int /\ 1 \in Int
    OBVIOUS
  <2>2. IsFiniteSet(1..i)
    BY <2>1, FS_Interval
  <2> QED
    BY <2>2
<1>2. \E m \in 1..i : LargestIn(1..i, w, m)
  BY <1>1, Largest
<1>3. PICK m : m = CHOOSE j \in 1..i : \A k \in 1..i : AtMost(w[k], w[j])
  OBVIOUS
<1>4. m \in 1..i /\ \A k \in 1..i : AtMost(w[k], w[m])
  BY <1>2, <1>3 DEF LargestIn
<1>5. RunningMaximum(w, i) = w[m]
  BY <1>3 DEF RunningMaximum
<1> QED
  BY <1>1, <1>4, <1>5

(* The p-values in ascending order, and what is adjusted of each.          *)
Ranked(C, p, n, o, w) ==
  /\ n \in Nat /\ o \in [1..n -> C] /\ Ascending(p, o)
  /\ \A i, j \in 1..n : o[i] = o[j] => i = j
  /\ \A c \in C : \E i \in 1..n : o[i] = c
  /\ \A i \in 1..n : w[i] = Smaller(<<1, 1>>, Bonferroni(n - i + 1, p[o[i]]))
  /\ \A i \in 1..n : Holm(p)[o[i]] = RunningMaximum(w, i)

LEMMA HolmRanks ==
  ASSUME NEW C, IsFiniteSet(C), NEW p \in [C -> Fraction]
  PROVE  \E n, o, w : Ranked(C, p, n, o, w)
<1>1. PICK n \in Nat : n = Cardinality(C)
  BY FS_CardinalityType
<1>2. PICK o : o = CHOOSE q \in SetToSeqs(C) : Ascending(p, q)
  OBVIOUS
<1>3. o \in SetToSeqs(C) /\ Ascending(p, o)
  <2>1. \E q \in SetToSeqs(C) : Ascending(p, q)
    BY SortedOrder
  <2> QED
    BY <1>2, <2>1
<1>4. o \in [1..n -> C] /\ \A i, j \in 1..n : o[i] = o[j] => i = j
  BY <1>1, <1>3 DEF SetToSeqs
<1>5. \A c \in C : \E i \in 1..n : o[i] = c
  <2>1. o \in Injection(1..n, C)
    BY <1>4 DEF Injection, IsInjective
  <2>2. Cardinality(1..n) = n
    BY FS_Interval
  <2>3. o \in Surjection(1..n, C)
    BY <1>1, <2>1, <2>2, FS_Injection
  <2> QED
    BY <2>3 DEF Surjection
<1>6. PICK w : w = [i \in 1..n |-> Candidate(n - i + 1, p[o[i]])]
  OBVIOUS
<1>7. Holm(p) = [c \in C |-> RunningMaximum(w, CHOOSE i \in 1..n : o[i] = c)]
  BY <1>1, <1>2, <1>6 DEF Holm
<1>8. \A i \in 1..n : (CHOOSE j \in 1..n : o[j] = o[i]) = i
  BY <1>4
<1>9. \A i \in 1..n : w[i] = Smaller(<<1, 1>>, Bonferroni(n - i + 1, p[o[i]]))
  BY <1>6 DEF Candidate, Bonferroni
<1>10. \A i \in 1..n : Holm(p)[o[i]] = RunningMaximum(w, i)
  BY <1>4, <1>7, <1>8
<1>11. Ranked(C, p, n, o, w)
  BY <1>3, <1>4, <1>5, <1>9, <1>10 DEF Ranked
<1> QED
  BY <1>11

LEMMA RankedFractions ==
  ASSUME NEW C, NEW p \in [C -> Fraction], NEW n, NEW o, NEW w, Ranked(C, p, n, o, w)
  PROVE  \A i \in 1..n : w[i] \in Fraction
<1> SUFFICES ASSUME NEW i \in 1..n PROVE w[i] \in Fraction
  OBVIOUS
<1>1. n - i + 1 \in Nat /\ p[o[i]] \in Fraction
  <2>1. n \in Nat /\ o \in [1..n -> C]
    BY DEF Ranked
  <2>2. o[i] \in C
    BY <2>1
  <2>3. p[o[i]] \in Fraction
    BY <2>2
  <2> QED
    BY <2>1, <2>3
<1>2. PICK q \in Fraction : q = Bonferroni(n - i + 1, p[o[i]])
  BY <1>1, BonferroniIsMonotone
<1>3. w[i] = Smaller(<<1, 1>>, q)
  BY <1>2 DEF Ranked
<1> QED
  BY <1>2, <1>3, CapAtOne

(* Of n ranks n - k + 1 are not below k.                                   *)
Above(n, o, k) == {o[j] : j \in k..n}

LEMMA RanksAbove ==
  ASSUME NEW C, NEW n \in Nat, NEW o \in [1..n -> C], \A i, j \in 1..n : o[i] = o[j] => i = j,
         NEW k \in 1..n
  PROVE  IsFiniteSet(Above(n, o, k)) /\ Cardinality(Above(n, o, k)) = n - k + 1
<1>1. PICK f : f = [j \in k..n |-> o[j]]
  OBVIOUS
<1>2. f \in Injection(k..n, Above(n, o, k))
  BY <1>1 DEF Above, Injection, IsInjective
<1>3. f \in Surjection(k..n, Above(n, o, k))
  BY <1>1 DEF Above, Surjection
<1>4. ExistsBijection(k..n, Above(n, o, k))
  BY <1>2, <1>3 DEF ExistsBijection, Bijection
<1>5. IsFiniteSet(k..n) /\ Cardinality(k..n) = n - k + 1
  BY FS_Interval
<1> QED
  BY <1>4, <1>5, FS_Bijection

LEMMA AdjustedIsSignificant ==
  ASSUME NEW C, IsFiniteSet(C), NEW p \in [C -> Fraction], NEW n, NEW o, NEW w,
         Ranked(C, p, n, o, w), NEW level \in Fraction, level[1] < level[2],
         NEW c \in C, AtMost(Holm(p)[c], level), NEW F \in SUBSET C, c \in F
  PROVE  Significant(p, F, level)
<1>1. n \in Nat /\ o \in [1..n -> C] /\ \A i, j \in 1..n : o[i] = o[j] => i = j
  BY DEF Ranked
<1>2. PICK i \in 1..n : o[i] = c
  BY DEF Ranked
<1>3. PICK N : N = {j \in 1..n : o[j] \in F}
  OBVIOUS
<1>4. PICK k \in N : \A j \in N : k <= j
  <2>1. N \subseteq Nat /\ N # {}
    BY <1>1, <1>2, <1>3
  <2> QED
    BY <2>1, LeastNatural
<1>5. k \in 1..n /\ k \in 1..i /\ o[k] \in F
  BY <1>1, <1>2, <1>3, <1>4
<1>6. F \subseteq Above(n, o, k)
  <2> SUFFICES ASSUME NEW d \in F PROVE d \in Above(n, o, k)
    OBVIOUS
  <2>1. PICK j \in 1..n : o[j] = d
    BY DEF Ranked
  <2>2. j \in N
    BY <1>3, <2>1
  <2>3. j \in k..n
    BY <1>1, <1>4, <1>5, <2>2
  <2> QED
    BY <2>1, <2>3 DEF Above
<1>7. Cardinality(F) \in Nat /\ Cardinality(F) <= n - k + 1 /\ n - k + 1 \in Nat
  <2>1. IsFiniteSet(Above(n, o, k)) /\ Cardinality(Above(n, o, k)) = n - k + 1
    BY <1>1, <1>5, RanksAbove
  <2>2. IsFiniteSet(F) /\ Cardinality(F) <= n - k + 1
    BY <1>6, <2>1, FS_Subset
  <2> QED
    BY <1>1, <1>5, <2>2, FS_CardinalityType
<1>8. PICK q \in Fraction : q = Bonferroni(n - k + 1, p[o[k]])
  BY <1>1, <1>5, <1>7, BonferroniIsMonotone
<1>9. AtMost(w[k], level)
  <2>1. \A j \in 1..n : w[j] \in Fraction
    BY <1>1, RankedFractions
  <2>2. RunningMaximum(w, i) \in Fraction /\ AtMost(w[k], RunningMaximum(w, i))
    BY <1>1, <1>5, <2>1, RunningMaximumIsLargest
  <2>3. AtMost(RunningMaximum(w, i), level)
    BY <1>2 DEF Ranked
  <2> QED
    BY <1>5, <2>1, <2>2, <2>3, AtMostIsTransitive
<1>10. AtMost(q, level)
  <2>1. w[k] = Smaller(<<1, 1>>, q)
    BY <1>5, <1>8 DEF Ranked
  <2> QED
    BY <1>9, <2>1, CapAtOne
<1>11. PICK f \in Nat, r \in Fraction : f = Cardinality(F) /\ r = p[o[k]]
  BY <1>1, <1>5, <1>7
<1>12. Bonferroni(f, r) \in Fraction /\ AtMost(Bonferroni(f, r), q)
  BY <1>7, <1>8, <1>11, BonferroniIsMonotone
<1>13. AtMost(Bonferroni(f, r), level)
  BY <1>10, <1>12, AtMostIsTransitive
<1> QED
  BY <1>5, <1>11, <1>13 DEF Significant

LEMMA UnadjustedIsNot ==
  ASSUME NEW C, IsFiniteSet(C), NEW p \in [C -> Fraction], NEW n, NEW o, NEW w,
         Ranked(C, p, n, o, w), NEW level \in Fraction,
         NEW c \in C, ~AtMost(Holm(p)[c], level)
  PROVE  \E G \in SUBSET C : c \in G /\ ~Significant(p, G, level)
<1>1. n \in Nat /\ o \in [1..n -> C] /\ \A i, j \in 1..n : o[i] = o[j] => i = j
  BY DEF Ranked
<1>2. PICK i \in 1..n : o[i] = c
  BY DEF Ranked
<1>3. \A j \in 1..n : w[j] \in Fraction
  BY <1>1, RankedFractions
<1>4. PICK k \in 1..i : RunningMaximum(w, i) = w[k]
  BY <1>1, <1>3, RunningMaximumIsLargest
<1>5. k \in 1..n /\ n - k + 1 \in Nat
  BY <1>1
<1>6. PICK q \in Fraction : q = Bonferroni(n - k + 1, p[o[k]])
  BY <1>1, <1>5, BonferroniIsMonotone
<1>7. ~AtMost(q, level)
  <2>1. w[k] = Smaller(<<1, 1>>, q) /\ ~AtMost(w[k], level)
    BY <1>2, <1>4, <1>5, <1>6 DEF Ranked
  <2> QED
    BY <2>1, CapAtOne
<1>8. PICK G : G = Above(n, o, k)
  OBVIOUS
<1>9. G \in SUBSET C /\ c \in G /\ Cardinality(G) = n - k + 1
  <2>1. i \in k..n /\ \A j \in k..n : j \in 1..n
    BY <1>1, <1>5
  <2>2. Cardinality(G) = n - k + 1
    BY <1>1, <1>5, <1>8, RanksAbove
  <2> QED
    BY <1>1, <1>2, <1>8, <2>1, <2>2 DEF Above
<1>10. ASSUME NEW d \in G, AtMost(Bonferroni(n - k + 1, p[d]), level) PROVE FALSE
  <2>1. PICK j \in k..n : d = o[j]
    BY <1>8 DEF Above
  <2>2. j \in 1..n /\ (k < j \/ k = j)
    BY <1>1, <1>5, <2>1
  <2>3. p[o[k]] \in Fraction /\ p[d] \in Fraction
    BY <1>1, <1>5, <2>1, <2>2
  <2>4. AtMost(p[o[k]], p[d])
    BY <1>1, <1>5, <2>1, <2>2, <2>3, AtMostIsTotal DEF Ranked, Ascending
  <2>5. PICK r \in Fraction : r = Bonferroni(n - k + 1, p[d]) /\ AtMost(q, r)
    BY <1>5, <1>6, <2>3, <2>4, BonferroniIsMonotone
  <2> QED
    BY <1>7, <1>10, <2>5, AtMostIsTransitive
<1> QED
  BY <1>9, <1>10 DEF Significant

LEMMA AdjustedAreFractions ==
  ASSUME NEW C, IsFiniteSet(C), NEW p \in [C -> Fraction], NEW c \in C
  PROVE  Holm(p)[c] \in Fraction /\ AtMost(Holm(p)[c], <<1, 1>>)
<1>1. PICK n, o, w : Ranked(C, p, n, o, w)
  BY HolmRanks
<1>2. PICK i \in 1..n : o[i] = c
  BY <1>1 DEF Ranked
<1>3. n \in Nat /\ o \in [1..n -> C]
  BY <1>1 DEF Ranked
<1>4. \A j \in 1..n : w[j] \in Fraction
  BY <1>1, RankedFractions
<1>5. Holm(p)[c] = RunningMaximum(w, i)
  BY <1>1, <1>2 DEF Ranked
<1>6. PICK k \in 1..i : RunningMaximum(w, i) = w[k]
  BY <1>3, <1>4, RunningMaximumIsLargest
<1>7. k \in 1..n /\ n - k + 1 \in Nat
  BY <1>3
<1>8. p[o[k]] \in Fraction
  BY <1>3, <1>7
<1>9. PICK q \in Fraction : q = Bonferroni(n - k + 1, p[o[k]])
  BY <1>7, <1>8, BonferroniIsMonotone
<1>10. w[k] = Smaller(<<1, 1>>, q)
  BY <1>1, <1>7, <1>9 DEF Ranked
<1> QED
  BY <1>4, <1>5, <1>6, <1>7, <1>9, <1>10, CapAtOne

LEMMA HolmIsClosed ==
  ASSUME NEW C, IsFiniteSet(C), NEW p \in [C -> Fraction], NEW level \in Fraction
  PROVE  AgreesAt(p, Holm(p), level)
<1>1. PICK n, o, w : Ranked(C, p, n, o, w)
  BY HolmRanks
<1>2. ASSUME level[1] < level[2], NEW c \in C, AtMost(Holm(p)[c], level),
             NEW F \in SUBSET C, c \in F
      PROVE  Significant(p, F, level)
  BY <1>1, <1>2, AdjustedIsSignificant
<1>3. ASSUME NEW c \in C, ~AtMost(Holm(p)[c], level)
      PROVE  \E G \in SUBSET C : c \in G /\ ~Significant(p, G, level)
  BY <1>1, <1>3, UnadjustedIsNot
<1> QED
  BY <1>2, <1>3 DEF AgreesAt

(* What AnalyseContrast reports as p is a fraction.                        *)
Reported ==
  /\ IsFiniteSet(DOMAIN results)
  /\ \A c \in DOMAIN results : results[c].p \in Fraction

(* Holm's adjustment of the completed contrasts is the closed test at      *)
(* every level below one, listed by the property or not.                   *)
HolmIsClosedTestingEverywhere ==
  LET p == [c \in Completed(results) |-> results[c].p]
      adjusted == Holm(p)
  IN  /\ \A c \in DOMAIN p : AtMost(adjusted[c], <<1, 1>>)
      /\ \A level \in Fraction : AgreesAt(p, adjusted, level)

LEMMA ClosedIfReported == Reported => HolmIsClosedTestingEverywhere /\ HolmIsClosedTesting
<1> SUFFICES ASSUME Reported PROVE HolmIsClosedTestingEverywhere /\ HolmIsClosedTesting
  OBVIOUS
<1>1. PICK C : C = Completed(results)
  OBVIOUS
<1>2. PICK p : p = [c \in C |-> results[c].p]
  OBVIOUS
<1>3. IsFiniteSet(C) /\ p \in [C -> Fraction] /\ DOMAIN p = C
  BY <1>1, <1>2, FS_Subset DEF Reported, Completed
<1>4. \A c \in C : Holm(p)[c] \in Fraction /\ AtMost(Holm(p)[c], <<1, 1>>)
  BY <1>3, AdjustedAreFractions
<1>5. \A level \in Fraction : AgreesAt(p, Holm(p), level)
  BY <1>3, HolmIsClosed
<1>6. Levels(p, Holm(p)) \subseteq Fraction
  <2>1. Cardinality(C) \in Nat
    BY <1>3, FS_CardinalityType
  <2>2. ASSUME NEW k \in 1..Cardinality(C), NEW d \in C PROVE Bonferroni(k, p[d]) \in Fraction
    <3>1. k \in Nat /\ p[d] \in Fraction
      BY <1>3, <2>1
    <3> QED
      BY <3>1, BonferroniIsMonotone
  <2>3. \A x \in (1..Cardinality(C)) \X C : Bonferroni(x[1], p[x[2]]) \in Fraction
    BY <2>2
  <2> QED
    BY <1>3, <1>4, <2>3 DEF Levels
<1>7. HolmIsClosedTestingEverywhere
  BY <1>1, <1>2, <1>3, <1>4, <1>5 DEF HolmIsClosedTestingEverywhere
<1>8. HolmIsClosedTesting
  BY <1>1, <1>2, <1>3, <1>4, <1>5, <1>6 DEF HolmIsClosedTesting
<1> QED
  BY <1>7, <1>8

LEMMA PValuesAreFractions ==
  ASSUME NEW A, IsFiniteSet(A.rows), A.treated \subseteq A.rows, study.permutations \in Nat \ {0},
         NEW p \in PValues(A)
  PROVE  p \in Fraction
<1>1. IsFiniteSet(Relabelings(A)) /\ A.treated \in Relabelings(A)
  <2>1. Relabelings(A) \subseteq SUBSET A.rows
    BY DEF Relabelings
  <2>2. IsFiniteSet(SUBSET A.rows)
    BY FS_SUBSET
  <2>3. A.treated \in Relabelings(A)
    BY DEF Relabelings
  <2> QED
    BY <2>1, <2>2, <2>3, FS_Subset
<1>2. Cardinality(Relabelings(A)) \in Nat \ {0}
  BY <1>1, FS_CardinalityType, FS_EmptySet
<1>3. Extremes(A) \in Nat
  <2>1. PICK S : S = {T \in Relabelings(A) : IsExtreme(Effect(T, A), Effect(A.treated, A))}
    OBVIOUS
  <2>2. Cardinality(S) \in Nat
    BY <1>1, <2>1, FS_Subset, FS_CardinalityType
  <2> QED
    BY <2>1, <2>2 DEF Extremes
<1> QED
  BY <1>2, <1>3 DEF PValues, Drawn, Fraction

LEMMA ContrastReportsFraction ==
  ASSUME IsFiniteSet(Ordinals), study.permutations \in Nat \ {0}, NEW c, NEW r \in AnalyseContrast(c)
  PROVE  r.p \in Fraction
<1>1. PICK A : A = Analysed(c)
  OBVIOUS
<1>2. A.rows \subseteq Ordinals /\ A.treated \subseteq A.rows
  <2>1. PICK V : V = {o \in Relevant(c) : HasValue(o)}
    OBVIOUS
  <2>2. PICK K : K = {B \in {{o \in V : Stratum(o) = g} : g \in {Stratum(o) : o \in V}} :
                        {plan[o].arm : o \in B} = {c[1], c[2]}}
    OBVIOUS
  <2>3. A.rows = IF study.design = "full_factorial" THEN V ELSE UNION K
    BY <1>1, <2>1, <2>2 DEF Analysed
  <2>4. V \subseteq Ordinals
    BY <2>1 DEF Relevant
  <2>5. UNION K \subseteq V
    BY <2>2
  <2>6. A.treated = {o \in A.rows : plan[o].arm = c[1]}
    BY <1>1 DEF Analysed
  <2> QED
    BY <2>3, <2>4, <2>5, <2>6
<1>3. r.p \in IF Enough(A) THEN PValues(A) ELSE {<<1, 1>>}
  BY <1>1 DEF AnalyseContrast
<1>4. IsFiniteSet(A.rows)
  BY <1>2, FS_Subset
<1> QED
  BY <1>2, <1>3, <1>4, PValuesAreFractions DEF Fraction

-----------------------------------------------------------------------------
(* A sum over a finite set of integers is one: the recursive function that *)
(* computes it exists.  It is built up by the number of summands.          *)

Picked(s) == CHOOSE x \in s : TRUE
Sums(f, g, s) == IF s = {} THEN 0 ELSE f[Picked(s)] + g[s \ {Picked(s)}]
SumsUpTo(f, g, n) ==
  \A s \in SUBSET DOMAIN f : Cardinality(s) <= n => g[s] = Sums(f, g, s)

LEMMA SumsExist ==
  ASSUME NEW f, IsFiniteSet(DOMAIN f), \A x \in DOMAIN f : f[x] \in Int
  PROVE  \E g \in [SUBSET DOMAIN f -> Int] : \A s \in SUBSET DOMAIN f : g[s] = Sums(f, g, s)
<1>1. PICK D : D = DOMAIN f
  OBVIOUS
<1>2. \A s \in SUBSET D : IsFiniteSet(s) /\ Cardinality(s) \in Nat
  BY <1>1, FS_Subset, FS_CardinalityType
<1>3. PICK N : N = {n \in Nat : ~\E g \in [SUBSET D -> Int] : SumsUpTo(f, g, n)}
  OBVIOUS
<1>4. N = {}
  <2> SUFFICES ASSUME N # {} PROVE FALSE
    OBVIOUS
  <2>1. PICK n \in N : \A k \in N : n <= k
    BY <1>3, LeastNatural
  <2>2. PICK g \in [SUBSET D -> Int] :
          \A s \in SUBSET D : Cardinality(s) < n => g[s] = Sums(f, g, s)
    <3>1. CASE n = 0
      <4>1. PICK g : g = [s \in SUBSET D |-> 0]
        OBVIOUS
      <4> QED
        BY <1>2, <3>1, <4>1
    <3>2. CASE n # 0
      <4>1. n \in Nat /\ n - 1 \in Nat
        BY <1>3, <2>1, <3>2
      <4>2. n - 1 \notin N
        BY <2>1, <4>1
      <4>3. PICK g \in [SUBSET D -> Int] : SumsUpTo(f, g, n - 1)
        BY <1>3, <4>1, <4>2
      <4>4. \A s \in SUBSET D : Cardinality(s) < n => Cardinality(s) <= n - 1
        BY <1>2, <4>1
      <4> QED
        BY <1>1, <4>3, <4>4 DEF SumsUpTo
    <3> QED
      BY <3>1, <3>2
  <2>3. PICK h : h = [s \in SUBSET D |-> IF Cardinality(s) < n THEN g[s] ELSE Sums(f, g, s)]
    OBVIOUS
  <2>4. ASSUME NEW s \in SUBSET D, s # {}
        PROVE  /\ Picked(s) \in D /\ s \ {Picked(s)} \in SUBSET D
               /\ Cardinality(s \ {Picked(s)}) = Cardinality(s) - 1
    <3>1. PICK x \in s : x = Picked(s)
      BY <2>4 DEF Picked
    <3>2. Cardinality(s \ {x}) = Cardinality(s) - 1
      BY <1>2, FS_RemoveElement
    <3> QED
      BY <3>1, <3>2
  <2>5. h \in [SUBSET D -> Int]
    <3> SUFFICES ASSUME NEW s \in SUBSET D PROVE Sums(f, g, s) \in Int
      BY <2>3
    <3>1. CASE s = {}
      BY <3>1 DEF Sums
    <3>2. CASE s # {}
      <4>1. f[Picked(s)] \in Int /\ g[s \ {Picked(s)}] \in Int
        BY <1>1, <2>4, <3>2
      <4> QED
        BY <3>2, <4>1 DEF Sums
    <3> QED
      BY <3>1, <3>2
  <2>6. SumsUpTo(f, h, n)
    <3> SUFFICES ASSUME NEW s \in SUBSET D, Cardinality(s) <= n PROVE h[s] = Sums(f, h, s)
      BY <1>1 DEF SumsUpTo
    <3>1. n \in Nat
      BY <1>3, <2>1
    <3>2. h[s] = Sums(f, g, s)
      BY <2>2, <2>3
    <3>3. CASE s = {}
      BY <3>2, <3>3 DEF Sums
    <3>4. CASE s # {}
      <4>1. PICK t \in SUBSET D : t = s \ {Picked(s)}
        BY <2>4, <3>4
      <4>0. Cardinality(t) < n
        <5>1. Cardinality(t) = Cardinality(s) - 1 /\ Cardinality(s) \in Nat
          BY <1>2, <2>4, <3>4, <4>1
        <5> QED
          BY <3>1, <5>1
      <4>2. h[t] = g[t]
        BY <2>3, <4>0
      <4> QED
        BY <3>2, <3>4, <4>1, <4>2 DEF Sums
    <3> QED
      BY <3>3, <3>4
  <2> QED
    BY <1>3, <2>1, <2>5, <2>6
<1>5. PICK n \in Nat : n = Cardinality(D)
  BY <1>1, FS_CardinalityType
<1>6. PICK g \in [SUBSET D -> Int] : SumsUpTo(f, g, n)
  BY <1>3, <1>4
<1>7. \A s \in SUBSET D : Cardinality(s) <= n
  BY <1>1, <1>5, FS_Subset
<1> QED
  BY <1>1, <1>6, <1>7 DEF SumsUpTo

LEMMA SumIsInteger ==
  ASSUME NEW f, IsFiniteSet(DOMAIN f), \A x \in DOMAIN f : f[x] \in Int
  PROVE  SumFunction(f) \in Int
<1>1. PICK D : D = DOMAIN f
  OBVIOUS
<1>2. PICK g : g = CHOOSE q : q = [s \in SUBSET D |-> IF s = {} THEN 0
                                    ELSE f[CHOOSE x \in s : TRUE] + q[s \ {CHOOSE x \in s : TRUE}]]
  OBVIOUS
<1>3. SumFunction(f) = g[D]
  BY <1>1, <1>2 DEF SumFunction, SumFunctionOnSet, FoldFunctionOnSet, MapThenFoldSet
<1>4. \E q : q = [s \in SUBSET D |-> Sums(f, q, s)]
  <2>1. PICK q \in [SUBSET D -> Int] : \A s \in SUBSET D : q[s] = Sums(f, q, s)
    BY <1>1, SumsExist
  <2> QED
    BY <2>1
<1>5. g = [s \in SUBSET D |-> Sums(f, g, s)]
  BY <1>2, <1>4 DEF Sums, Picked
<1>6. \A s \in SUBSET D : g[s] \in Int
  <2>1. PICK B : B = {s \in SUBSET D : g[s] \notin Int}
    OBVIOUS
  <2> SUFFICES ASSUME B # {} PROVE FALSE
    BY <2>1
  <2>2. PICK s \in B : \A t \in B : Cardinality(s) <= Cardinality(t)
    BY <1>1, <2>1, FewestFirst
  <2>3. IsFiniteSet(s) /\ Cardinality(s) \in Nat
    BY <1>1, <2>1, FS_Subset, FS_CardinalityType
  <2>4. s \in SUBSET D /\ g[s] = Sums(f, g, s) /\ g[s] \notin Int
    BY <1>5, <2>1
  <2>5. s # {}
    BY <2>4 DEF Sums
  <2>6. PICK x \in s : x = Picked(s)
    BY <2>5 DEF Picked
  <2>7. PICK t \in SUBSET D : t = s \ {x}
    BY <2>4
  <2>8. Cardinality(t) = Cardinality(s) - 1
    BY <2>3, <2>7, FS_RemoveElement
  <2>9. t \notin B
    <3>1. t \in B => Cardinality(s) <= Cardinality(t)
      BY <2>2
    <3> QED
      BY <2>3, <2>8, <3>1
  <2>10. g[t] \in Int /\ f[x] \in Int
    BY <1>1, <2>1, <2>4, <2>9
  <2> QED
    BY <2>4, <2>5, <2>6, <2>7, <2>10 DEF Sums
<1> QED
  BY <1>3, <1>6

-----------------------------------------------------------------------------
(* Few relabelings are as extreme as few.  Whatever a statistic measures,  *)
(* at most k of finitely many relabelings are met or exceeded by at most k.*)

LEMMA FewAreExtreme ==
  ASSUME NEW R, IsFiniteSet(R), NEW m \in [R -> Nat], NEW k \in Nat
  PROVE  Cardinality({S \in R : Cardinality({T \in R : m[T] >= m[S]}) <= k}) <= k
<1>1. PICK L : L = {S \in R : Cardinality({T \in R : m[T] >= m[S]}) <= k}
  OBVIOUS
<1> SUFFICES Cardinality(L) <= k
  BY <1>1
<1>2. CASE L = {}
  <2>1. Cardinality(L) = 0
    BY <1>2, FS_EmptySet
  <2> QED
    BY <2>1
<1>3. CASE L # {}
  <2>1. PICK N : N = {m[S] : S \in L}
    OBVIOUS
  <2>2. N \subseteq Nat /\ N # {}
    BY <1>1, <1>3, <2>1
  <2>3. PICK least \in N : \A n \in N : least <= n
    BY <2>2, LeastNatural
  <2>4. PICK S \in L : \A T \in L : m[S] <= m[T]
    BY <2>1, <2>3
  <2>5. PICK X : X = {T \in R : m[T] >= m[S]}
    OBVIOUS
  <2>6. L \subseteq X
    BY <1>1, <2>4, <2>5
  <2>7. IsFiniteSet(X) /\ Cardinality(X) \in Nat /\ Cardinality(X) <= k
    <3>1. Cardinality(X) <= k
      BY <1>1, <2>4, <2>5
    <3>2. IsFiniteSet(X)
      BY <2>5, FS_Subset
    <3> QED
      BY <3>1, <3>2, FS_CardinalityType
  <2>8. Cardinality(L) <= Cardinality(X) /\ Cardinality(L) \in Nat
    BY <2>6, <2>7, FS_Subset, FS_CardinalityType
  <2> QED
    BY <1>1, <2>7, <2>8
<1> QED
  BY <1>2, <1>3

-----------------------------------------------------------------------------
(* The test that enumerates                                                *)

(* What is analysed of an observed study: finitely many rows in strata     *)
(* that, in blocks, hold both arms.                                        *)
Testable(A) ==
  /\ A = [rows |-> A.rows, groups |-> A.groups, treated |-> A.treated, ones |-> A.ones]
  /\ IsFiniteSet(A.rows) /\ IsFiniteSet(A.groups) /\ A.treated \subseteq A.rows
  /\ \A B \in A.groups : B \subseteq A.rows
  /\ study.design = "block" =>
       \A B \in A.groups : B \cap A.treated # {} /\ B \ A.treated # {}

LEMMA DifferenceIsInteger ==
  ASSUME NEW T, NEW C, NEW ones, IsFiniteSet(T), IsFiniteSet(C)
  PROVE  Difference(T, C, ones) \in Int
<1>1. /\ Cardinality(T) \in Nat /\ Cardinality(C) \in Nat
      /\ Cardinality(T \cap ones) \in Nat /\ Cardinality(C \cap ones) \in Nat
  BY FS_Intersection, FS_CardinalityType
<1> QED
  BY <1>1 DEF Difference

LEMMA EffectIsInteger ==
  ASSUME NEW A, Testable(A), NEW T \in Relabelings(A)
  PROVE  Effect(T, A) \in Int
<1>1. IsFiniteSet(T) /\ IsFiniteSet(A.rows \ T)
  BY FS_Subset DEF Testable, Relabelings
<1>2. CASE study.design # "block"
  BY <1>1, <1>2, DifferenceIsInteger DEF Effect
<1>3. CASE study.design = "block"
  <2> DEFINE nT(B) == Cardinality(T \cap B)
             nC(B) == Cardinality(B \ T)
             part(B) == (Min({nT(B), nC(B)}) * 36 * Difference(T \cap B, B \ T, A.ones))
                          \div (nT(B) * nC(B))
  <2>1. ASSUME NEW B \in A.groups PROVE part(B) \in Int
    <3>1. IsFiniteSet(B) /\ IsFiniteSet(B \cap A.treated) /\ IsFiniteSet(T \cap B) /\ IsFiniteSet(B \ T)
          /\ IsFiniteSet(B \ A.treated)
      <4>1. IsFiniteSet(B)
        BY FS_Subset DEF Testable
      <4> QED
        BY <4>1, FS_Intersection, FS_Difference
    <3>2. nT(B) = Cardinality(A.treated \cap B)
      BY DEF Relabelings
    <3>3. nT(B) \in Nat \ {0}
      <4>1. A.treated \cap B # {} /\ IsFiniteSet(A.treated \cap B)
        BY <1>3, <3>1, FS_Intersection DEF Testable
      <4> QED
        BY <3>2, <4>1, FS_CardinalityType, FS_EmptySet
    <3>4. nC(B) \in Nat \ {0}
      <4>1. nC(B) = Cardinality(B) - Cardinality(B \cap T)
        BY <3>1, FS_Difference
      <4>2. Cardinality(B \ A.treated) = Cardinality(B) - Cardinality(B \cap A.treated)
        BY <3>1, FS_Difference
      <4>3. B \cap T = T \cap B /\ B \cap A.treated = A.treated \cap B
        OBVIOUS
      <4>4. nC(B) = Cardinality(B \ A.treated)
        BY <3>2, <4>1, <4>2, <4>3
      <4>5. B \ A.treated # {}
        BY <1>3 DEF Testable
      <4> QED
        BY <3>1, <4>4, <4>5, FS_CardinalityType, FS_EmptySet
    <3>5. PICK x \in Nat \ {0}, y \in Nat \ {0} : x = nT(B) /\ y = nC(B)
      BY <3>3, <3>4
    <3>6. Min({x, y}) \in Int
      <4>1. (x <= x /\ x <= y) \/ (y <= x /\ y <= y)
        OBVIOUS
      <4>2. \E m \in {x, y} : \A k \in {x, y} : m <= k
        BY <4>1
      <4> QED
        BY <4>2 DEF Min
    <3>7. Difference(T \cap B, B \ T, A.ones) \in Int
      BY <3>1, DifferenceIsInteger
    <3>8. PICK u \in Int : u = Min({x, y}) * 36 * Difference(T \cap B, B \ T, A.ones)
      BY <3>6, <3>7
    <3>9. PICK v \in Nat \ {0} : v = x * y
      BY Positive
    <3>10. u \div v \in Int
      OBVIOUS
    <3> QED
      BY <3>5, <3>8, <3>9, <3>10
  <2> HIDE DEF part
  <2>2. PICK f : f = [B \in A.groups |-> part(B)]
    OBVIOUS
  <2>3. SumFunction(f) \in Int
    BY <2>1, <2>2, SumIsInteger DEF Testable
  <2>4. Effect(T, A) = SumFunction([B \in A.groups |-> part(B)])
    BY <1>3 DEF Effect, part
  <2> QED
    BY <2>2, <2>3, <2>4
<1> QED
  BY <1>2, <1>3

(* Relabelings and their effects are the same whichever was observed.      *)
LEMMA SameOrbit ==
  ASSUME NEW A, Testable(A), NEW S \in Relabelings(A), NEW L, L = [A EXCEPT !.treated = S]
  PROVE  /\ Relabelings(L) = Relabelings(A) /\ L.treated = S
         /\ \A T : Effect(T, L) = Effect(T, A)
<1>1. L.rows = A.rows /\ L.groups = A.groups /\ L.ones = A.ones /\ L.treated = S
  BY DEF Testable
<1>2. Relabelings(L) = Relabelings(A)
  BY <1>1 DEF Relabelings
<1>3. ASSUME NEW T PROVE Effect(T, L) = Effect(T, A)
  BY <1>1 DEF Effect
<1> QED
  BY <1>1, <1>2, <1>3

LEMMA ExtremesAreFew ==
  ASSUME NEW A, Testable(A), NEW k \in Nat
  PROVE  Cardinality({S \in Relabelings(A) : Extremes([A EXCEPT !.treated = S]) <= k}) <= k
<1>1. PICK R : R = Relabelings(A)
  OBVIOUS
<1>2. PICK m : m = [T \in R |-> Magnitude(Effect(T, A))]
  OBVIOUS
<1>3. m \in [R -> Nat]
  <2>1. \A T \in R : Effect(T, A) \in Int
    BY <1>1, EffectIsInteger
  <2> QED
    BY <1>2, <2>1 DEF Magnitude
<1>4. ASSUME NEW S \in R
      PROVE  Extremes([A EXCEPT !.treated = S]) = Cardinality({T \in R : m[T] >= m[S]})
  <2>1. PICK L : L = [A EXCEPT !.treated = S]
    OBVIOUS
  <2>2. Relabelings(L) = R /\ L.treated = S /\ \A T : Effect(T, L) = Effect(T, A)
    BY <1>1, <2>1, SameOrbit
  <2>3. {T \in Relabelings(L) : IsExtreme(Effect(T, L), Effect(L.treated, L))}
          = {T \in R : m[T] >= m[S]}
    BY <1>2, <2>2 DEF IsExtreme
  <2> QED
    BY <2>1, <2>3 DEF Extremes
<1>5. IsFiniteSet(R)
  <2>1. R \subseteq SUBSET A.rows
    BY <1>1 DEF Relabelings
  <2> QED
    BY <2>1, FS_SUBSET, FS_Subset DEF Testable
<1>6. Cardinality({S \in R : Cardinality({T \in R : m[T] >= m[S]}) <= k}) <= k
  BY <1>3, <1>5, FewAreExtreme
<1>7. {S \in R : Extremes([A EXCEPT !.treated = S]) <= k}
        = {S \in R : Cardinality({T \in R : m[T] >= m[S]}) <= k}
  BY <1>4
<1> QED
  BY <1>1, <1>6, <1>7

LEMMA AnalysedIsTestable ==
  ASSUME IsFiniteSet(Ordinals), NEW c, c[1] # c[2]
  PROVE  Testable(Analysed(c))
<1> DEFINE groups(rows) == {{o \in rows : Stratum(o) = g} : g \in {Stratum(o) : o \in rows}}
<1>1. PICK V : V = {o \in Relevant(c) : HasValue(o)}
  OBVIOUS
<1>2. PICK K : K = {B \in groups(V) : {plan[o].arm : o \in B} = {c[1], c[2]}}
  OBVIOUS
<1>3. PICK W : W = IF study.design = "full_factorial" THEN V ELSE UNION K
  OBVIOUS
<1>4. Analysed(c) = [rows |-> W, groups |-> groups(W), treated |-> {o \in W : plan[o].arm = c[1]},
                     ones |-> {o \in W : Value(o) = 1}]
  BY <1>1, <1>2, <1>3 DEF Analysed
<1>5. UNION K \subseteq V
  BY <1>2
<1>6. W \subseteq Ordinals /\ IsFiniteSet(W)
  <2>1. W \subseteq Ordinals
    BY <1>1, <1>3, <1>5 DEF Relevant
  <2> QED
    BY <2>1, FS_Subset
<1>7. groups(W) \subseteq SUBSET W
  OBVIOUS
<1>8. IsFiniteSet(groups(W))
  <2>1. IsFiniteSet(SUBSET W)
    BY <1>6, FS_SUBSET
  <2> QED
    BY <1>7, <2>1, FS_Subset
<1>9. ASSUME study.design = "block", NEW B \in groups(W)
      PROVE  (\E o \in B : plan[o].arm = c[1]) /\ (\E o \in B : plan[o].arm = c[2])
  <2>1. PICK o \in W : B = {i \in W : Stratum(i) = Stratum(o)}
    BY <1>9
  <2>2. PICK D \in K : o \in D
    BY <1>3, <1>9, <2>1
  <2>3. PICK g : D = {i \in V : Stratum(i) = g}
    BY <1>2, <2>2
  <2>4. D \subseteq W
    BY <1>3, <1>9, <2>2
  <2>5. D \subseteq B
    BY <2>1, <2>2, <2>3, <2>4
  <2>6. {plan[i].arm : i \in D} = {c[1], c[2]}
    BY <1>2, <2>2
  <2> QED
    BY <2>5, <2>6
<1>10. PICK T : T = {o \in W : plan[o].arm = c[1]}
  OBVIOUS
<1>11. ASSUME study.design = "block", NEW B \in groups(W) PROVE B \cap T # {} /\ B \ T # {}
  <2>1. B \subseteq W
    BY <1>7, <1>11
  <2> QED
    BY <1>9, <1>10, <1>11, <2>1
<1> HIDE DEF groups
<1> QED
  BY <1>4, <1>6, <1>7, <1>8, <1>10, <1>11 DEF Testable

-----------------------------------------------------------------------------
(* The analysis of an observed study                                       *)

Groups(rows) == {{o \in rows : Stratum(o) = g} : g \in {Stratum(o) : o \in rows}}
BothArms(c, B) == {plan[o].arm : o \in B} = {c[1], c[2]}

LEMMA SameAnalysis ==
  ASSUME UNCHANGED <<study, plan, valid, data>>, NEW c
  PROVE  AnalyseContrast(c)' = AnalyseContrast(c)
<1>1. /\ \A o : HasValue(o)' = HasValue(o) /\ Value(o)' = Value(o) /\ Stratum(o)' = Stratum(o)
      /\ Relevant(c)' = Relevant(c)
  BY DEF HasValue, Value, Policy, Stratum, Relevant, Ordinals
<1>2. Analysed(c)' = Analysed(c)
  <2>1. PICK V : V = {o \in Relevant(c) : HasValue(o)}
    OBVIOUS
  <2>2. V = {o \in Relevant(c) : HasValue(o)}'
    BY <1>1, <2>1
  <2>3. ASSUME NEW rows
        PROVE  Groups(rows)' = Groups(rows) /\ BothArms(c, rows)' = BothArms(c, rows)
    BY <1>1 DEF Groups, BothArms
  <2>4. PICK W : W = IF study.design = "full_factorial" THEN V
                     ELSE UNION {B \in Groups(V) : BothArms(c, B)}
    OBVIOUS
  <2>5. Groups(V)' = Groups(V) /\ Groups(W)' = Groups(W)
    BY <2>3
  <2>6. W = (IF study.design = "full_factorial" THEN V
             ELSE UNION {B \in Groups(V) : BothArms(c, B)})'
    BY <2>3, <2>4, <2>5
  <2>7. {o \in W : plan[o].arm = c[1]}' = {o \in W : plan[o].arm = c[1]}
        /\ {o \in W : Value(o) = 1}' = {o \in W : Value(o) = 1}
    BY <1>1
  <2>8. Analysed(c) = [rows |-> W, groups |-> Groups(W), treated |-> {o \in W : plan[o].arm = c[1]},
                       ones |-> {o \in W : Value(o) = 1}]
    BY <2>1, <2>4 DEF Analysed, Groups, BothArms
  <2>9. Analysed(c)' = [rows |-> W, groups |-> Groups(W), treated |-> {o \in W : plan[o].arm = c[1]},
                        ones |-> {o \in W : Value(o) = 1}]'
    BY <2>2, <2>6 DEF Analysed, Groups, BothArms
  <2> QED
    BY <2>5, <2>7, <2>8, <2>9
<1>3. ASSUME NEW A PROVE Relabelings(A)' = Relabelings(A) /\ Extremes(A)' = Extremes(A)
  BY DEF Relabelings, Extremes, Effect
<1>4. ASSUME NEW A PROVE PValues(A)' = PValues(A)
  BY <1>3 DEF PValues, Exact, Drawn
<1>5. NothingCensored(c)' = NothingCensored(c)
  BY <1>1 DEF NothingCensored, Lost
<1> QED
  BY <1>1, <1>2, <1>4, <1>5 DEF AnalyseContrast

(* Results are those AnalyseContrast gives for the plan and data at hand.  *)
StatInv ==
  /\ stage \in {"compiled", "observed"} => \A c \in study.contrasts : c[1] # c[2]
  /\ DOMAIN results # {} => stage = "analysed" /\ IsFiniteSet(Ordinals)
  /\ IsFiniteSet(DOMAIN results)
  /\ \A c \in DOMAIN results : c[1] # c[2] /\ results[c] \in AnalyseContrast(c)

LEMMA StepStat == StudyInv /\ DataInv /\ StatInv /\ [Next]_vars => StatInv'
<1> SUFFICES ASSUME StudyInv, DataInv, StatInv, [Next]_vars PROVE StatInv'
  OBVIOUS
<1>1. CASE UNCHANGED vars
  BY <1>1, SameAnalysis DEF vars, StatInv, Ordinals
<1>2. ASSUME UNCHANGED results, stage # "analysed"
      PROVE  /\ DOMAIN results' = {} /\ IsFiniteSet(DOMAIN results')
  BY <1>2, FS_EmptySet DEF StatInv
<1>3. CASE (Load \/ NoConditions) /\ UNCHANGED <<data, results>>
  BY <1>2, <1>3 DEF Load, NoConditions, StatInv
<1>4. CASE Seeded /\ UNCHANGED <<data, results>>
  <2>1. stage = "accepted" /\ UNCHANGED study
    BY <1>4 DEF Seeded, Compile
  <2>2. \A c \in study.contrasts : c[1] # c[2]
    BY <2>1 DEF StudyInv, Accepts, AcceptsUnbalanced
  <2> QED
    BY <1>2, <1>4, <2>1, <2>2 DEF StatInv
<1>5. CASE Observe
  BY <1>2, <1>5 DEF Observe, StatInv
<1>6. CASE Analyse
  <2>1. stage = "observed" /\ UNCHANGED <<study, plan, valid, data>>
    BY <1>6 DEF Analyse
  <2>2. \A c : AnalyseContrast(c)' = AnalyseContrast(c)
    BY <2>1, SameAnalysis
  <2>3. CASE Raises
    BY <1>2, <1>6, <2>1, <2>3 DEF Analyse, StatInv
  <2>4. CASE ~Raises
    <3>1. stage' = "analysed" /\ DOMAIN results' = study.contrasts
          /\ \A c \in study.contrasts : results'[c] \in AnalyseContrast(c)
      BY <1>6, <2>4 DEF Analyse
    <3>2. \A c \in study.contrasts : c[1] # c[2]
      BY <2>1 DEF StatInv
    <3>3. IsFiniteSet(study.contrasts)
      BY DraftsAssumption DEF StudyInv
    <3>4. IsFiniteSet(Ordinals)'
      BY <2>1 DEF DataInv, SoundPlan, Ordinals
    <3> QED
      BY <2>2, <3>1, <3>2, <3>3, <3>4 DEF StatInv
  <2> QED
    BY <2>3, <2>4
<1> QED
  BY <1>1, <1>3, <1>4, <1>5, <1>6 DEF Next, Design

LEMMA StatInvHolds == Spec => [](StudyInv /\ StatInv)
<1>1. Init => DataInv /\ StatInv
  BY FS_EmptySet DEF Init, DesignInit, DataInv, StatInv, ConfirmatoryMeansNothingLost
<1> QED
  BY <1>1, StepData, StepStat, StudyInvHolds, PTL DEF Spec

LEMMA StudyIsADraft == StudyInv => study.permutations \in Nat \ {0}
  BY DraftsAssumption DEF StudyInv

LEMMA ReportedHolds == StudyInv /\ StatInv => Reported
<1> SUFFICES ASSUME StudyInv, StatInv PROVE Reported
  OBVIOUS
<1>1. ASSUME NEW c \in DOMAIN results PROVE results[c].p \in Fraction
  BY <1>1, ContrastReportsFraction, StudyIsADraft DEF StatInv
<1> QED
  BY <1>1 DEF StatInv, Reported

(* Holm's adjustment, as holm_adjust computes it by a running maximum over *)
(* the sorted p-values and a cap at one, is the closed test built from     *)
(* Bonferroni's, for every number of contrasts and all p-values, at the    *)
(* levels where either can change...                                       *)
THEOREM HolmIsClosedTestingHolds == Spec => []HolmIsClosedTesting
<1>1. StudyInv /\ StatInv => HolmIsClosedTesting
  BY ReportedHolds, ClosedIfReported
<1> QED
  BY <1>1, StatInvHolds, PTL

(* ... and at every other level below one.                                 *)
THEOREM HolmIsClosedTestingEverywhereHolds == Spec => []HolmIsClosedTestingEverywhere
<1>1. StudyInv /\ StatInv => HolmIsClosedTestingEverywhere
  BY ReportedHolds, ClosedIfReported
<1> QED
  BY <1>1, StatInvHolds, PTL

(* A test that enumerates its relabelings keeps its level: of all labels   *)
(* the strata allow, no larger share than the reported p-value would have  *)
(* given one as small.  For every design, every data, every number of rows.*)
THEOREM EnumeratedTestIsValidHolds == Spec => []EnumeratedTestIsValid
<1>1. StudyInv /\ StatInv => EnumeratedTestIsValid
  <2> SUFFICES ASSUME StudyInv, StatInv, NEW c \in Completed(results), NEW A, A = Analysed(c)
               PROVE  /\ A.treated \in Relabelings(A)
                      /\ Exact(A) =>
                           /\ results[c].p[2] = Cardinality(Relabelings(A))
                           /\ Cardinality({S \in Relabelings(A) :
                                Extremes([A EXCEPT !.treated = S]) <= results[c].p[1]})
                                  <= results[c].p[1]
    BY DEF EnumeratedTestIsValid
  <2>1. c \in DOMAIN results /\ results[c].status = "completed"
    BY DEF Completed
  <2>2. Testable(A) /\ results[c] \in AnalyseContrast(c)
    BY <2>1, AnalysedIsTestable DEF StatInv
  <2>3. A.treated \in Relabelings(A)
    BY <2>2 DEF Testable, Relabelings
  <2>4. ASSUME Exact(A) PROVE results[c].p = <<Extremes(A), Cardinality(Relabelings(A))>>
    <3>1. results[c].p \in PValues(A)
      BY <2>1, <2>2 DEF AnalyseContrast
    <3> QED
      BY <2>4, <3>1 DEF PValues
  <2>5. results[c].p \in Fraction
    BY <2>1, ContrastReportsFraction, StudyIsADraft DEF StatInv
  <2>6. ASSUME NEW k \in Nat
        PROVE  Cardinality({S \in Relabelings(A) : Extremes([A EXCEPT !.treated = S]) <= k}) <= k
    BY <2>2, ExtremesAreFew
  <2>7. results[c].p[1] \in Nat
    BY <2>5 DEF Fraction
  <2> QED
    BY <2>3, <2>4, <2>6, <2>7
<1> QED
  BY <1>1, StatInvHolds, PTL

-----------------------------------------------------------------------------
(* The test that draws.  Observed labels and draws are alike, so any of    *)
(* them might have been the observed one; but few of them are met or       *)
(* exceeded by as few of the others.                                       *)

LEMMA FunctionsAreFinite ==
  ASSUME NEW D, IsFiniteSet(D), NEW R, IsFiniteSet(R)
  PROVE  IsFiniteSet([D -> R])
<1>1. PICK e : e = [f \in [D -> R] |-> {<<i, f[i]>> : i \in D}]
  OBVIOUS
<1>2. IsFiniteSet(SUBSET (D \X R))
  BY FS_Product, FS_SUBSET
<1>3. e \in [[D -> R] -> SUBSET (D \X R)]
  BY <1>1
<1>4. ASSUME NEW f \in [D -> R], NEW g \in [D -> R], e[f] = e[g] PROVE f = g
  <2>1. ASSUME NEW i \in D PROVE f[i] = g[i]
    <3>1. <<i, f[i]>> \in e[g]
      BY <1>1, <1>4
    <3> QED
      BY <1>1, <3>1
  <2> QED
    BY <2>1
<1>5. e \in Injection([D -> R], SUBSET (D \X R))
  BY <1>3, <1>4 DEF Injection, IsInjective
<1> QED
  BY <1>2, <1>5, FS_Injection

(* Counting pairs two ways.                                                *)
LEMMA PairsAtMost ==
  ASSUME NEW X, IsFiniteSet(X), NEW Y, IsFiniteSet(Y), NEW P \in SUBSET (X \X Y), NEW d \in Nat,
         NEW F, \A y \in Y : /\ F[y] \in SUBSET X /\ Cardinality(F[y]) <= d
                           /\ \A x \in X : <<x, y>> \in P => x \in F[y]
  PROVE  IsFiniteSet(P) /\ Cardinality(P) <= Cardinality(Y) * d
<1>1. ASSUME NEW y \in Y PROVE Injection(F[y], 1..d) # {}
  <2>1. PICK S : S = F[y]
    OBVIOUS
  <2>2. S \in SUBSET X /\ Cardinality(S) <= d
    BY <2>1
  <2>3. IsFiniteSet(S) /\ Cardinality(S) \in Nat
    BY <2>2, FS_Subset, FS_CardinalityType
  <2>4. PICK c \in Nat : c = Cardinality(S)
    BY <2>3
  <2>5. IsFiniteSet(1..c) /\ Cardinality(1..c) = c
    BY FS_Interval
  <2>6. PICK h : h \in Bijection(S, 1..c)
    BY <2>3, <2>4, <2>5, FS_SameCardinalityBij DEF ExistsBijection
  <2>7. h \in [S -> 1..c] /\ IsInjective(h)
    BY <2>6 DEF Bijection, Injection
  <2>8. c <= d
    BY <2>2, <2>4
  <2>9. h \in [S -> 1..d]
    BY <2>7, <2>8
  <2> QED
    BY <2>1, <2>7, <2>9 DEF Injection
<1>2. PICK g : g = [y \in Y |-> CHOOSE h : h \in Injection(F[y], 1..d)]
  OBVIOUS
<1>3. ASSUME NEW y \in Y PROVE g[y] \in Injection(F[y], 1..d)
  <2>1. PICK h : h \in Injection(F[y], 1..d)
    BY <1>1
  <2>2. g[y] = CHOOSE k : k \in Injection(F[y], 1..d)
    BY <1>2
  <2> QED
    BY <2>1, <2>2
<1>4. PICK e : e = [q \in P |-> <<q[2], g[q[2]][q[1]]>>]
  OBVIOUS
<1>5. ASSUME NEW q \in P PROVE q[2] \in Y /\ q[1] \in F[q[2]] /\ q = <<q[1], q[2]>>
  OBVIOUS
<1>6. ASSUME NEW q \in P PROVE e[q] \in Y \X (1..d)
  <2>1. g[q[2]] \in [F[q[2]] -> 1..d]
    BY <1>3, <1>5 DEF Injection
  <2> QED
    BY <1>4, <1>5, <2>1
<1>7. ASSUME NEW q \in P, NEW r \in P, e[q] = e[r] PROVE q = r
  <2>1. q[2] = r[2] /\ g[q[2]][q[1]] = g[q[2]][r[1]]
    BY <1>4, <1>7
  <2>2. q[1] \in F[q[2]] /\ r[1] \in F[q[2]]
    BY <1>5, <2>1
  <2>3. g[q[2]] \in [F[q[2]] -> 1..d] /\ IsInjective(g[q[2]])
    BY <1>3, <1>5 DEF Injection
  <2>4. q[1] = r[1]
    BY <2>1, <2>2, <2>3 DEF IsInjective
  <2> QED
    BY <1>5, <2>1, <2>4
<1>8. e \in Injection(P, Y \X (1..d))
  <2>1. e \in [P -> Y \X (1..d)]
    BY <1>4, <1>6
  <2> QED
    BY <1>7, <2>1 DEF Injection, IsInjective
<1>9. IsFiniteSet(1..d) /\ Cardinality(1..d) = d
  BY FS_Interval
<1>10. IsFiniteSet(Y \X (1..d)) /\ Cardinality(Y \X (1..d)) = Cardinality(Y) * d
  BY <1>9, FS_Product
<1> QED
  BY <1>8, <1>10, FS_Injection

LEMMA PairsAtLeast ==
  ASSUME NEW X, IsFiniteSet(X), NEW P, IsFiniteSet(P), NEW Q, IsFiniteSet(Q),
         NEW e \in Injection(X \X Q, P)
  PROVE  Cardinality(X) * Cardinality(Q) <= Cardinality(P)
BY FS_Injection, FS_Product

(* How many of the others meet or exceed the one at l.                     *)
Rivals(x, m, n, l) == {i \in (0..n) \ {l} : m[x[i]] >= m[x[l]]}
FewRivals(x, m, n, k) == {l \in 0..n : Cardinality(Rivals(x, m, n, l)) <= k}
Exchanged(x, n, l) == [i \in 0..n |-> x[IF i = 0 THEN l ELSE IF i = l THEN 0 ELSE i]]

LEMMA ExchangeIsUndone ==
  ASSUME NEW R, NEW n \in Nat, NEW l \in 0..n, NEW x \in [0..n -> R]
  PROVE  /\ Exchanged(x, n, l) \in [0..n -> R]
         /\ Exchanged(Exchanged(x, n, l), n, l) = x
<1>1. PICK y : y = Exchanged(x, n, l)
  OBVIOUS
<1> QED
  BY <1>1 DEF Exchanged

LEMMA ExchangeKeepsRivals ==
  ASSUME NEW R, NEW m \in [R -> Nat], NEW n \in Nat, NEW l \in 0..n, NEW x \in [0..n -> R]
  PROVE  Cardinality(Rivals(Exchanged(x, n, l), m, n, l)) = Cardinality(Rivals(x, m, n, 0))
<1>0. PICK y : y = Exchanged(x, n, l)
  OBVIOUS
<1>2. PICK S, T : S = Rivals(x, m, n, 0) /\ T = Rivals(y, m, n, l)
  OBVIOUS
<1>3. PICK b : b = [i \in S |-> IF i = l THEN 0 ELSE i]
  OBVIOUS
<1>4. \A i \in S : i \in 0..n /\ i # 0 /\ m[x[i]] >= m[x[0]]
  BY <1>2 DEF Rivals
<1>5. y[l] = x[0] /\ y[0] = x[l] /\ \A i \in 0..n : i # 0 /\ i # l => y[i] = x[i]
  BY <1>0 DEF Exchanged
<1>6. ASSUME NEW i \in S PROVE b[i] \in T
  BY <1>2, <1>3, <1>4, <1>5 DEF Rivals
<1>7. ASSUME NEW j \in T PROVE \E i \in S : b[i] = j
  <2>1. j \in 0..n /\ j # l /\ m[y[j]] >= m[y[l]]
    BY <1>2 DEF Rivals
  <2>2. CASE j = 0
    <3>1. l \in S
      BY <1>2, <1>5, <2>1, <2>2 DEF Rivals
    <3> QED
      BY <1>3, <2>2, <3>1
  <2>3. CASE j # 0
    <3>1. j \in S
      BY <1>2, <1>5, <2>1, <2>3 DEF Rivals
    <3> QED
      BY <1>3, <2>1, <3>1
  <2> QED
    BY <2>2, <2>3
<1>8. \A i, j \in S : b[i] = b[j] => i = j
  BY <1>3, <1>4
<1>9. b \in Bijection(S, T)
  <2>1. b \in [S -> T]
    BY <1>3, <1>6
  <2> QED
    BY <1>7, <1>8, <2>1 DEF Bijection, Injection, Surjection, IsInjective
<1>10. IsFiniteSet(S)
  <2>1. S \in SUBSET (0..n)
    BY <1>4
  <2>2. IsFiniteSet(0..n)
    BY FS_Interval
  <2> QED
    BY <2>1, <2>2, FS_Subset
<1> QED
  BY <1>0, <1>2, <1>9, <1>10, FS_Bijection DEF ExistsBijection

LEMMA FewHaveFewRivals ==
  ASSUME NEW R, NEW m \in [R -> Nat], NEW n \in Nat, NEW k \in Nat, NEW x \in [0..n -> R]
  PROVE  Cardinality(FewRivals(x, m, n, k)) <= k + 1
<1>1. PICK w : w = [i \in 0..n |-> m[x[i]]]
  OBVIOUS
<1>2. w \in [0..n -> Nat] /\ IsFiniteSet(0..n)
  BY <1>1, FS_Interval
<1>3. Cardinality({l \in 0..n : Cardinality({i \in 0..n : w[i] >= w[l]}) <= k + 1}) <= k + 1
  <2>1. k + 1 \in Nat
    OBVIOUS
  <2> QED
    BY <1>2, <2>1, FewAreExtreme
<1>4. ASSUME NEW l \in 0..n
      PROVE  Cardinality({i \in 0..n : w[i] >= w[l]}) = Cardinality(Rivals(x, m, n, l)) + 1
             /\ Cardinality(Rivals(x, m, n, l)) \in Nat
  <2>1. PICK S : S = Rivals(x, m, n, l)
    OBVIOUS
  <2>2. S \in SUBSET (0..n) /\ l \notin S
    BY <2>1 DEF Rivals
  <2>3. IsFiniteSet(S)
    BY <1>2, <2>2, FS_Subset
  <2>4. {i \in 0..n : w[i] >= w[l]} = S \cup {l}
    BY <1>1, <1>2, <2>1 DEF Rivals
  <2> QED
    BY <2>1, <2>2, <2>3, <2>4, FS_AddElement, FS_CardinalityType
<1>5. PICK Z : Z = {l \in 0..n : Cardinality({i \in 0..n : w[i] >= w[l]}) <= k + 1}
  OBVIOUS
<1>6. \A l \in 0..n : Cardinality(Rivals(x, m, n, l)) <= k <=> l \in Z
  BY <1>4, <1>5
<1>7. FewRivals(x, m, n, k) = Z
  BY <1>5, <1>6 DEF FewRivals
<1> QED
  BY <1>3, <1>5, <1>7

(* Among the n + 1, the observed one ranks as high as k + 1 at most that   *)
(* often.                                                                  *)
LEMMA DrawsAreFair ==
  ASSUME NEW R, IsFiniteSet(R), NEW m \in [R -> Nat], NEW n \in Nat, NEW k \in Nat,
         NEW W, W = [0..n -> R], NEW Q \in SUBSET W,
         \A x \in Q : Cardinality(Rivals(x, m, n, 0)) <= k
  PROVE  /\ Cardinality(W) \in Nat /\ Cardinality(Q) \in Nat
         /\ (n + 1) * Cardinality(Q) <= Cardinality(W) * (k + 1)
<1>1. IsFiniteSet(0..n) /\ Cardinality(0..n) = n + 1
  BY FS_Interval
<1>2. IsFiniteSet(W) /\ IsFiniteSet(Q)
  <2>1. IsFiniteSet(W)
    BY <1>1, FunctionsAreFinite
  <2> QED
    BY <2>1, FS_Subset
<1>3. PICK P : P = {u \in (0..n) \X W : Cardinality(Rivals(u[2], m, n, u[1])) <= k}
  OBVIOUS
<1>4. ASSUME NEW x \in W
      PROVE  Cardinality({l \in 0..n : <<l, x>> \in P}) <= k + 1
  <2>1. {l \in 0..n : <<l, x>> \in P} = FewRivals(x, m, n, k)
    BY <1>3 DEF FewRivals
  <2>2. x \in [0..n -> R]
    OBVIOUS
  <2>3. Cardinality(FewRivals(x, m, n, k)) <= k + 1
    BY <2>2, FewHaveFewRivals
  <2> QED
    BY <2>1, <2>3
<1>5. IsFiniteSet(P) /\ Cardinality(P) <= Cardinality(W) * (k + 1)
  <2>1. PICK D : D = 0..n
    OBVIOUS
  <2>2. PICK d \in Nat : d = k + 1
    OBVIOUS
  <2>3. PICK F : F = [x \in W |-> {l \in D : <<l, x>> \in P}]
    OBVIOUS
  <2>4. IsFiniteSet(D) /\ P \in SUBSET (D \X W)
    BY <1>1, <1>3, <2>1
  <2>5. ASSUME NEW x \in W
        PROVE  /\ F[x] \in SUBSET D /\ Cardinality(F[x]) <= d
               /\ \A l \in D : <<l, x>> \in P => l \in F[x]
    <3>1. F[x] = {l \in 0..n : <<l, x>> \in P}
      BY <2>1, <2>3
    <3> QED
      BY <1>4, <2>1, <2>2, <3>1
  <2>6. IsFiniteSet(P) /\ Cardinality(P) <= Cardinality(W) * d
    BY <1>2, <2>4, <2>5, PairsAtMost, Zenon
  <2> QED
    BY <2>2, <2>6
<1>6. PICK e : e = [u \in (0..n) \X Q |-> <<u[1], Exchanged(u[2], n, u[1])>>]
  OBVIOUS
<1>7. ASSUME NEW l \in 0..n, NEW x \in Q
      PROVE  <<l, Exchanged(x, n, l)>> \in P /\ Exchanged(Exchanged(x, n, l), n, l) = x
  <2>1. x \in [0..n -> R]
    OBVIOUS
  <2>2. Exchanged(x, n, l) \in [0..n -> R] /\ Exchanged(Exchanged(x, n, l), n, l) = x
    BY <2>1, ExchangeIsUndone
  <2>5. Cardinality(Rivals(Exchanged(x, n, l), m, n, l)) = Cardinality(Rivals(x, m, n, 0))
    BY <2>1, ExchangeKeepsRivals
  <2>3. PICK y : y = Exchanged(x, n, l)
    OBVIOUS
  <2> QED
    BY <1>3, <2>2, <2>3, <2>5
<1>8. e \in Injection((0..n) \X Q, P)
  <2>1. e \in [(0..n) \X Q -> P]
    BY <1>6, <1>7
  <2>2. ASSUME NEW u \in (0..n) \X Q, NEW v \in (0..n) \X Q, e[u] = e[v] PROVE u = v
    <3>1. u[1] = v[1] /\ Exchanged(u[2], n, u[1]) = Exchanged(v[2], n, u[1])
      BY <1>6, <2>2
    <3>2. Exchanged(Exchanged(u[2], n, u[1]), n, u[1]) = u[2]
      BY <1>7
    <3>3. Exchanged(Exchanged(v[2], n, v[1]), n, v[1]) = v[2]
      BY <1>7
    <3>4. u[2] = v[2]
      BY <3>1, <3>2, <3>3
    <3> QED
      BY <3>1, <3>4
  <2> QED
    BY <2>1, <2>2 DEF Injection, IsInjective
<1>9. (n + 1) * Cardinality(Q) <= Cardinality(P)
  <2>1. PICK D : D = 0..n
    OBVIOUS
  <2>2. IsFiniteSet(D) /\ e \in Injection(D \X Q, P)
    BY <1>1, <1>8, <2>1
  <2>3. Cardinality(D) * Cardinality(Q) <= Cardinality(P)
    BY <1>2, <1>5, <2>2, PairsAtLeast
  <2> QED
    BY <1>1, <2>1, <2>3
<1>10. PICK q \in Nat, w \in Nat, r \in Nat :
         q = Cardinality(Q) /\ w = Cardinality(W) /\ r = Cardinality(P)
  BY <1>2, <1>5, FS_CardinalityType
<1>11. PICK u \in Int, v \in Int : u = (n + 1) * q /\ v = w * (k + 1)
  OBVIOUS
<1> QED
  BY <1>5, <1>9, <1>10, <1>11

(* A p-value of the test that draws is (k + 1) / (n + 1) for k extreme     *)
(* draws; one at most as large tells of at most as many.                   *)
LEMMA DrawnAtMost ==
  ASSUME study.permutations \in Nat \ {0}, NEW j \in Nat, NEW k \in Nat
  PROVE  AtMost(Drawn(j), Drawn(k)) <=> j <= k
<1>1. PICK d \in Nat \ {0} : d = study.permutations + 1
  OBVIOUS
<1>2. AtMost(Drawn(j), Drawn(k)) <=> (j + 1) * d <= (k + 1) * d
  BY <1>1 DEF AtMost, Drawn
<1>3. (j + 1) * d <= (k + 1) * d => j + 1 <= k + 1
  BY Cancel
<1>4. j + 1 <= k + 1 => d * (k + 1) >= d * (j + 1)
  BY GrowsWithFactor
<1> QED
  BY <1>2, <1>3, <1>4

LEMMA DrawnKeepsItsLevel ==
  ASSUME study.permutations \in Nat \ {0}, NEW A, Testable(A), ~Exact(A), NEW p \in PValues(A)
  PROVE  DrawsKeepLevel(A, p)
<1> DEFINE n == study.permutations
           effect == [S \in Relabelings(A) |-> Effect(S, A)]
           chances == [0..n -> Relabelings(A)]
           extreme(x) == {i \in 1..n : IsExtreme(effect[x[i]], effect[x[0]])}
           least == {x \in chances : AtMost(Drawn(Cardinality(extreme(x))), p)}
<1>1. PICK k \in 0..n : p = Drawn(k)
  BY DEF PValues
<1>2. PICK R : R = Relabelings(A)
  OBVIOUS
<1>3. PICK m : m = [T \in R |-> Magnitude(effect[T])]
  OBVIOUS
<1>4. m \in [R -> Nat]
  <2>1. \A T \in R : effect[T] \in Int
    BY <1>2, EffectIsInteger
  <2> QED
    BY <1>3, <2>1 DEF Magnitude
<1>5. IsFiniteSet(R)
  <2>1. R \subseteq SUBSET A.rows
    BY <1>2 DEF Relabelings
  <2> QED
    BY <2>1, FS_SUBSET, FS_Subset DEF Testable
<1>6. ASSUME NEW x \in least PROVE Cardinality(Rivals(x, m, n, 0)) <= k
  <2>1. (0..n) \ {0} = 1..n /\ \A i \in 0..n : x[i] \in R
    BY <1>2
  <2>2. extreme(x) = Rivals(x, m, n, 0)
    BY <1>3, <2>1 DEF Rivals, IsExtreme
  <2>3. Cardinality(Rivals(x, m, n, 0)) \in Nat
    <3>1. Rivals(x, m, n, 0) \in SUBSET (0..n)
      BY DEF Rivals
    <3>2. IsFiniteSet(0..n)
      BY FS_Interval
    <3> QED
      BY <3>1, <3>2, FS_Subset, FS_CardinalityType
  <2>4. PICK j \in Nat : j = Cardinality(Rivals(x, m, n, 0))
    BY <2>3
  <2>5. AtMost(Drawn(j), Drawn(k)) <=> j <= k
    BY DrawnAtMost
  <2>6. AtMost(Drawn(Cardinality(extreme(x))), p)
    OBVIOUS
  <2> HIDE DEF extreme, least
  <2> QED
    BY <1>1, <2>2, <2>4, <2>5, <2>6
<1>7. PICK W, Q : W = chances /\ Q = least
  OBVIOUS
<1>8. /\ Cardinality(W) \in Nat /\ Cardinality(Q) \in Nat
      /\ (n + 1) * Cardinality(Q) <= Cardinality(W) * (k + 1)
  <2>1. W = [0..n -> R] /\ Q \in SUBSET W
    BY <1>2, <1>7
  <2>2. \A x \in Q : Cardinality(Rivals(x, m, n, 0)) <= k
    BY <1>6, <1>7
  <2>3. n \in Nat /\ k \in Nat
    OBVIOUS
  <2> HIDE DEF n
  <2> QED
    BY <1>4, <1>5, <2>1, <2>2, <2>3, DrawsAreFair
<1>9. p[1] = k + 1 /\ p[2] = n + 1
  BY <1>1 DEF Drawn
<1>10. p[2] * Cardinality(least) <= p[1] * Cardinality(chances)
  <2> HIDE DEF least, chances
  <2> QED
    BY <1>7, <1>8, <1>9
<1> QED
  BY <1>10 DEF DrawsKeepLevel

(* A test that draws keeps its level too: with any of its relabelings as   *)
(* the observed labels and as each draw, all equally likely, it reports a  *)
(* p-value as small as this one with no larger probability.                *)
THEOREM DrawnTestIsValidHolds == Spec => []DrawnTestIsValid
<1>1. StudyInv /\ StatInv => DrawnTestIsValid
  <2> SUFFICES ASSUME StudyInv, StatInv, NEW c \in Completed(results), ~Exact(Analysed(c))
               PROVE  DrawsKeepLevel(Analysed(c), results[c].p)
    BY DEF DrawnTestIsValid
  <2>1. c \in DOMAIN results /\ results[c].status = "completed"
    BY DEF Completed
  <2>2. Testable(Analysed(c)) /\ results[c] \in AnalyseContrast(c)
    BY <2>1, AnalysedIsTestable DEF StatInv
  <2>3. results[c].p \in PValues(Analysed(c))
    BY <2>1, <2>2 DEF AnalyseContrast
  <2> QED
    BY <2>2, <2>3, StudyIsADraft, DrawnKeepsItsLevel
<1> QED
  BY <1>1, StatInvHolds, PTL

(* Together: every test the code makes keeps the level it promises.        *)
THEOREM PermutationTestIsValidHolds == Spec => []PermutationTestIsValid
BY EnumeratedTestIsValidHolds, DrawnTestIsValidHolds, PTL DEF PermutationTestIsValid
=============================================================================

----------------------------- MODULE NumberFacts -----------------------------
(***************************************************************************)
(* The form of induction that the proofs about lists use: a set of numbers *)
(* that is not empty has a least one.                                      *)
(***************************************************************************)
EXTENDS Integers, WellFoundedInduction, TLAPS

LEMMA LeastNumber ==
    ASSUME NEW T, T \subseteq Nat, T # {}
    PROVE  \E n \in T : \A m \in T : n <= m
  <1> DEFINE Smaller == {pair \in Nat \X Nat : pair[1] < pair[2]}
  <1>1. IsWellFoundedOn(Smaller, Nat)
    BY NatLessThanWellFounded DEF OpToRel
  <1>2. PICK n \in T : \A m \in T : <<m, n>> \notin Smaller
    <2> HIDE DEF Smaller
    <2> QED
      BY <1>1, WFMin
  <1>3. \A m \in T : m \in Nat /\ n \in Nat /\ ~ (m < n)
    BY <1>2
  <1> QED
    BY <1>3

(* What holds of 0, and of a number up to the bound if of the one before.  *)
LEMMA HoldsUpTo ==
    ASSUME NEW N \in Nat, NEW S, 0 \in S,
           \A k \in 1 .. N : k - 1 \in S => k \in S
    PROVE  \A k \in 0 .. N : k \in S
  <1> SUFFICES ASSUME NEW j \in 0 .. N, j \notin S
               PROVE  FALSE
    OBVIOUS
  <1>1. PICK k \in {i \in 0 .. N : i \notin S} : \A i \in {i \in 0 .. N : i \notin S} : k <= i
    <2> DEFINE T == {i \in 0 .. N : i \notin S}
    <2>1. T \subseteq Nat /\ T # {}
      OBVIOUS
    <2> QED
      BY <2>1, LeastNumber
  <1>2. k # 0 /\ k - 1 \in 0 .. N
    OBVIOUS
  <1>3. k - 1 \in S
    BY <1>1, <1>2
  <1> QED
    BY <1>1, <1>2, <1>3

(* A recursive function that makes a round after the other exists: a state *)
(* of S each round, if every round leads from S to S.                      *)
Rounds(N, S, init, step) ==
    /\ N \in Nat /\ init \in S
    /\ \A k \in 1 .. N : \A s \in S : step[k][s] \in S

LEMMA RoundsExist ==
    ASSUME NEW N, NEW S, NEW init, NEW step, Rounds(N, S, init, step)
    PROVE  \E f \in [0 .. N -> S] :
               f = [k \in 0 .. N |-> IF k = 0 THEN init ELSE step[k][f[k - 1]]]
  <1> USE DEF Rounds
  <1> DEFINE Good(f, n) ==
                 f[0] = init /\ \A k \in 1 .. n : f[k] = step[k][f[k - 1]]
             Done == {n \in 0 .. N : \E f \in [0 .. N -> S] : Good(f, n)}
  <1>1. 0 \in Done
    <2>1. [k \in 0 .. N |-> init] \in [0 .. N -> S]
      OBVIOUS
    <2>2. Good([k \in 0 .. N |-> init], 0)
      OBVIOUS
    <2> HIDE DEF Good
    <2> QED
      BY <2>1, <2>2
  <1>2. ASSUME NEW n \in 1 .. N, n - 1 \in Done
        PROVE  n \in Done
    <2>1. PICK f \in [0 .. N -> S] : Good(f, n - 1)
      BY <1>2
    <2> DEFINE g == [f EXCEPT ![n] = step[n][f[n - 1]]]
    <2>2. n - 1 \in 0 .. N /\ n \in 0 .. N
      OBVIOUS
    <2>3. g \in [0 .. N -> S]
      BY <2>2
    <2>4. g[n] = step[n][f[n - 1]] /\ \A k \in 0 .. N : k # n => g[k] = f[k]
      BY <2>2
    <2> HIDE DEF g
    <2>5. g[0] = init
      BY <2>1, <2>4
    <2>6. ASSUME NEW k \in 1 .. n
          PROVE  g[k] = step[k][g[k - 1]]
      <3>1. k - 1 \in 0 .. N /\ k - 1 # n /\ k \in 0 .. N
        OBVIOUS
      <3>2. g[k - 1] = f[k - 1]
        BY <2>4, <3>1
      <3>3. CASE k = n
        BY <2>4, <3>2, <3>3
      <3>4. CASE k # n
        <4>1. k \in 1 .. n - 1
          BY <3>4
        <4>2. f[k] = step[k][f[k - 1]]
          BY <2>1, <4>1
        <4> QED
          BY <2>4, <3>1, <3>2, <3>4, <4>2
      <3> QED
        BY <3>3, <3>4
    <2>7. Good(g, n)
      BY <2>5, <2>6
    <2> HIDE DEF Good
    <2> QED
      BY <2>2, <2>3, <2>7
  <1>3. \E f \in [0 .. N -> S] : Good(f, N)
    <2>1. Done = {n \in 0 .. N : \E f \in [0 .. N -> S] : Good(f, n)}
      OBVIOUS
    <2> HIDE DEF Done, Good
    <2>2. N \in Done
      BY <1>1, <1>2, HoldsUpTo
    <2> QED
      BY <2>1, <2>2
  <1>4. PICK f \in [0 .. N -> S] : Good(f, N)
    BY <1>3
  <1>5. ASSUME NEW k \in 0 .. N
        PROVE  f[k] = IF k = 0 THEN init ELSE step[k][f[k - 1]]
    <2>1. k # 0 => k \in 1 .. N
      OBVIOUS
    <2> QED
      BY <1>4, <2>1
  <1>6. f = [k \in 0 .. N |-> IF k = 0 THEN init ELSE step[k][f[k - 1]]]
    <2>1. f = [k \in 0 .. N |-> f[k]]
      OBVIOUS
    <2> HIDE DEF Good
    <2> QED
      BY <1>5, <2>1
  <1> QED
    BY <1>6

(* A recursive function of numbers that goes on to a later number, and     *)
(* ends in E, where every number from N on is, exists.                     *)
GoesOn(N, E, S, base, next, step) ==
    /\ N \in Nat
    /\ \A q \in Nat : q >= N => q \in E
    /\ \A q \in Nat : q \in E => base[q] \in S
    /\ \A q \in Nat : q \notin E =>
          next[q] \in Nat /\ next[q] > q /\ \A s \in S : step[q][s] \in S

LEMMA LaterExists ==
    ASSUME NEW N, NEW E, NEW S, NEW base, NEW next, NEW step,
           GoesOn(N, E, S, base, next, step)
    PROVE  \E f \in [Nat -> S] :
               f = [q \in Nat |-> IF q \in E THEN base[q] ELSE step[q][f[next[q]]]]
  <1> USE DEF GoesOn
  <1> DEFINE Good(f, n) ==
                 /\ \A q \in Nat : q \in E => f[q] = base[q]
                 /\ \A q \in N - n .. N : q \in Nat /\ q \notin E => f[q] = step[q][f[next[q]]]
             Done == {n \in 0 .. N : \E f \in [Nat -> S] : Good(f, n)}
  <1>1. 0 \in Done
    <2> DEFINE f == [q \in Nat |-> IF q \in E THEN base[q] ELSE base[N]]
    <2>1. f \in [Nat -> S]
      OBVIOUS
    <2>2. Good(f, 0)
      OBVIOUS
    <2> HIDE DEF Good, f
    <2> QED
      BY <2>1, <2>2
  <1>2. ASSUME NEW n \in 1 .. N, n - 1 \in Done
        PROVE  n \in Done
    <2>1. PICK f \in [Nat -> S] : Good(f, n - 1)
      BY <1>2
    <2> DEFINE m == N - n
               g == [f EXCEPT ![m] = IF m \in E THEN base[m] ELSE step[m][f[next[m]]]]
    <2>2. m \in Nat
      OBVIOUS
    <2>3. /\ g \in [Nat -> S]
          /\ g[m] = IF m \in E THEN base[m] ELSE step[m][f[next[m]]]
          /\ \A q \in Nat : q # m => g[q] = f[q]
      <3>1. (IF m \in E THEN base[m] ELSE step[m][f[next[m]]]) \in S
        BY <2>2
      <3> HIDE DEF m
      <3> QED
        BY <2>2, <3>1
    <2> HIDE DEF g
    <2>4. \A q \in Nat : q \in E => g[q] = base[q]
      BY <2>1, <2>2, <2>3
    <2>5. ASSUME NEW q \in N - n .. N, q \in Nat, q \notin E
          PROVE  g[q] = step[q][g[next[q]]]
      <3>1. next[q] \in Nat /\ next[q] # m /\ q >= m
        BY <2>5
      <3>2. g[next[q]] = f[next[q]]
        BY <2>3, <3>1
      <3>3. CASE q = m
        BY <2>3, <2>5, <3>2, <3>3
      <3>4. CASE q # m
        <4>1. q \in N - (n - 1) .. N
          BY <3>1, <3>4
        <4>2. f[q] = step[q][f[next[q]]]
          BY <2>1, <2>5, <4>1
        <4> QED
          BY <2>3, <2>5, <3>2, <3>4, <4>2
      <3> QED
        BY <3>3, <3>4
    <2>6. Good(g, n)
      BY <2>4, <2>5
    <2> HIDE DEF Good
    <2> QED
      BY <2>3, <2>6
  <1>3. \E f \in [Nat -> S] : Good(f, N)
    <2>1. Done = {n \in 0 .. N : \E f \in [Nat -> S] : Good(f, n)}
      OBVIOUS
    <2> HIDE DEF Done, Good
    <2>2. N \in Done
      BY <1>1, <1>2, HoldsUpTo
    <2> QED
      BY <2>1, <2>2
  <1>4. PICK f \in [Nat -> S] : Good(f, N)
    BY <1>3
  <1>5. ASSUME NEW q \in Nat
        PROVE  f[q] = IF q \in E THEN base[q] ELSE step[q][f[next[q]]]
    <2>1. q \notin E => q \in N - N .. N
      OBVIOUS
    <2> QED
      BY <1>4, <2>1
  <1>6. f = [q \in Nat |-> IF q \in E THEN base[q] ELSE step[q][f[next[q]]]]
    <2>1. f = [q \in Nat |-> f[q]]
      OBVIOUS
    <2> HIDE DEF Good
    <2> QED
      BY <1>5, <2>1
  <1> QED
    BY <1>6

(* What holds from N on, and of a number if of all later ones.             *)
LEMMA HoldsBack ==
    ASSUME NEW N \in Nat, NEW T, \A q \in Nat : q >= N => q \in T,
           \A q \in Nat : (\A r \in Nat : r > q => r \in T) => q \in T
    PROVE  \A q \in Nat : q \in T
  <1> DEFINE Done == {n \in 0 .. N : \A q \in Nat : q >= N - n => q \in T}
  <1>1. 0 \in Done
    OBVIOUS
  <1>2. ASSUME NEW n \in 1 .. N, n - 1 \in Done
        PROVE  n \in Done
    <2>1. ASSUME NEW q \in Nat, q >= N - n
          PROVE  q \in T
      <3>1. \A r \in Nat : r > q => r >= N - (n - 1)
        BY <2>1
      <3> QED
        BY <1>2, <3>1
    <2> QED
      BY <2>1
  <1>3. Done = {n \in 0 .. N : \A q \in Nat : q >= N - n => q \in T}
    OBVIOUS
  <1> HIDE DEF Done
  <1>4. N \in Done
    BY <1>1, <1>2, HoldsUpTo
  <1> QED
    BY <1>3, <1>4
=============================================================================

---------------------------- MODULE ThunderProofs ----------------------------
(***************************************************************************)
(* Proofs about Thunder, for any number of links, any room in a cell, any  *)
(* number of datagrams, breaks and timers, with the identifiers and counts *)
(* at their real width.                                                    *)
(***************************************************************************)
EXTENDS Thunder, SequenceTheorems, FiniteSetTheorems, WellFoundedInduction, TLAPS

-----------------------------------------------------------------------------
(* A set of natural numbers that is not empty has a least member. *)
LEMMA LeastNumber ==
  ASSUME NEW T \in SUBSET Nat, T # {}
  PROVE  \E m \in T : \A k \in T : m <= k
<1> DEFINE R == OpToRel(<, Nat)
<1>1. IsWellFoundedOn(R, Nat)
  BY NatLessThanWellFounded
<1>2. \A x, y \in Nat : <<y, x>> \in R <=> y < x
  BY DEF OpToRel
<1> HIDE DEF R
<1>3. PICK m \in T : \A k \in T : ~ (<<k, m>> \in R)
  BY <1>1, WFMin
<1>4. \A k \in T : ~ (k < m)
  BY <1>2, <1>3
<1>5. \A k \in T : m <= k
  BY <1>4
<1> QED
  BY <1>5

(* What holds of 0, and of the successor of each number below n, holds up  *)
(* to n: induction, which the library states with a predicate.            *)
LEMMA IntervalInduct ==
  ASSUME NEW n \in Nat, NEW S, 0 \in S,
         \A i \in 0 .. (n - 1) : i \in S => i + 1 \in S
  PROVE  \A i \in 0 .. n : i \in S
<1> DEFINE T == {i \in 0 .. n : i \notin S}
<1> SUFFICES ASSUME T # {} PROVE FALSE
  OBVIOUS
<1>1. T \in SUBSET Nat
  OBVIOUS
<1>2. PICK m \in T : \A k \in T : m <= k
  <2> HIDE DEF T
  <2> QED
    BY <1>1, LeastNumber
<1>3. m - 1 \in 0 .. (n - 1) /\ m - 1 \in S
  BY <1>2
<1> QED
  BY <1>2, <1>3

-----------------------------------------------------------------------------
(* The ends, and arithmetic on links.                                      *)

LEMMA Others ==
  ASSUME NEW p \in Peers
  PROVE  Other(p) \in Peers /\ Other(Other(p)) = p /\ Other(p) # p
  BY DEF Peers, Other

LEMMA PeersAre ==
  ASSUME NEW p \in Peers, NEW q \in Peers, q # p
  PROVE  q = Other(p)
  BY DEF Peers, Other

LEMMA Bytes ==
  UINT8_MAX \in Nat /\ UINT8_MAX = 255 /\ UINT8_MAX + 1 = 256
  BY DEF UINT8_MAX

LEMMA Words ==
  UINT16_MAX \in Nat /\ UINT16_MAX = 65535 /\ UINT16_MAX + 1 = 65536
  BY DEF UINT16_MAX

LEMMA ByteNat == \A i \in 0 .. UINT8_MAX : i \in Nat
  BY Bytes

LEMMA ByteKept ==
  ASSUME NEW u \in Int, u % 256 = 0, NEW h \in Nat, NEW i \in Nat, i = h % 256
  PROVE  ((u + h) - i) % 256 = 0
  OBVIOUS

(* The turns from link s to the next one of link l. *)
Gap(s, l) == IF l > s THEN l - s ELSE l - s + TotalLinks

LEMMA ModTurn ==
  ASSUME NEW s \in Links, NEW k \in 1 .. TotalLinks
  PROVE  /\ (s + k) % TotalLinks = IF s + k < TotalLinks THEN s + k ELSE s + k - TotalLinks
         /\ (s + k) % TotalLinks \in Links
  BY ThunderAssumption DEF Links

LEMMA GapIs ==
  ASSUME NEW s \in Links, NEW l \in Links
  PROVE  /\ Gap(s, l) \in 1 .. TotalLinks
         /\ \A k \in 1 .. TotalLinks : (s + k) % TotalLinks = l <=> k = Gap(s, l)
<1>1. \A k \in 1 .. TotalLinks :
        (s + k) % TotalLinks = IF s + k < TotalLinks THEN s + k ELSE s + k - TotalLinks
  BY ModTurn
<1> QED
  BY <1>1, ThunderAssumption DEF Gap, Links

LEMMA Division ==
  ASSUME NEW N \in Nat \ {0}, NEW x \in Nat
  PROVE  x = (N * (x \div N)) + (x % N)
  OBVIOUS

(* Division by the number of links, from below and above. *)
LEMMA Quotient ==
  ASSUME NEW q \in Int, NEW r \in Int,
         q * TotalLinks <= r, r < q * TotalLinks + TotalLinks
  PROVE  r \div TotalLinks = q
<1> DEFINE d == r \div TotalLinks
<1>1. d \in Int /\ TotalLinks * d <= r /\ r < TotalLinks * (d + 1)
  BY ThunderAssumption
<1> HIDE DEF d
<1>2. CASE d < q
  <2>1. TotalLinks * (d + 1) <= TotalLinks * q
    BY <1>1, <1>2, ThunderAssumption
  <2> QED
    BY <1>1, <2>1, ThunderAssumption
<1>3. CASE d > q
  <2>1. TotalLinks * (q + 1) <= TotalLinks * d
    BY <1>1, <1>3, ThunderAssumption
  <2>2. TotalLinks * (q + 1) = q * TotalLinks + TotalLinks
    BY ThunderAssumption
  <2> QED
    BY <1>1, <2>1, <2>2, ThunderAssumption
<1> QED
  BY <1>1, <1>2, <1>3 DEF d

(* The link whose turn the last of t turns was. *)
LastOf(t) == (t + TotalLinks - 1) % TotalLinks

(* After t turns, k more give each link one that comes within k of the last. *)
LEMMA TurnsNext ==
  ASSUME NEW t \in Nat, NEW k \in 1 .. TotalLinks, NEW l \in Links
  PROVE  /\ LastOf(t) \in Links /\ LastOf(t + k) = (LastOf(t) + k) % TotalLinks
         /\ TurnsOf(t, l) \in Nat
         /\ TurnsOf(t + k, l) = TurnsOf(t, l) + IF Gap(LastOf(t), l) <= k THEN 1 ELSE 0
<1> DEFINE N == TotalLinks
           s == LastOf(t)
           q == (t + N - 1) \div N
           a == s + k - l
<1>1. N \in Nat \ {0} /\ k \in Nat /\ l \in Nat /\ l < N /\ k <= N
  BY ThunderAssumption DEF Links
<1>2. q \in Nat /\ s \in 0 .. (N - 1) /\ t + N - 1 = q * N + s
  BY <1>1 DEF LastOf
<1> HIDE DEF q, s
<1>3. s \in Links
  BY <1>2 DEF Links
<1>4. LastOf(t + k) = (s + k) % N
  <2>1. t + k + N - 1 = q * N + (s + k)
    BY <1>1, <1>2
  <2>2. (q * N + (s + k)) % N = (s + k) % N
    <3>1. CASE s + k < N
      <4>1. (q * N + (s + k)) \div N = q
        BY <3>1, <1>1, <1>2, Quotient
      <4> QED
        BY <4>1, <3>1, <1>1, <1>2
    <3>2. CASE s + k >= N
      <4>1. (q + 1) * N = q * N + N
        BY <1>1, <1>2
      <4>2. (q * N + (s + k)) \div N = q + 1
        BY <3>2, <4>1, <1>1, <1>2, Quotient
      <4> QED
        BY <4>1, <4>2, <3>2, <1>1, <1>2
    <3> QED
      BY <3>1, <3>2, <1>1, <1>2
  <2> QED
    BY <2>1, <2>2 DEF LastOf
<1>5. (q - 1) * N = q * N - N /\ (q + 1) * N = q * N + N
  BY <1>1, <1>2
<1>6. TurnsOf(t, l) = IF l <= s THEN q ELSE q - 1
  <2>1. TurnsOf(t, l) = (q * N + s - l) \div N
    BY <1>1, <1>2 DEF TurnsOf
  <2>2. CASE l <= s
    BY <2>1, <2>2, <1>1, <1>2, Quotient
  <2>3. CASE l > s
    BY <2>1, <2>3, <1>1, <1>2, <1>5, Quotient
  <2> QED
    BY <2>2, <2>3, <1>1, <1>2
<1>7. TurnsOf(t + k, l) = IF a < 0 THEN q - 1 ELSE IF a < N THEN q ELSE q + 1
  <2>1. TurnsOf(t + k, l) = (q * N + a) \div N
    <3>1. t + k + N - 1 - l = q * N + a
      BY <1>1, <1>2
    <3> QED
      BY <3>1 DEF TurnsOf
  <2>2. a \in Int /\ a >= - N /\ a < 2 * N
    BY <1>1, <1>2
  <2> HIDE DEF a
  <2>3. CASE a < 0
    BY <2>1, <2>2, <2>3, <1>1, <1>2, <1>5, Quotient, SMTT(30)
  <2>4. CASE a >= 0 /\ a < N
    BY <2>1, <2>2, <2>4, <1>1, <1>2, <1>5, Quotient
  <2>5. CASE a >= N
    BY <2>1, <2>2, <2>5, <1>1, <1>2, <1>5, Quotient
  <2> QED
    BY <2>2, <2>3, <2>4, <2>5, <1>1
<1>8. TurnsOf(t, l) \in Nat
  <2>1. CASE q = 0
    <3>1. s = N - 1
      BY <2>1, <1>1, <1>2
    <3> QED
      BY <3>1, <2>1, <1>1, <1>6
  <2> QED
    BY <2>1, <1>2, <1>6
<1> QED
  BY <1>1, <1>2, <1>3, <1>4, <1>6, <1>7, <1>8 DEF Gap, s

-----------------------------------------------------------------------------
(* What the scheduler's operators return.                                  *)

LEMMA TurnedWithin ==
  ASSUME NEW inc \in [Links -> 0 .. UINT8_MAX], NEW s \in Links,
         NEW k \in 1 .. TotalLinks
  PROVE  /\ Turned(inc, s, k) \in [Links -> 0 .. UINT8_MAX]
         /\ \A l \in Links :
              Turned(inc, s, k)[l] = (inc[l] + IF Gap(s, l) <= k THEN 1 ELSE 0) % (UINT8_MAX + 1)
<1>1. ASSUME NEW l \in Links
      PROVE  Cardinality({j \in 1 .. k : (s + j) % TotalLinks = l}) = IF Gap(s, l) <= k THEN 1 ELSE 0
  <2>1. /\ Gap(s, l) \in 1 .. TotalLinks
        /\ \A j \in 1 .. TotalLinks : (s + j) % TotalLinks = l <=> j = Gap(s, l)
    BY GapIs
  <2>2. {j \in 1 .. k : (s + j) % TotalLinks = l} = IF Gap(s, l) <= k THEN {Gap(s, l)} ELSE {}
    BY <2>1, ThunderAssumption
  <2> QED
    BY <2>2, FS_Singleton, FS_EmptySet
<1>2. ASSUME NEW l \in Links
      PROVE  Turned(inc, s, k)[l] = (inc[l] + IF Gap(s, l) <= k THEN 1 ELSE 0) % (UINT8_MAX + 1)
  BY <1>1 DEF Turned
<1>3. Turned(inc, s, k) = [l \in Links |-> Turned(inc, s, k)[l]]
  BY DEF Turned
<1>4. ASSUME NEW l \in Links PROVE Turned(inc, s, k)[l] \in 0 .. UINT8_MAX
  BY <1>2 DEF UINT8_MAX
<1> QED
  BY <1>2, <1>3, <1>4

(* A round and a turn more. *)
LEMMA TurnedRound ==
  ASSUME NEW inc \in [Links -> 0 .. UINT8_MAX], NEW s \in Links
  PROVE  LET inc2 == Turned(inc, s, TotalLinks + 1)
         IN  /\ inc2 \in [Links -> 0 .. UINT8_MAX]
             /\ \A l \in Links :
                  inc2[l] = (inc[l] + IF Gap(s, l) = 1 THEN 2 ELSE 1) % (UINT8_MAX + 1)
<1>1. ASSUME NEW l \in Links
      PROVE  Cardinality({j \in 1 .. (TotalLinks + 1) : (s + j) % TotalLinks = l})
               = IF Gap(s, l) = 1 THEN 2 ELSE 1
  <2>1. /\ Gap(s, l) \in 1 .. TotalLinks
        /\ \A j \in 1 .. TotalLinks : (s + j) % TotalLinks = l <=> j = Gap(s, l)
    BY GapIs
  <2>2. (s + (TotalLinks + 1)) % TotalLinks = (s + 1) % TotalLinks
    <3>1. (s + 1) % TotalLinks = IF s + 1 < TotalLinks THEN s + 1 ELSE 0
      BY ModTurn, ThunderAssumption DEF Links
    <3>2. PICK a \in Nat : a = s + (TotalLinks + 1)
      BY ThunderAssumption DEF Links
    <3>3. a = (TotalLinks * (a \div TotalLinks)) + (a % TotalLinks)
      BY ThunderAssumption, Division
    <3>4. CASE s + 1 < TotalLinks
      <4>1. 1 * TotalLinks <= a /\ a < 1 * TotalLinks + TotalLinks
        BY <3>2, <3>4, ThunderAssumption DEF Links
      <4>2. a \div TotalLinks = 1
        BY <4>1, Quotient
      <4>3. a = TotalLinks + (a % TotalLinks) /\ a % TotalLinks \in Int
        BY <4>2, <3>3, ThunderAssumption
      <4> QED
        BY <4>3, <3>1, <3>2, <3>4, ThunderAssumption DEF Links
    <3>5. CASE s + 1 = TotalLinks
      <4>1. 2 * TotalLinks <= a /\ a < 2 * TotalLinks + TotalLinks
        BY <3>2, <3>5, ThunderAssumption DEF Links
      <4>2. a \div TotalLinks = 2
        BY <4>1, Quotient
      <4>3. a = 2 * TotalLinks + (a % TotalLinks) /\ a % TotalLinks \in Int
        BY <4>2, <3>3, ThunderAssumption
      <4> QED
        BY <4>3, <3>1, <3>2, <3>5, ThunderAssumption DEF Links
    <3> QED
      BY <3>4, <3>5, ThunderAssumption DEF Links
  <2>3. (s + (TotalLinks + 1)) % TotalLinks = l <=> Gap(s, l) = 1
    BY <2>1, <2>2, ThunderAssumption
  <2>4. {j \in 1 .. (TotalLinks + 1) : (s + j) % TotalLinks = l}
          = {Gap(s, l)} \cup (IF Gap(s, l) = 1 THEN {TotalLinks + 1} ELSE {})
    BY <2>1, <2>3, ThunderAssumption
  <2>5. IsFiniteSet({Gap(s, l)}) /\ Cardinality({Gap(s, l)}) = 1
    BY FS_Singleton
  <2>6. Cardinality({Gap(s, l)} \cup {TotalLinks + 1})
          = IF TotalLinks + 1 \in {Gap(s, l)} THEN 1 ELSE 2
    BY <2>5, FS_AddElement
  <2>7. TotalLinks + 1 \notin {Gap(s, l)}
    BY <2>1, ThunderAssumption
  <2>8. CASE Gap(s, l) = 1
    <3>1. Cardinality({Gap(s, l)} \cup {TotalLinks + 1}) = 2
      BY <2>6, <2>7
    <3> QED
      BY <2>4, <2>8, <3>1
  <2>9. CASE Gap(s, l) # 1
    <3>1. {Gap(s, l)} \cup {} = {Gap(s, l)}
      OBVIOUS
    <3> QED
      BY <2>4, <2>5, <2>9, <3>1
  <2> QED
    BY <2>8, <2>9
<1>2. Turned(inc, s, TotalLinks + 1) =
        [l \in Links |-> (inc[l] + IF Gap(s, l) = 1 THEN 2 ELSE 1) % (UINT8_MAX + 1)]
  BY <1>1, Zenon DEF Turned
<1> QED
  BY <1>2 DEF UINT8_MAX

(* The next link that is up is found within a round. *)
LEMMA DistanceIs ==
  ASSUME NEW p \in Peers, up[p] \subseteq Links, up[p] # {}, NEW s \in Links
  PROVE  /\ Distance(p, s) \in 1 .. TotalLinks
         /\ (s + Distance(p, s)) % TotalLinks \in up[p]
         /\ \A j \in 1 .. (Distance(p, s) - 1) : (s + j) % TotalLinks \notin up[p]
<1> DEFINE T == {k \in 1 .. TotalLinks : (s + k) % TotalLinks \in up[p]}
<1>1. T \in SUBSET Nat
  OBVIOUS
<1>2. T # {}
  <2>1. PICK l \in Links : l \in up[p]
    OBVIOUS
  <2>2. Gap(s, l) \in 1 .. TotalLinks /\ (s + Gap(s, l)) % TotalLinks = l
    BY GapIs
  <2> QED
    BY <2>1, <2>2
<1>3. PICK k \in T : \A j \in T : k <= j
  <2> HIDE DEF T
  <2> QED
    BY <1>1, <1>2, LeastNumber
<1>4. /\ k \in 1 .. TotalLinks /\ (s + k) % TotalLinks \in up[p]
      /\ \A j \in 1 .. (k - 1) : (s + j) % TotalLinks \notin up[p]
  BY <1>3, ThunderAssumption
<1> QED
  BY <1>4 DEF Distance

(* The loop runs through states of which each follows from the one before. *)
LEMMA LoopUnfolds ==
  ASSUME NEW p, NEW dgs
  PROVE  \E after :
           /\ after[0] = Start(p)
           /\ \A i \in 1 .. (TotalLinks + 1) :
                after[i] = IF after[i - 1].more THEN Iteration(p, dgs, after[i - 1])
                           ELSE after[i - 1]
           /\ Loop(p, dgs) = after[TotalLinks + 1]
<1> DEFINE N == TotalLinks + 1
           Turn(st) == IF st.more THEN Iteration(p, dgs, st) ELSE st
           Is(f, n) == f = [i \in 0 .. n |-> IF i = 0 THEN Start(p) ELSE Turn(f[i - 1])]
           S == {n \in 0 .. N : \E f : Is(f, n)}
<1>1. N \in Nat
  BY ThunderAssumption
<1>2. 0 \in S
  <2>1. Is([i \in 0 .. 0 |-> Start(p)], 0)
    OBVIOUS
  <2> HIDE DEF Is
  <2> QED
    BY <2>1, <1>1
<1>3. ASSUME NEW n \in 0 .. (N - 1), n \in S PROVE n + 1 \in S
  <2>1. PICK f : Is(f, n)
    BY <1>3
  <2> DEFINE g == [i \in 0 .. (n + 1) |-> IF i = 0 THEN Start(p) ELSE Turn(f[i - 1])]
  <2>2. \A i \in 0 .. n : g[i] = f[i]
    <3> HIDE DEF Turn
    <3> QED
      BY <2>1, <1>1
  <2>3. Is(g, n + 1)
    <3> SUFFICES ASSUME NEW i \in 0 .. (n + 1), i # 0
                 PROVE  Turn(f[i - 1]) = Turn(g[i - 1])
      OBVIOUS
    <3>1. i - 1 \in 0 .. n
      BY <1>1
    <3> HIDE DEF Turn, g
    <3> QED
      BY <3>1, <2>2
  <2> HIDE DEF Is, g
  <2> QED
    BY <2>3, <1>1
<1>4. \A n \in 0 .. N : n \in S
  <2> HIDE DEF S
  <2> QED
    BY <1>1, <1>2, <1>3, IntervalInduct
<1>5. \E f : Is(f, N)
  <2> HIDE DEF Is
  <2> QED
    BY <1>1, <1>4
<1> DEFINE after == CHOOSE f : Is(f, N)
<1>6. Is(after, N)
  <2> HIDE DEF Is
  <2> QED
    BY <1>5
<1>7. Loop(p, dgs) = after[N]
  BY DEF Loop
<1> HIDE DEF after, Turn
<1>8. after[0] = Start(p) /\ \A i \in 1 .. N : after[i] = Turn(after[i - 1])
  BY <1>1, <1>6
<1> QED
  BY <1>7, <1>8 DEF Turn

(* What is so at the start, and stays so by an iteration, is so at the end, *)
(* S[i] being what is so after i iterations.                                *)
LEMMA LoopInduct ==
  ASSUME NEW p, NEW dgs, NEW S, Start(p) \in S[0],
         \A i \in 0 .. TotalLinks : \A st \in S[i] :
           (IF st.more THEN Iteration(p, dgs, st) ELSE st) \in S[i + 1]
  PROVE  Loop(p, dgs) \in S[TotalLinks + 1]
<1>1. PICK after :
        /\ after[0] = Start(p)
        /\ \A i \in 1 .. (TotalLinks + 1) :
             after[i] = IF after[i - 1].more THEN Iteration(p, dgs, after[i - 1])
                        ELSE after[i - 1]
        /\ Loop(p, dgs) = after[TotalLinks + 1]
  BY LoopUnfolds
<1> DEFINE T == {i \in Nat : after[i] \in S[i]}
<1>2. 0 \in T
  BY <1>1
<1>3. ASSUME NEW i \in 0 .. TotalLinks, i \in T PROVE i + 1 \in T
  <2>1. i \in Nat /\ i + 1 \in 1 .. (TotalLinks + 1) /\ (i + 1) - 1 = i
    BY ThunderAssumption
  <2>2. after[i + 1] = IF after[i].more THEN Iteration(p, dgs, after[i]) ELSE after[i]
    BY <1>1, <2>1
  <2>3. after[i] \in S[i]
    BY <1>3
  <2>4. after[i + 1] \in S[i + 1]
    BY <2>2, <2>3
  <2> QED
    BY <2>1, <2>4
<1>4. TotalLinks + 1 \in T
  <2> HIDE DEF T
  <2>1. TotalLinks + 1 \in Nat /\ TotalLinks + 1 \in 0 .. (TotalLinks + 1)
    BY ThunderAssumption
  <2>2. 0 .. ((TotalLinks + 1) - 1) = 0 .. TotalLinks
    BY ThunderAssumption
  <2>3. \A i \in 0 .. ((TotalLinks + 1) - 1) : i \in T => i + 1 \in T
    BY <1>3, <2>2
  <2>4. \A i \in 0 .. (TotalLinks + 1) : i \in T
    BY <2>1, <2>3, <1>2, IntervalInduct
  <2> QED
    BY <2>1, <2>4
<1> QED
  BY <1>1, <1>4

LEMMA CellFields ==
  ASSUME NEW c \in Cells
  PROVE  c.inc \in 0 .. UINT8_MAX /\ c.inc \in Nat /\ c.dgs \in SUBSET Datagrams
  BY DEF Cells, UINT8_MAX

(* The sum of a sequence of cells, from the front and to the back. *)
LEMMA InFlightUnfolds ==
  ASSUME NEW s \in Seq(Cells)
  PROVE  \E sum \in [0 .. Len(s) -> Nat] :
           /\ sum[0] = 0
           /\ \A i \in 1 .. Len(s) : sum[i] = sum[i - 1] + s[i].inc
           /\ InFlight(s) = sum[Len(s)]
<1> DEFINE N == Len(s)
           Is(f, n) == f = [i \in 0 .. n |-> IF i = 0 THEN 0 ELSE f[i - 1] + s[i].inc]
           S == {n \in 0 .. N : \E f \in [0 .. n -> Nat] : Is(f, n)}
<1>1. N \in Nat /\ \A i \in 1 .. N : s[i].inc \in Nat
  <2>1. N \in Nat /\ \A i \in 1 .. N : s[i] \in Cells
    OBVIOUS
  <2> QED
    BY <2>1, CellFields
<1>2. 0 \in S
  <2> DEFINE g == [i \in 0 .. 0 |-> 0]
  <2>1. Is(g, 0) /\ g \in [0 .. 0 -> Nat]
    OBVIOUS
  <2> HIDE DEF Is, g
  <2> QED
    BY <2>1, <1>1
<1>3. ASSUME NEW n \in 0 .. (N - 1), n \in S PROVE n + 1 \in S
  <2>1. PICK f \in [0 .. n -> Nat] : Is(f, n)
    BY <1>3
  <2> DEFINE g == [i \in 0 .. (n + 1) |-> IF i = 0 THEN 0 ELSE f[i - 1] + s[i].inc]
  <2>2. \A i \in 0 .. n : g[i] = f[i]
    BY <2>1, <1>1
  <2>3. Is(g, n + 1)
    <3> SUFFICES ASSUME NEW i \in 0 .. (n + 1), i # 0 PROVE f[i - 1] = g[i - 1]
      OBVIOUS
    <3>1. i - 1 \in 0 .. n
      BY <1>1
    <3> HIDE DEF g
    <3> QED
      BY <3>1, <2>2
  <2>4. g \in [0 .. (n + 1) -> Nat]
    BY <1>1, <2>1, SMTT(30)
  <2> HIDE DEF Is, g
  <2> QED
    BY <2>3, <2>4, <1>1
<1>4. \A n \in 0 .. N : n \in S
  <2> HIDE DEF S
  <2> QED
    BY <1>1, <1>2, <1>3, IntervalInduct
<1>5. PICK f \in [0 .. N -> Nat] : Is(f, N)
  <2> HIDE DEF Is
  <2> QED
    BY <1>1, <1>4
<1> DEFINE sum == CHOOSE g : Is(g, N)
<1>6. Is(sum, N)
  <2> HIDE DEF Is
  <2> QED
    BY <1>5
<1>7. InFlight(s) = sum[N]
  BY DEF InFlight
<1>8. sum \in [0 .. N -> Nat]
  <2>1. DOMAIN sum = 0 .. N
    BY <1>6
  <2> DEFINE T == {i \in 0 .. N : sum[i] \in Nat}
  <2> HIDE DEF sum
  <2>2. 0 \in T
    BY <1>1, <1>6
  <2>3. \A i \in 0 .. (N - 1) : i \in T => i + 1 \in T
    BY <1>1, <1>6
  <2>4. \A i \in 0 .. N : i \in T
    <3> HIDE DEF T
    <3> QED
      BY <1>1, <2>2, <2>3, IntervalInduct
  <2> QED
    BY <2>1, <2>4, <1>6
<1> HIDE DEF sum
<1>9. sum[0] = 0 /\ \A i \in 1 .. N : sum[i] = sum[i - 1] + s[i].inc
  BY <1>1, <1>6
<1> QED
  BY <1>7, <1>8, <1>9

LEMMA InFlightEmpty == InFlight(<<>>) = 0
<1>1. <<>> \in Seq(Cells) /\ Len(<<>>) = 0
  OBVIOUS
<1> QED
  BY <1>1, InFlightUnfolds

LEMMA InFlightNat ==
  ASSUME NEW s \in Seq(Cells)
  PROVE  InFlight(s) \in Nat
<1>1. Len(s) \in Nat
  OBVIOUS
<1> QED
  BY <1>1, InFlightUnfolds

LEMMA InFlightAppend ==
  ASSUME NEW s \in Seq(Cells), NEW c \in Cells
  PROVE  InFlight(Append(s, c)) = InFlight(s) + c.inc
<1> DEFINE N == Len(s)
           t == Append(s, c)
<1>1. N \in Nat /\ t \in Seq(Cells) /\ Len(t) = N + 1 /\ t[N + 1] = c
      /\ \A i \in 1 .. N : t[i] = s[i]
  OBVIOUS
<1> HIDE DEF t
<1>2. PICK f \in [0 .. N -> Nat] :
        /\ f[0] = 0 /\ \A i \in 1 .. N : f[i] = f[i - 1] + s[i].inc
        /\ InFlight(s) = f[N]
  BY InFlightUnfolds
<1>3. PICK g \in [0 .. (N + 1) -> Nat] :
        /\ g[0] = 0 /\ \A i \in 1 .. (N + 1) : g[i] = g[i - 1] + t[i].inc
        /\ InFlight(t) = g[N + 1]
  BY <1>1, InFlightUnfolds
<1> HIDE DEF N
<1> DEFINE T == {i \in Nat : g[i] = f[i]}
<1>4. 0 \in T
  BY <1>2, <1>3
<1>5. \A i \in 0 .. (N - 1) : i \in T => i + 1 \in T
  <2> SUFFICES ASSUME NEW i \in 0 .. (N - 1), g[i] = f[i] PROVE g[i + 1] = f[i + 1]
    OBVIOUS
  <2>1. i + 1 \in 1 .. N /\ i + 1 \in 1 .. (N + 1) /\ (i + 1) - 1 = i
    BY <1>1
  <2> QED
    BY <1>1, <1>2, <1>3, <2>1
<1>6. g[N] = f[N]
  <2>1. \A i \in 0 .. N : i \in T
    <3> HIDE DEF T
    <3> QED
      BY <1>1, <1>4, <1>5, IntervalInduct
  <2> QED
    BY <1>1, <2>1
<1>7. g[N + 1] = g[(N + 1) - 1] + t[N + 1].inc /\ (N + 1) - 1 = N
  BY <1>1, <1>3
<1> QED
  BY <1>1, <1>2, <1>3, <1>6, <1>7 DEF t

LEMMA InFlightTail ==
  ASSUME NEW s \in Seq(Cells), s # <<>>
  PROVE  InFlight(s) = Head(s).inc + InFlight(Tail(s))
<1> DEFINE N == Len(Tail(s))
           t == Tail(s)
<1>1. N \in Nat /\ t \in Seq(Cells) /\ Len(s) = N + 1 /\ s[1] = Head(s) /\ Head(s) \in Cells
      /\ Len(t) = N /\ \A i \in 1 .. N : t[i] = s[i + 1]
  OBVIOUS
<1> HIDE DEF t, N
<1>2. PICK f \in [0 .. N -> Nat] :
        /\ f[0] = 0 /\ \A i \in 1 .. N : f[i] = f[i - 1] + t[i].inc
        /\ InFlight(t) = f[N]
  BY <1>1, InFlightUnfolds
<1>3. PICK g \in [0 .. (N + 1) -> Nat] :
        /\ g[0] = 0 /\ \A i \in 1 .. (N + 1) : g[i] = g[i - 1] + s[i].inc
        /\ InFlight(s) = g[N + 1]
  BY <1>1, InFlightUnfolds
<1>4. PICK h : h = Head(s).inc /\ h \in Nat
  BY <1>1, CellFields
<1> DEFINE T == {i \in Nat : g[i + 1] = h + f[i]}
<1>5. 0 \in T
  <2>1. 1 \in 1 .. (N + 1) /\ 1 - 1 = 0
    BY <1>1
  <2>2. g[1] = 0 + h
    BY <1>1, <1>3, <1>4, <2>1
  <2> QED
    BY <1>2, <1>4, <2>2
<1>6. \A i \in 0 .. (N - 1) : i \in T => i + 1 \in T
  <2> SUFFICES ASSUME NEW i \in 0 .. (N - 1), g[i + 1] = h + f[i]
               PROVE  g[(i + 1) + 1] = h + f[i + 1]
    OBVIOUS
  <2>1. i + 1 \in 1 .. N /\ (i + 1) + 1 \in 1 .. (N + 1) /\ (i + 1) - 1 = i
        /\ ((i + 1) + 1) - 1 = i + 1 /\ i \in 0 .. N /\ i + 1 \in 0 .. N
    BY <1>1
  <2>2. g[(i + 1) + 1] = g[i + 1] + s[(i + 1) + 1].inc /\ f[i + 1] = f[i] + t[i + 1].inc
    BY <1>2, <1>3, <2>1
  <2>3. t[i + 1] = s[(i + 1) + 1] /\ t[i + 1] \in Cells
    BY <1>1, <2>1
  <2>4. t[i + 1].inc \in Nat /\ f[i] \in Nat
    BY <1>2, <2>1, <2>3, CellFields
  <2> QED
    BY <1>4, <2>2, <2>3, <2>4
<1>7. g[N + 1] = h + f[N]
  <2>1. \A i \in 0 .. N : i \in T
    <3> HIDE DEF T
    <3> QED
      BY <1>1, <1>5, <1>6, IntervalInduct
  <2> QED
    BY <1>1, <2>1
<1> QED
  BY <1>2, <1>3, <1>4, <1>7 DEF t

(* An iteration gives k turns, the last of them to l, the next link up.     *)
IterationTo(p, dgs, st, k, l, inc, use) ==
  /\ k \in 1 .. TotalLinks /\ l \in up[p] /\ k = Gap(st.sel, l)
  /\ \A j \in up[p] : Gap(st.sel, j) <= k => j = l
  /\ inc \in [Links -> 0 .. UINT8_MAX]
  /\ \A j \in Links :
       inc[j] = (st.inc[j] + IF Gap(st.sel, j) <= k THEN 1 ELSE 0) % (UINT8_MAX + 1)
  /\ use = (~ is_blacklisted(p, l) \/ inc[l] >= PROBE_EVERY)
  /\ l = (st.sel + k) % TotalLinks
  /\ Iteration(p, dgs, st) =
       [sel |-> l, inc |-> IF use THEN [inc EXCEPT ![l] = 0] ELSE inc, n |-> st.n + k,
        chan |-> IF use /\ l \in alive
                 THEN [st.chan EXCEPT ![l] = Append(@, [inc |-> inc[l], dgs |-> dgs])]
                 ELSE st.chan,
        whole |-> st.whole /\ (use => l \in alive),
        more |-> is_blacklisted(p, l)]
  /\ LET it == Iteration(p, dgs, st)
     IN  /\ it.sel = l /\ it.inc = (IF use THEN [inc EXCEPT ![l] = 0] ELSE inc)
         /\ it.n = st.n + k /\ it.whole = (st.whole /\ (use => l \in alive))
         /\ it.chan = IF use /\ l \in alive
                      THEN [st.chan EXCEPT ![l] = Append(@, [inc |-> inc[l], dgs |-> dgs])]
                      ELSE st.chan
         /\ it.more = is_blacklisted(p, l)

LEMMA IterationIs ==
  ASSUME NEW p \in Peers, up[p] \subseteq Links, up[p] # {}, NEW dgs, NEW st,
         st.sel \in Links, st.inc \in [Links -> 0 .. UINT8_MAX]
  PROVE  \E k, l, inc : \E use \in BOOLEAN : IterationTo(p, dgs, st, k, l, inc, use)
<1> DEFINE k   == Distance(p, st.sel)
           l   == (st.sel + k) % TotalLinks
           inc == Turned(st.inc, st.sel, k)
           use == ~ is_blacklisted(p, l) \/ inc[l] >= PROBE_EVERY
<1>1. /\ k \in 1 .. TotalLinks /\ l \in up[p] /\ l \in Links
      /\ \A j \in 1 .. (k - 1) : (st.sel + j) % TotalLinks \notin up[p]
  BY DistanceIs
<1>2. Iteration(p, dgs, st) =
       [sel |-> l, inc |-> IF use THEN [inc EXCEPT ![l] = 0] ELSE inc, n |-> st.n + k,
        chan |-> IF use /\ l \in alive
                 THEN [st.chan EXCEPT ![l] = Append(@, [inc |-> inc[l], dgs |-> dgs])]
                 ELSE st.chan,
        whole |-> st.whole /\ (use => l \in alive),
        more |-> is_blacklisted(p, l)]
  BY DEF Iteration
<1>3. k = Gap(st.sel, l)
  <2> HIDE DEF k
  <2> QED
    BY <1>1, GapIs
<1>4. ASSUME NEW j \in up[p], Gap(st.sel, j) <= k PROVE j = l
  <2> HIDE DEF k
  <2>1. Gap(st.sel, j) \in 1 .. TotalLinks /\ (st.sel + Gap(st.sel, j)) % TotalLinks = j
    BY GapIs
  <2>2. Gap(st.sel, j) \notin 1 .. (k - 1)
    BY <1>1, <2>1
  <2> QED
    BY <1>1, <1>4, <2>1, <2>2, ThunderAssumption
<1>5. /\ inc \in [Links -> 0 .. UINT8_MAX]
      /\ \A j \in Links :
           inc[j] = (st.inc[j] + IF Gap(st.sel, j) <= k THEN 1 ELSE 0) % (UINT8_MAX + 1)
  <2> HIDE DEF k
  <2> QED
    BY <1>1, TurnedWithin
<1>6. use \in BOOLEAN
  OBVIOUS
<1> DEFINE it    == Iteration(p, dgs, st)
           inc2  == IF use THEN [inc EXCEPT ![l] = 0] ELSE inc
           chan2 == IF use /\ l \in alive
                    THEN [st.chan EXCEPT ![l] = Append(@, [inc |-> inc[l], dgs |-> dgs])]
                    ELSE st.chan
           whole == st.whole /\ (use => l \in alive)
           more  == is_blacklisted(p, l)
<1> HIDE DEF it, inc2, chan2, whole, more
<1>7. /\ it.sel = l /\ it.inc = inc2 /\ it.n = st.n + k /\ it.whole = whole
      /\ it.chan = chan2 /\ it.more = more
  <2>1. it = [sel |-> l, inc |-> inc2, n |-> st.n + k, chan |-> chan2, whole |-> whole,
              more |-> more]
    BY <1>2 DEF it, inc2, chan2, whole, more
  <2> HIDE DEF k, l, inc, use
  <2> QED
    BY <2>1
<1> HIDE DEF k, inc
<1>8. IterationTo(p, dgs, st, k, l, inc, use)
  BY <1>1, <1>2, <1>3, <1>4, <1>5, <1>7 DEF IterationTo, it, inc2, chan2, whole, more
<1> QED
  BY <1>6, <1>8

-----------------------------------------------------------------------------
(* Types.                                                                  *)

Typed == [sel : Links, inc : [Links -> 0 .. UINT8_MAX], n : Nat,
          chan : [Links -> Seq(Cells)], whole : BOOLEAN, more : BOOLEAN]

LEMMA StartTyped ==
  ASSUME TypeOK, NEW p \in Peers
  PROVE  Start(p) \in Typed
  BY DEF TypeOK, Start, Typed

LEMMA CellTyped ==
  ASSUME NEW i \in 0 .. UINT8_MAX, NEW dgs \in SUBSET Datagrams
  PROVE  [inc |-> i, dgs |-> dgs] \in Cells
  BY DEF Cells

LEMMA IterationTyped ==
  ASSUME TypeOK, NEW p \in Peers, up[p] # {}, NEW dgs \in SUBSET Datagrams, NEW st \in Typed
  PROVE  Iteration(p, dgs, st) \in Typed
<1>1. /\ up[p] \subseteq Links /\ st.sel \in Links /\ st.inc \in [Links -> 0 .. UINT8_MAX]
      /\ st.n \in Nat /\ st.chan \in [Links -> Seq(Cells)] /\ st.whole \in BOOLEAN
  BY DEF TypeOK, Typed
<1>2. PICK k, l, inc : \E use \in BOOLEAN : IterationTo(p, dgs, st, k, l, inc, use)
  BY <1>1, IterationIs
<1>3. PICK use \in BOOLEAN : IterationTo(p, dgs, st, k, l, inc, use)
  BY <1>2
<1>4. k \in Nat /\ l \in Links /\ inc \in [Links -> 0 .. UINT8_MAX]
  <2>1. k \in 1 .. TotalLinks /\ l \in up[p] /\ inc \in [Links -> 0 .. UINT8_MAX]
    BY <1>3, Zenon DEF IterationTo
  <2> QED
    BY <1>1, <2>1
<1>5. [inc EXCEPT ![l] = 0] \in [Links -> 0 .. UINT8_MAX]
  BY <1>4 DEF UINT8_MAX
<1>6. [st.chan EXCEPT ![l] = Append(@, [inc |-> inc[l], dgs |-> dgs])] \in [Links -> Seq(Cells)]
  <2>1. [inc |-> inc[l], dgs |-> dgs] \in Cells
    BY <1>4, CellTyped
  <2> QED
    BY <1>1, <1>4, <2>1
<1> DEFINE inc2  == IF use THEN [inc EXCEPT ![l] = 0] ELSE inc
           chan2 == IF use /\ l \in alive
                    THEN [st.chan EXCEPT ![l] = Append(@, [inc |-> inc[l], dgs |-> dgs])]
                    ELSE st.chan
           whole == st.whole /\ (use => l \in alive)
           more  == is_blacklisted(p, l)
<1>7. more \in BOOLEAN /\ whole \in BOOLEAN
  BY <1>1, ThunderAssumption DEF is_blacklisted
<1>8. inc2 \in [Links -> 0 .. UINT8_MAX] /\ chan2 \in [Links -> Seq(Cells)]
  BY <1>1, <1>4, <1>5, <1>6
<1>9. Iteration(p, dgs, st) = [sel |-> l, inc |-> inc2, n |-> st.n + k, chan |-> chan2,
                               whole |-> whole, more |-> more]
  BY <1>3 DEF IterationTo
<1> HIDE DEF inc2, chan2, whole, more
<1> QED
  BY <1>1, <1>4, <1>7, <1>8, <1>9, SMTT(30) DEF Typed

LEMMA LoopTyped ==
  ASSUME TypeOK, NEW p \in Peers, up[p] # {}, NEW dgs \in SUBSET Datagrams
  PROVE  Loop(p, dgs) \in Typed
<1> DEFINE S == [i \in Nat |-> Typed]
<1>1. \A i \in Nat : S[i] = Typed
  OBVIOUS
<1>2. 0 \in Nat /\ TotalLinks + 1 \in Nat /\ \A i \in 0 .. TotalLinks : i \in Nat /\ i + 1 \in Nat
  BY ThunderAssumption
<1>3. Start(p) \in Typed
  BY StartTyped
<1>4. \A st \in Typed : (IF st.more THEN Iteration(p, dgs, st) ELSE st) \in Typed
  BY IterationTyped
<1> HIDE DEF S
<1>5. Loop(p, dgs) \in S[TotalLinks + 1]
  BY <1>1, <1>2, <1>3, <1>4, LoopInduct
<1> QED
  BY <1>1, <1>2, <1>5

LEMMA NoLinkTyped ==
  ASSUME TypeOK, NEW p \in Peers, NEW st \in NoLink(p)
  PROVE  st \in Typed
<1>1. selected[p] \in Links /\ to_increment[p] \in [Links -> 0 .. UINT8_MAX]
  BY DEF TypeOK
<1>2. Turned(to_increment[p], selected[p], TotalLinks + 1) \in [Links -> 0 .. UINT8_MAX]
  BY <1>1, TurnedRound
<1>3. (selected[p] + 1) % TotalLinks \in Links
  BY <1>1, ThunderAssumption DEF Links
<1>4. Start(p) \in Typed
  BY StartTyped
<1>5. CASE st # Start(p)
  <2> DEFINE sel == (selected[p] + 1) % TotalLinks
             inc == Turned(to_increment[p], selected[p], TotalLinks + 1)
  <2>1. st = [sel |-> sel, inc |-> inc, n |-> TotalLinks + 1, chan |-> chan[p],
              whole |-> TRUE, more |-> TRUE]
    BY <1>5 DEF NoLink, Start
  <2>2. chan[p] \in [Links -> Seq(Cells)] /\ TotalLinks + 1 \in Nat
    BY ThunderAssumption DEF TypeOK
  <2>3. sel \in Links /\ inc \in [Links -> 0 .. UINT8_MAX]
    BY <1>2, <1>3
  <2> HIDE DEF sel, inc
  <2> QED
    BY <2>1, <2>2, <2>3 DEF Typed
<1> QED
  BY <1>4, <1>5

LEMMA DatagramTyped ==
  ASSUME NEW n \in Nat
  PROVE  Datagram(n) \in Datagrams /\ Datagram(n).n = n
<1>1. (n + 1) % (UINT16_MAX + 1) \in 0 .. UINT16_MAX
  <2>1. PICK u \in Nat : u = UINT16_MAX
    BY Words
  <2>2. u + 1 \in Nat /\ u + 1 > 0 /\ n + 1 \in Nat
    BY <2>1
  <2>3. (n + 1) % (u + 1) \in 0 .. u
    BY <2>1, <2>2
  <2> QED
    BY <2>1, <2>3
<1> QED
  BY <1>1 DEF Datagram, Datagrams

LEMMA DatagramFields ==
  ASSUME NEW d \in Datagrams
  PROVE  d.n \in Nat /\ d.id \in Nat /\ d.id <= UINT16_MAX
<1>1. d.n \in Nat /\ d.id \in 0 .. UINT16_MAX
  BY DEF Datagrams
<1>2. \A i \in 0 .. UINT16_MAX : i \in Nat /\ i <= UINT16_MAX
  BY DEF UINT16_MAX
<1> QED
  BY <1>1, <1>2

(* The datagrams that p sends, the one that is new among them. *)
Sends(p) ==
  LET d == Datagram(sent[p] + 1)
  IN  {d} \cup Padding(Kept(p, d), d)

LEMMA SendsTyped ==
  ASSUME TypeOK, NEW p \in Peers
  PROVE  /\ Kept(p, Datagram(sent[p] + 1)) \in SUBSET Datagrams
         /\ Sends(p) \in SUBSET Datagrams
<1> DEFINE d == Datagram(sent[p] + 1)
<1>1. d \in Datagrams
  BY DatagramTyped DEF TypeOK
<1> HIDE DEF d
<1>2. Kept(p, d) \in SUBSET Datagrams
  BY <1>1 DEF Kept, TypeOK
<1>3. Padding(Kept(p, d), d) \subseteq Kept(p, d)
  BY DEF Padding
<1> QED
  BY <1>1, <1>2, <1>3 DEF Sends, d

(* What the ends count. *)
LEMMA Counters ==
  ASSUME TypeOK, NEW p \in Peers
  PROVE  /\ sent[p] \in Nat /\ out[p] \in Nat /\ turns[p] \in Nat /\ budget[p] \in Nat
         /\ recv_id[p] \in Nat /\ recv_id[p] <= UINT16_MAX
<1>1. /\ sent[p] \in Nat /\ out[p] \in Nat /\ turns[p] \in Nat /\ budget[p] \in Nat
      /\ recv_id[p] \in 0 .. UINT16_MAX
  BY Zenon DEF TypeOK
<1>2. \A i \in 0 .. UINT16_MAX : i \in Nat /\ i <= UINT16_MAX
  BY DEF UINT16_MAX
<1> QED
  BY <1>1, <1>2

(* What a call of algo_thunder_on_datagram does, by the result of its loop. *)
Transmits(p, st) ==
  /\ IF up[p] = {} THEN st \in NoLink(p) ELSE st = Loop(p, Sends(p))
  /\ emit_id' = [emit_id EXCEPT ![p] = Datagram(sent[p] + 1).id]
  /\ stored' = [stored EXCEPT ![p] = Kept(p, Datagram(sent[p] + 1))]
  /\ sent' = [sent EXCEPT ![p] = sent[p] + 1]
  /\ selected' = [selected EXCEPT ![p] = st.sel]
  /\ to_increment' = [to_increment EXCEPT ![p] = st.inc]
  /\ turns' = [turns EXCEPT ![p] = turns[p] + st.n]
  /\ chan' = [chan EXCEPT ![p] = st.chan]
  /\ received' = IF Resets(p, st)
                 THEN [received EXCEPT ![p] = [l \in Links |-> blacklisted[p][l] + 1]]
                 ELSE received
  /\ exact' = [exact EXCEPT ![p] = exact[p] /\ ~ Resets(p, st),
                            ![Other(p)] = exact[Other(p)] /\ st.whole]
  /\ budget[p] > 0 /\ budget' = [budget EXCEPT ![p] = budget[p] - 1]
  /\ UNCHANGED <<recv_id, timers, out, skipped, blacklisted, up, alive, breaks>>

LEMMA OnDatagramIs ==
  ASSUME TypeOK, NEW p \in Peers, OnDatagram(p)
  PROVE  \E st \in Typed : Transmits(p, st)
<1>1. PICK st \in IF up[p] = {} THEN NoLink(p) ELSE {Loop(p, Sends(p))} :
           /\ emit_id' = [emit_id EXCEPT ![p] = Datagram(sent[p] + 1).id]
           /\ stored' = [stored EXCEPT ![p] = Kept(p, Datagram(sent[p] + 1))]
           /\ sent' = [sent EXCEPT ![p] = Datagram(sent[p] + 1).n]
           /\ selected' = [selected EXCEPT ![p] = st.sel]
           /\ to_increment' = [to_increment EXCEPT ![p] = st.inc]
           /\ turns' = [turns EXCEPT ![p] = turns[p] + st.n]
           /\ chan' = [chan EXCEPT ![p] = st.chan]
           /\ received' = IF Resets(p, st)
                          THEN [received EXCEPT ![p] = [l \in Links |-> blacklisted[p][l] + 1]]
                          ELSE received
           /\ exact' = [exact EXCEPT ![p] = exact[p] /\ ~ Resets(p, st),
                                     ![Other(p)] = @ /\ st.whole]
  BY Zenon DEF OnDatagram, Sends
<1>2. Datagram(sent[p] + 1).n = sent[p] + 1
  BY DatagramTyped DEF TypeOK
<1>3. st \in Typed
  BY SendsTyped, LoopTyped, NoLinkTyped
<1>4. [exact EXCEPT ![p] = exact[p] /\ ~ Resets(p, st)][Other(p)] = exact[Other(p)]
  BY Others DEF TypeOK
<1>5. /\ budget[p] > 0 /\ budget' = [budget EXCEPT ![p] = budget[p] - 1]
      /\ UNCHANGED <<recv_id, timers, out, skipped, blacklisted, up, alive, breaks>>
  BY DEF OnDatagram, receiving
<1> QED
  BY <1>1, <1>2, <1>3, <1>4, <1>5, Zenon DEF Transmits

(* The newest of the datagrams that are delivered is one of them. *)
LEMMA NewestIs ==
  ASSUME NEW S \in SUBSET Datagrams, S # {}
  PROVE  Newest(S) \in S /\ \A e \in S : e.id <= Newest(S).id
<1> DEFINE T == {UINT16_MAX - d.id : d \in S}
<1>1. T \in SUBSET Nat /\ T # {}
  BY DatagramFields DEF UINT16_MAX
<1>2. PICK m \in T : \A k \in T : m <= k
  <2> HIDE DEF T
  <2> QED
    BY <1>1, LeastNumber
<1>3. PICK d \in S : m = UINT16_MAX - d.id
  BY <1>2
<1>4. \A e \in S : e.id <= d.id
  <2> SUFFICES ASSUME NEW e \in S PROVE e.id <= d.id
    OBVIOUS
  <2>1. UINT16_MAX - d.id <= UINT16_MAX - e.id
    BY <1>2, <1>3
  <2>2. d \in Datagrams /\ e \in Datagrams
    OBVIOUS
  <2> QED
    BY <2>1, <2>2, DatagramFields DEF UINT16_MAX
<1> QED
  BY <1>4 DEF Newest

(* What a call of algo_thunder_on_stream works with. *)
Counted(q, l) == received[q][l] + Head(chan[Other(q)][l]).inc

LEMMA HeadTyped ==
  ASSUME TypeOK, NEW q \in Peers, NEW l \in Links, chan[Other(q)][l] # <<>>
  PROVE  /\ Head(chan[Other(q)][l]) \in Cells /\ Tail(chan[Other(q)][l]) \in Seq(Cells)
         /\ Head(chan[Other(q)][l]).inc \in Nat
         /\ Head(chan[Other(q)][l]).dgs \in SUBSET Datagrams
         /\ Counted(q, l) \in Nat /\ received[q][l] <= Counted(q, l)
<1>1. chan[Other(q)][l] \in Seq(Cells) /\ received[q][l] \in Nat
  BY Others DEF TypeOK
<1>2. Head(chan[Other(q)][l]) \in Cells /\ Tail(chan[Other(q)][l]) \in Seq(Cells)
  BY <1>1
<1> QED
  BY <1>1, <1>2, CellFields DEF Counted

Receives(q, l, now, late, n, fresh) ==
  /\ chan[Other(q)][l] # <<>> /\ now \subseteq late
  /\ received' = [received EXCEPT ![q][l] = n]
  /\ \A i \in late : /\ Expected(l, i, n) \in Nat
                     /\ i # l /\ received[q][i] < Expected(l, i, n)
  /\ blacklisted' = [blacklisted EXCEPT ![q] =
       [i \in Links |-> IF i \in now /\ blacklisted[q][i] < Expected(l, i, n)
                        THEN Expected(l, i, n) ELSE blacklisted[q][i]]]
  /\ timers' = [timers EXCEPT ![q] =
       timers[q] \cup {<<i, Expected(l, i, n)>> : i \in late \ now}]
  /\ IF fresh = {} THEN UNCHANGED <<recv_id, out, skipped>>
     ELSE /\ recv_id' = [recv_id EXCEPT ![q] = Newest(fresh).id]
          /\ out' = [out EXCEPT ![q] = Newest(fresh).n]
          /\ skipped' = [skipped EXCEPT ![q] = skipped[q] \cup
               {i \in (out[q] + 1) .. Newest(fresh).n : \A d \in fresh : d.n # i}]
  /\ chan' = [chan EXCEPT ![Other(q)][l] = Tail(chan[Other(q)][l])]
  /\ UNCHANGED <<sending, up, alive, breaks, exact>>

LEMMA OnStreamIs ==
  ASSUME TypeOK, NEW q \in Peers, NEW l \in Links, OnStream(q, l)
  PROVE  \E now, late \in SUBSET Links :
           Receives(q, l, now, late, Counted(q, l), Fresh(q, Head(chan[Other(q)][l]).dgs))
<1> DEFINE n     == Counted(q, l)
           c     == Head(chan[Other(q)][l])
           count == [received[q] EXCEPT ![l] = @ + c.inc]
           late  == {i \in Links : count[i] < Expected(l, i, count[l])}
           fresh == Fresh(q, c.dgs)
<1>1. received[q] \in [Links -> Nat] /\ received \in [Peers -> [Links -> Nat]]
  BY DEF TypeOK
<1>2. /\ chan[Other(q)][l] # <<>>
      /\ received' = [received EXCEPT ![q] = count]
      /\ \E now \in SUBSET late :
           /\ blacklisted' = [blacklisted EXCEPT ![q] =
                 [i \in Links |-> IF i \in now /\ @[i] < Expected(l, i, count[l])
                                  THEN Expected(l, i, count[l]) ELSE @[i]]]
           /\ timers' = [timers EXCEPT ![q] =
                 @ \cup {<<i, Expected(l, i, count[l])>> : i \in late \ now}]
      /\ IF fresh = {} THEN UNCHANGED <<recv_id, out, skipped>>
         ELSE /\ recv_id' = [recv_id EXCEPT ![q] = Newest(fresh).id]
              /\ out' = [out EXCEPT ![q] = Newest(fresh).n]
              /\ skipped' = [skipped EXCEPT ![q] =
                   @ \cup {i \in (out[q] + 1) .. Newest(fresh).n : \A d \in fresh : d.n # i}]
      /\ chan' = [chan EXCEPT ![Other(q)][l] = Tail(@)]
      /\ UNCHANGED <<sending, up, alive, breaks, exact>>
  BY DEF OnStream
<1>3. n \in Nat
  BY <1>2, HeadTyped
<1>4. count[l] = n /\ \A i \in Links : i # l => count[i] = received[q][i]
  BY <1>1 DEF Counted
<1>5. [received EXCEPT ![q] = count] = [received EXCEPT ![q][l] = n]
  BY DEF Counted
<1>6. ASSUME NEW i \in late
      PROVE  Expected(l, i, n) \in Nat /\ i # l /\ received[q][i] < Expected(l, i, n)
  <2>1. i \in Links /\ count[i] < Expected(l, i, n)
    BY <1>4
  <2>2. Expected(l, i, n) \in Int
    BY <1>3 DEF Expected
  <2>3. i = l => Expected(l, i, n) = n
    BY DEF Expected, Links
  <2> HIDE DEF count, n, late
  <2>4. i # l
    BY <1>3, <1>4, <2>1, <2>3
  <2>5. count[i] = received[q][i] /\ received[q][i] \in Nat
    BY <1>1, <1>4, <2>1, <2>4
  <2> QED
    BY <2>1, <2>2, <2>4, <2>5
<1>7. late \in SUBSET Links /\ \A now \in SUBSET late : now \in SUBSET Links
  OBVIOUS
<1> DEFINE Black(now, m) ==
             [blacklisted EXCEPT ![q] = [i \in Links |->
                IF i \in now /\ @[i] < Expected(l, i, m) THEN Expected(l, i, m) ELSE @[i]]]
           Timed(now, m) ==
             [timers EXCEPT ![q] = @ \cup {<<i, Expected(l, i, m)>> : i \in late \ now}]
<1> HIDE DEF late, n, count, fresh
<1>8. PICK now \in SUBSET late : blacklisted' = Black(now, n) /\ timers' = Timed(now, n)
  <2>1. PICK now \in SUBSET late :
          blacklisted' = Black(now, count[l]) /\ timers' = Timed(now, count[l])
    BY <1>2
  <2> HIDE DEF Black, Timed
  <2> QED
    BY <2>1, <1>4
<1>9. Receives(q, l, now, late, n, fresh)
  BY <1>2, <1>5, <1>6, <1>8, Zenon DEF Receives
<1> QED
  BY <1>7, <1>9 DEF n, fresh

LEMMA StartsAre ==
  ASSUME NEW s \in Starts
  PROVE  s \in Nat /\ s + 1 \in 0 .. UINT16_MAX
<1>1. s \in 0 .. (UINT16_MAX - 1)
  BY ThunderAssumption
<1>2. PICK u \in Nat : u = UINT16_MAX
  BY Words
<1>3. s \in 0 .. (u - 1)
  BY <1>1, <1>2
<1>4. s \in Nat /\ s + 1 \in 0 .. u
  BY <1>3
<1> QED
  BY <1>2, <1>4

LEMMA InitTypeOK == Init => TypeOK
<1> SUFFICES ASSUME NEW s \in Starts, Init,
                    emit_id = [p \in Peers |-> s + 1], recv_id = emit_id,
                    stored = [p \in Peers |->
                                {Datagram(n) : n \in {n \in 1 .. s : n > s - TotalLinks}}],
                    selected = [p \in Peers |-> (s + TotalLinks - 1) % TotalLinks],
                    received = [p \in Peers |-> [l \in Links |-> 1 + TurnsOf(s, l)]],
                    sent = [p \in Peers |-> s], out = sent, turns = [p \in Peers |-> s]
             PROVE  TypeOK
  BY DEF Init
<1>1. s \in Nat /\ s + 1 \in 0 .. UINT16_MAX
  BY StartsAre
<1>2. stored \in [Peers -> SUBSET Datagrams]
  BY <1>1, DatagramTyped
<1>3. (s + TotalLinks - 1) % TotalLinks \in Links
  BY <1>1, ThunderAssumption DEF Links
<1>4. received \in [Peers -> [Links -> Nat]]
  BY <1>1, TurnsNext, ThunderAssumption, SMTT(30)
<1>5. /\ to_increment = [p \in Peers |-> [l \in Links |-> 0]]
      /\ blacklisted = [p \in Peers |-> [l \in Links |-> 0]]
      /\ timers = [p \in Peers |-> {}] /\ up = [p \in Peers |-> Links] /\ alive = Links
      /\ chan = [p \in Peers |-> [l \in Links |-> <<>>]]
      /\ breaks = MaxBreaks /\ budget = MaxSent
      /\ skipped = [p \in Peers |-> {}] /\ exact = [p \in Peers |-> TRUE]
  BY DEF Init
<1>6. /\ to_increment \in [Peers -> [Links -> 0 .. UINT8_MAX]]
      /\ blacklisted \in [Peers -> [Links -> Nat]]
      /\ timers \in [Peers -> SUBSET (Links \X Nat)]
      /\ up \in [Peers -> SUBSET Links] /\ alive \in SUBSET Links
      /\ skipped \in [Peers -> SUBSET Nat] /\ exact \in [Peers -> BOOLEAN]
  BY <1>5 DEF UINT8_MAX
<1>7. chan \in [Peers -> [Links -> Seq(Cells)]]
  BY <1>5
<1>8. breaks \in 0 .. MaxBreaks /\ budget \in [Peers -> Nat]
  BY <1>5, ThunderAssumption
<1>9. /\ emit_id \in [Peers -> 0 .. UINT16_MAX] /\ recv_id \in [Peers -> 0 .. UINT16_MAX]
      /\ selected \in [Peers -> Links]
      /\ sent \in [Peers -> Nat] /\ out \in [Peers -> Nat] /\ turns \in [Peers -> Nat]
  BY <1>1, <1>3
<1> QED
  BY <1>2, <1>4, <1>6, <1>7, <1>8, <1>9 DEF TypeOK

LEMMA StepTypeOK == TypeOK /\ [Next]_vars => TypeOK'
<1> SUFFICES ASSUME TypeOK, [Next]_vars PROVE TypeOK'
  OBVIOUS
<1>1. ASSUME NEW p \in Peers, OnDatagram(p) PROVE TypeOK'
  <2>1. PICK st \in Typed : Transmits(p, st)
    BY <1>1, OnDatagramIs
  <2>2. /\ st.sel \in Links /\ st.inc \in [Links -> 0 .. UINT8_MAX] /\ st.n \in Nat
        /\ st.chan \in [Links -> Seq(Cells)] /\ st.whole \in BOOLEAN /\ st.more \in BOOLEAN
    BY DEF Typed
  <2>3. sent[p] + 1 \in Nat /\ turns[p] + st.n \in Nat
    BY <2>2, Counters
  <2>4. Datagram(sent[p] + 1).id \in 0 .. UINT16_MAX
    BY <2>3, DatagramTyped DEF Datagrams
  <2>5. emit_id' \in [Peers -> 0 .. UINT16_MAX] /\ recv_id' \in [Peers -> 0 .. UINT16_MAX]
    BY <2>1, <2>4 DEF Transmits, TypeOK
  <2>6. stored' \in [Peers -> SUBSET Datagrams]
    BY <2>1, SendsTyped DEF Transmits, TypeOK
  <2>7. selected' \in [Peers -> Links] /\ to_increment' \in [Peers -> [Links -> 0 .. UINT8_MAX]]
    BY <2>1, <2>2 DEF Transmits, TypeOK
  <2>8. received' \in [Peers -> [Links -> Nat]] /\ blacklisted' \in [Peers -> [Links -> Nat]]
    <3>1. [l \in Links |-> blacklisted[p][l] + 1] \in [Links -> Nat]
      BY DEF TypeOK
    <3> QED
      BY <2>1, <3>1 DEF Transmits, TypeOK
  <2>9. /\ timers' \in [Peers -> SUBSET (Links \X Nat)]
        /\ up' \in [Peers -> SUBSET Links] /\ alive' \in SUBSET Links
        /\ breaks' \in 0 .. MaxBreaks /\ out' \in [Peers -> Nat]
        /\ skipped' \in [Peers -> SUBSET Nat]
    BY <2>1, Zenon DEF Transmits, TypeOK
  <2>10. chan' \in [Peers -> [Links -> Seq(Cells)]]
    BY <2>1, <2>2 DEF Transmits, TypeOK
  <2>11. sent' \in [Peers -> Nat] /\ turns' \in [Peers -> Nat] /\ budget' \in [Peers -> Nat]
    <3>1. budget[p] - 1 \in Nat
      BY <2>1, Counters DEF Transmits
    <3>2. sent \in [Peers -> Nat] /\ turns \in [Peers -> Nat] /\ budget \in [Peers -> Nat]
      BY Zenon DEF TypeOK
    <3> QED
      BY <2>1, <2>3, <3>1, <3>2 DEF Transmits
  <2>12. exact' \in [Peers -> BOOLEAN]
    <3> DEFINE a == exact[p] /\ ~ Resets(p, st)
               b == exact[Other(p)] /\ st.whole
    <3>1. a \in BOOLEAN /\ b \in BOOLEAN
      BY <2>2 DEF Resets
    <3>2. exact' = [exact EXCEPT ![p] = a, ![Other(p)] = b]
      BY <2>1 DEF Transmits
    <3> HIDE DEF a, b
    <3> QED
      BY <3>1, <3>2 DEF TypeOK
  <2> QED
    BY <2>5, <2>6, <2>7, <2>8, <2>9, <2>10, <2>11, <2>12 DEF TypeOK
<1>2. ASSUME NEW q \in Peers, NEW l \in Links, OnStream(q, l) PROVE TypeOK'
  <2> DEFINE n     == Counted(q, l)
             fresh == Fresh(q, Head(chan[Other(q)][l]).dgs)
  <2>1. PICK now, late \in SUBSET Links : Receives(q, l, now, late, n, fresh)
    BY <1>2, OnStreamIs
  <2>2. n \in Nat /\ Tail(chan[Other(q)][l]) \in Seq(Cells) /\ fresh \in SUBSET Datagrams
    BY <2>1, HeadTyped DEF Receives, Fresh
  <2> HIDE DEF n, fresh
  <2>3. received' \in [Peers -> [Links -> Nat]]
    BY <2>1, <2>2 DEF Receives, TypeOK
  <2>4. blacklisted' \in [Peers -> [Links -> Nat]]
    <3>1. \A i \in now : Expected(l, i, n) \in Nat
      BY <2>1 DEF Receives
    <3> DEFINE b == [i \in Links |-> IF i \in now /\ blacklisted[q][i] < Expected(l, i, n)
                                     THEN Expected(l, i, n) ELSE blacklisted[q][i]]
    <3>2. b \in [Links -> Nat]
      BY <3>1 DEF TypeOK
    <3>3. blacklisted' = [blacklisted EXCEPT ![q] = b]
      BY <2>1 DEF Receives
    <3> HIDE DEF b
    <3> QED
      BY <3>2, <3>3 DEF TypeOK
  <2>5. timers' \in [Peers -> SUBSET (Links \X Nat)]
    <3>1. {<<i, Expected(l, i, n)>> : i \in late \ now} \in SUBSET (Links \X Nat)
      BY <2>1 DEF Receives
    <3>2. timers[q] \in SUBSET (Links \X Nat)
      BY DEF TypeOK
    <3>3. timers[q] \cup {<<i, Expected(l, i, n)>> : i \in late \ now} \in SUBSET (Links \X Nat)
      BY <3>1, <3>2, Zenon
    <3> QED
      BY <2>1, <3>3 DEF Receives, TypeOK
  <2>6. /\ recv_id' \in [Peers -> 0 .. UINT16_MAX] /\ out' \in [Peers -> Nat]
        /\ skipped' \in [Peers -> SUBSET Nat]
    <3>1. CASE fresh = {}
      <4>1. recv_id' = recv_id /\ out' = out /\ skipped' = skipped
        BY <2>1, <3>1 DEF Receives
      <4> QED
        BY <4>1 DEF TypeOK
    <3>2. CASE fresh # {}
      <4> DEFINE d == Newest(fresh)
                 x == {i \in (out[q] + 1) .. d.n : \A e \in fresh : e.n # i}
      <4>1. d.n \in Nat /\ d.id \in 0 .. UINT16_MAX
        <5>1. d \in Datagrams
          BY <2>2, <3>2, NewestIs
        <5> QED
          BY <5>1 DEF Datagrams
      <4>2. /\ recv_id' = [recv_id EXCEPT ![q] = d.id] /\ out' = [out EXCEPT ![q] = d.n]
            /\ skipped' = [skipped EXCEPT ![q] = skipped[q] \cup x]
        BY <2>1, <3>2 DEF Receives
      <4> HIDE DEF d
      <4>3. out[q] \in Nat
        BY DEF TypeOK
      <4>4. x \in SUBSET Nat
        BY <4>1, <4>3
      <4> HIDE DEF x
      <4> QED
        BY <4>1, <4>2, <4>4 DEF TypeOK
    <3> QED
      BY <3>1, <3>2
  <2>7. chan' \in [Peers -> [Links -> Seq(Cells)]]
    BY <2>1, <2>2, Others DEF Receives, TypeOK
  <2>8. UNCHANGED <<sending, up, alive, breaks, exact>>
    BY <2>1 DEF Receives
  <2>9. /\ emit_id' = emit_id /\ stored' = stored /\ selected' = selected
        /\ to_increment' = to_increment /\ sent' = sent /\ turns' = turns /\ budget' = budget
        /\ up' = up /\ alive' = alive /\ breaks' = breaks /\ exact' = exact
    BY <2>8 DEF sending
  <2> QED
    BY <2>3, <2>4, <2>5, <2>6, <2>7, <2>9 DEF TypeOK
<1>3. ASSUME NEW q \in Peers, OnBlock(q) PROVE TypeOK'
  <2>1. PICK t \in timers[q] :
          /\ timers' = [timers EXCEPT ![q] = timers[q] \ {t}]
          /\ blacklisted' = IF received[q][t[1]] >= t[2] \/ blacklisted[q][t[1]] >= t[2]
                            THEN blacklisted ELSE [blacklisted EXCEPT ![q][t[1]] = t[2]]
    BY <1>3 DEF OnBlock
  <2>2. t[1] \in Links /\ t[2] \in Nat
    BY DEF TypeOK
  <2>3. /\ timers' \in [Peers -> SUBSET (Links \X Nat)]
    BY <2>1 DEF TypeOK
  <2>4. blacklisted' \in [Peers -> [Links -> Nat]]
    BY <2>1, <2>2 DEF TypeOK
  <2> QED
    BY <1>3, <2>3, <2>4 DEF OnBlock, TypeOK, sending
<1>4. ASSUME NEW p \in Peers, Notice(p) PROVE TypeOK'
  <2>1. up' \in [Peers -> SUBSET Links]
    <3>1. PICK l \in up[p] \ alive : up' = [up EXCEPT ![p] = up[p] \ {l}]
      BY <1>4 DEF Notice
    <3>2. up \in [Peers -> SUBSET Links]
      BY DEF TypeOK
    <3> QED
      BY <3>1, <3>2
  <2> QED
    BY <1>4, <2>1 DEF Notice, TypeOK, sending, receiving
<1>5. ASSUME NEW l \in Links, Break(l) PROVE TypeOK'
  <2>1. /\ alive' \in SUBSET Links /\ breaks' \in 0 .. MaxBreaks
    BY <1>5, ThunderAssumption DEF Break, TypeOK
  <2>2. chan' \in [Peers -> [Links -> Seq(Cells)]]
    BY <1>5 DEF Break, TypeOK
  <2>3. exact' \in [Peers -> BOOLEAN]
    BY <1>5 DEF Break, TypeOK
  <2> QED
    BY <1>5, <2>1, <2>2, <2>3 DEF Break, TypeOK, sending, receiving
<1>6. CASE UNCHANGED vars
  BY <1>6 DEF vars, sending, receiving, TypeOK
<1> QED
  BY <1>1, <1>2, <1>3, <1>4, <1>5, <1>6 DEF Next

(* Whatever is sent, received, delayed and broken, counters, identifiers,  *)
(* cells and counts stay within their widths; the counts of turns received *)
(* are natural numbers, and what is missed as well.                        *)
THEOREM TypeCorrect == Spec => []TypeOK
  BY InitTypeOK, StepTypeOK, PTL DEF Spec

-----------------------------------------------------------------------------
(* What the scheduler's loop does, whatever is blacklisted.                *)

LEMMA TurnsGrow ==
  ASSUME NEW a \in Nat, NEW b \in Nat, a <= b, NEW l \in Links
  PROVE  TurnsOf(a, l) <= TurnsOf(b, l)
<1> DEFINE N == TotalLinks
           x == a + N - 1 - l
           y == b + N - 1 - l
           d == x \div N
           q == y \div N
<1>1. N \in Nat \ {0} /\ l \in Nat /\ l < N
  BY ThunderAssumption DEF Links
<1>2. x \in Nat /\ y \in Nat /\ x <= y
  BY <1>1
<1> HIDE DEF N, x, y
<1>3. d \in Nat /\ q \in Nat /\ N * d <= x /\ y < N * (q + 1)
  BY <1>1, <1>2
<1> HIDE DEF d, q
<1>4. ~ (d >= q + 1)
  <2> SUFFICES ASSUME d >= q + 1 PROVE N * (q + 1) <= N * d
    BY <1>1, <1>2, <1>3
  <2> QED
    BY <1>1, <1>3
<1>5. d <= q
  BY <1>3, <1>4
<1> QED
  BY <1>5 DEF TurnsOf, d, q, x, y, N

(* In a round each link has a turn, and one turn more is its second one.   *)
LEMMA TurnsInRound ==
  ASSUME NEW t \in Nat, NEW n \in Nat, n >= TotalLinks + 1
  PROVE  /\ \A l \in Links : TurnsOf(t + n, l) > TurnsOf(t, l)
         /\ TurnsOf(t + n, LastOf(t + n)) > TurnsOf(t, LastOf(t + n)) + 1
<1>1. /\ TotalLinks \in 1 .. TotalLinks /\ 1 \in 1 .. TotalLinks
      /\ t + TotalLinks \in Nat /\ t + n \in Nat /\ t + (n - 1) \in Nat
      /\ t + TotalLinks <= t + (n - 1) /\ (t + (n - 1)) + 1 = t + n
  BY ThunderAssumption
<1>2. ASSUME NEW l \in Links
      PROVE  /\ TurnsOf(t + (n - 1), l) >= TurnsOf(t, l) + 1 /\ TurnsOf(t, l) \in Nat
             /\ TurnsOf(t + (n - 1), l) \in Nat
  <2>1. LastOf(t) \in Links /\ TurnsOf(t, l) \in Nat /\ TurnsOf(t + (n - 1), l) \in Nat
    BY <1>1, TurnsNext
  <2>2. Gap(LastOf(t), l) <= TotalLinks
    BY <2>1, GapIs
  <2>3. TurnsOf(t + TotalLinks, l) = TurnsOf(t, l) + 1
    BY <1>1, <2>2, TurnsNext
  <2> QED
    BY <1>1, <2>1, <2>3, TurnsGrow
<1>3. ASSUME NEW l \in Links
      PROVE  TurnsOf(t + n, l) = TurnsOf(t + (n - 1), l)
                                   + IF Gap(LastOf(t + (n - 1)), l) <= 1 THEN 1 ELSE 0
  <2>1. TurnsOf((t + (n - 1)) + 1, l) = TurnsOf(t + (n - 1), l)
                                   + IF Gap(LastOf(t + (n - 1)), l) <= 1 THEN 1 ELSE 0
    BY <1>1, TurnsNext
  <2> QED
    BY <1>1, <2>1
<1>4. LastOf(t + n) \in Links /\ Gap(LastOf(t + (n - 1)), LastOf(t + n)) = 1
  <2>1. PICK l \in Links : l = 0
    BY ThunderAssumption DEF Links
  <2>2. /\ LastOf(t + n) \in Links /\ LastOf(t + (n - 1)) \in Links
        /\ LastOf((t + (n - 1)) + 1) = (LastOf(t + (n - 1)) + 1) % TotalLinks
    BY <1>1, <2>1, TurnsNext
  <2>3. LastOf(t + n) = (LastOf(t + (n - 1)) + 1) % TotalLinks
    BY <1>1, <2>2
  <2> QED
    BY <1>1, <2>2, <2>3, GapIs
<1> QED
  BY <1>2, <1>3, <1>4

(* The turns that link l has had in the loop and that neither its count nor *)
(* a cell tell.                                                            *)
Untold(p, st, l) ==
  ((TurnsOf(turns[p] + st.n, l) - TurnsOf(turns[p], l))
     + (InFlight(chan[p][l]) + to_increment[p][l])) - (InFlight(st.chan[l]) + st.inc[l])

(* A count of a link that is up is told at the second turn at the latest.  *)
CountsKept(p, st) ==
  /\ st.sel = LastOf(turns[p] + st.n)
  /\ \A l \in up[p] : st.inc[l] <= 1
  /\ st.whole => \A l \in Links : /\ Untold(p, st, l) % (UINT8_MAX + 1) = 0
                                  /\ l \in up[p] => Untold(p, st, l) = 0
  /\ ~ st.whole => \E l \in up[p] : l \notin alive

(* What is on its way stays, and more with the datagrams dgs may follow.   *)
Extended(p, dgs, st) ==
  \A l \in Links :
    /\ Len(chan[p][l]) <= Len(st.chan[l])
    /\ Len(chan[p][l]) = Len(st.chan[l]) => st.chan[l] = chan[p][l]
    /\ \A i \in 1 .. Len(st.chan[l]) :
         IF i <= Len(chan[p][l]) THEN st.chan[l][i] = chan[p][l][i]
         ELSE st.chan[l][i].dgs = dgs

(* After i iterations. *)
Tried(p, i, st) ==
  /\ st.n > 0 => st.sel \in up[p]
  /\ st.more => /\ st.n >= i
                /\ \A l \in up[p] : TurnsOf(turns[p] + st.n, l) > TurnsOf(turns[p], l)
                                      => is_blacklisted(p, l)
  /\ ~ st.more => \E l \in up[p] : /\ ~ is_blacklisted(p, l)
                                   /\ l \in alive => Len(st.chan[l]) > Len(chan[p][l])

(* What the counts are between calls. *)
TurnsKept(p) ==
  /\ selected[p] = LastOf(turns[p])
  /\ \A l \in up[p] : to_increment[p][l] <= 1

LEMMA LinkFields ==
  ASSUME TypeOK, NEW p \in Peers, NEW l \in Links
  PROVE  /\ chan[p][l] \in Seq(Cells) /\ Len(chan[p][l]) \in Nat
         /\ InFlight(chan[p][l]) \in Nat /\ to_increment[p][l] \in Nat
         /\ received[p][l] \in Nat /\ blacklisted[p][l] \in Nat
<1>1. /\ chan[p][l] \in Seq(Cells) /\ to_increment[p][l] \in 0 .. UINT8_MAX
      /\ received[p][l] \in Nat /\ blacklisted[p][l] \in Nat
  BY DEF TypeOK
<1>2. Len(chan[p][l]) \in Nat
  BY <1>1
<1>3. InFlight(chan[p][l]) \in Nat
  BY <1>1, InFlightNat
<1>4. to_increment[p][l] \in Nat
  BY <1>1, ByteNat, Zenon
<1> QED
  BY <1>1, <1>2, <1>3, <1>4

LEMMA StateFields ==
  ASSUME NEW st \in Typed, NEW l \in Links
  PROVE  /\ st.chan[l] \in Seq(Cells) /\ Len(st.chan[l]) \in Nat
         /\ InFlight(st.chan[l]) \in Nat /\ st.inc[l] \in Nat
<1>1. st.chan \in [Links -> Seq(Cells)] /\ st.inc \in [Links -> 0 .. UINT8_MAX]
  BY DEF Typed
<1>2. st.chan[l] \in Seq(Cells) /\ st.inc[l] \in 0 .. UINT8_MAX
  BY <1>1
<1>3. Len(st.chan[l]) \in Nat
  BY <1>2
<1>4. InFlight(st.chan[l]) \in Nat
  BY <1>2, InFlightNat
<1>5. st.inc[l] \in Nat
  BY <1>2, ByteNat, Zenon
<1> QED
  BY <1>2, <1>3, <1>4, <1>5

LEMMA LoopStarts ==
  ASSUME TypeOK, NEW p \in Peers, TurnsKept(p), NEW dgs
  PROVE  CountsKept(p, Start(p)) /\ Extended(p, dgs, Start(p)) /\ Tried(p, 0, Start(p))
<1>1. /\ Start(p).sel = selected[p] /\ Start(p).inc = to_increment[p] /\ Start(p).n = 0
      /\ Start(p).chan = chan[p] /\ Start(p).whole = TRUE /\ Start(p).more = TRUE
  BY DEF Start
<1>2. turns[p] + 0 = turns[p]
  BY Counters
<1>3. ASSUME NEW l \in Links
      PROVE  /\ TurnsOf(turns[p], l) \in Nat /\ InFlight(chan[p][l]) \in Nat
             /\ to_increment[p][l] \in Nat /\ Len(chan[p][l]) \in Nat
  <2>1. 1 \in 1 .. TotalLinks
    BY ThunderAssumption
  <2>2. TurnsOf(turns[p], l) \in Nat
    BY <2>1, Counters, TurnsNext
  <2> QED
    BY <2>2, LinkFields
<1>4. \A l \in Links : Untold(p, Start(p), l) = 0
  BY <1>1, <1>2, <1>3 DEF Untold
<1>5. CountsKept(p, Start(p))
  BY <1>1, <1>2, <1>4 DEF CountsKept, TurnsKept, UINT8_MAX
<1>6. Extended(p, dgs, Start(p))
  BY <1>1, <1>3 DEF Extended
<1>7. Tried(p, 0, Start(p))
  <2>1. \A l \in up[p] : TurnsOf(turns[p], l) > TurnsOf(turns[p], l) => is_blacklisted(p, l)
    BY <1>3 DEF TypeOK
  <2> QED
    BY <1>1, <1>2, <2>1 DEF Tried
<1> QED
  BY <1>5, <1>6, <1>7

LEMMA IterationCounts ==
  ASSUME TypeOK, NEW p \in Peers, up[p] # {}, NEW dgs \in SUBSET Datagrams,
         NEW st \in Typed, CountsKept(p, st)
  PROVE  CountsKept(p, Iteration(p, dgs, st))
<1> DEFINE it == Iteration(p, dgs, st)
<1>1. up[p] \subseteq Links
  BY DEF TypeOK
<1>2. /\ st.sel \in Links /\ st.inc \in [Links -> 0 .. UINT8_MAX]
      /\ st.n \in Nat /\ st.chan \in [Links -> Seq(Cells)] /\ st.whole \in BOOLEAN
  BY DEF Typed
<1>3. PICK k, l, inc : \E use \in BOOLEAN : IterationTo(p, dgs, st, k, l, inc, use)
  BY <1>1, <1>2, IterationIs
<1>4. PICK use \in BOOLEAN : IterationTo(p, dgs, st, k, l, inc, use)
  BY <1>3
<1>5. k \in 1 .. TotalLinks /\ l \in up[p] /\ l \in Links
  BY <1>1, <1>4 DEF IterationTo
<1>6. k \in Nat
  BY <1>5
<1>7. \A j \in up[p] : Gap(st.sel, j) <= k <=> j = l
  <2>1. k = Gap(st.sel, l) /\ \A j \in up[p] : Gap(st.sel, j) <= k => j = l
    BY <1>4 DEF IterationTo
  <2> QED
    BY <2>1, <1>6
<1>8. inc \in [Links -> 0 .. UINT8_MAX] /\ \A j \in Links : inc[j] \in Nat
  <2>1. inc \in [Links -> 0 .. UINT8_MAX]
    BY <1>4 DEF IterationTo
  <2> QED
    BY <2>1, Bytes
<1>9. \A j \in Links : inc[j] = (st.inc[j] + IF Gap(st.sel, j) <= k THEN 1 ELSE 0) % 256
  <2>1. \A j \in Links :
          inc[j] = (st.inc[j] + IF Gap(st.sel, j) <= k THEN 1 ELSE 0) % (UINT8_MAX + 1)
    BY <1>4, Zenon DEF IterationTo
  <2> QED
    BY <2>1, Bytes
<1>10. use = (~ is_blacklisted(p, l) \/ inc[l] >= PROBE_EVERY) /\ l = (st.sel + k) % TotalLinks
  BY <1>4 DEF IterationTo
<1>11. /\ it.sel = l /\ it.inc = (IF use THEN [inc EXCEPT ![l] = 0] ELSE inc)
       /\ it.n = st.n + k /\ it.whole = (st.whole /\ (use => l \in alive))
       /\ it.chan = IF use /\ l \in alive
                    THEN [st.chan EXCEPT ![l] = Append(@, [inc |-> inc[l], dgs |-> dgs])]
                    ELSE st.chan
  BY <1>4 DEF IterationTo
<1> HIDE DEF it
<1>12. st.sel = LastOf(turns[p] + st.n)
  BY DEF CountsKept
<1>13. turns[p] \in Nat /\ turns[p] + st.n \in Nat /\ turns[p] + it.n = (turns[p] + st.n) + k
  BY <1>2, <1>6, <1>11, Counters
<1>14. it.sel = LastOf(turns[p] + it.n)
  <2>1. LastOf((turns[p] + st.n) + k) = (LastOf(turns[p] + st.n) + k) % TotalLinks
    BY <1>5, <1>13, TurnsNext
  <2> QED
    BY <2>1, <1>10, <1>11, <1>12, <1>13
<1>15. ASSUME NEW j \in Links
       PROVE  /\ TurnsOf(turns[p] + it.n, j)
                   = TurnsOf(turns[p] + st.n, j) + IF Gap(st.sel, j) <= k THEN 1 ELSE 0
              /\ TurnsOf(turns[p] + st.n, j) \in Nat /\ TurnsOf(turns[p], j) \in Nat
  <2>1. /\ TurnsOf((turns[p] + st.n) + k, j) = TurnsOf(turns[p] + st.n, j)
             + IF Gap(LastOf(turns[p] + st.n), j) <= k THEN 1 ELSE 0
        /\ TurnsOf(turns[p] + st.n, j) \in Nat
    BY <1>5, <1>13, TurnsNext
  <2>2. TurnsOf(turns[p], j) \in Nat
    BY <1>5, <1>13, TurnsNext
  <2> QED
    BY <2>1, <2>2, <1>12, <1>13
<1>16. ASSUME NEW j \in up[p] PROVE inc[j] = st.inc[j] + (IF j = l THEN 1 ELSE 0) /\ st.inc[j] <= 1
  <2>1. j \in Links
    BY <1>1
  <2>2. st.inc[j] \in Nat
    BY <2>1, StateFields
  <2>3. st.inc[j] <= 1
    BY DEF CountsKept
  <2>4. inc[j] = (st.inc[j] + IF j = l THEN 1 ELSE 0) % 256
    BY <1>7, <1>9, <2>1
  <2> QED
    BY <2>2, <2>3, <2>4
<1>17. ASSUME NEW j \in up[p] PROVE it.inc[j] <= 1
  <2>1. inc[j] \in Nat /\ st.inc[j] \in Nat
    BY <1>1, <1>8, StateFields
  <2>2. CASE j # l
    <3>1. it.inc[j] = inc[j]
      BY <1>8, <1>11, <2>2
    <3> QED
      BY <1>16, <2>1, <2>2, <3>1
  <2>3. CASE j = l /\ use
    <3>1. it.inc[j] = 0
      BY <1>5, <1>8, <1>11, <2>3
    <3> QED
      BY <3>1
  <2>4. CASE j = l /\ ~ use
    <3>1. ~ (inc[l] >= 2)
      BY <1>10, <2>4 DEF PROBE_EVERY
    <3>2. it.inc[j] = inc[l]
      BY <1>11, <2>4
    <3> QED
      BY <2>1, <2>4, <3>1, <3>2
  <2> QED
    BY <2>2, <2>3, <2>4
<1>18. ASSUME it.whole, NEW j \in Links
       PROVE  /\ Untold(p, it, j) % (UINT8_MAX + 1) = 0
              /\ j \in up[p] => Untold(p, it, j) = 0
  <2>1. st.whole /\ (use => l \in alive)
    BY <1>2, <1>11, <1>18
  <2>2. PICK g : g = (IF Gap(st.sel, j) <= k THEN 1 ELSE 0) /\ g \in {0, 1}
    OBVIOUS
  <2>3. PICK a, b \in Nat : a = TurnsOf(turns[p] + st.n, j) /\ b = TurnsOf(turns[p], j)
    BY <1>15
  <2>4. PICK e \in Nat : e = InFlight(chan[p][j]) + to_increment[p][j]
    BY LinkFields
  <2>5. PICK f, h, i \in Nat : f = InFlight(st.chan[j]) /\ h = st.inc[j] /\ i = inc[j]
    BY <1>8, StateFields
  <2>6. /\ Untold(p, st, j) = ((a - b) + e) - (f + h)
        /\ (((a - b) + e) - (f + h)) % 256 = 0
        /\ j \in up[p] => ((a - b) + e) - (f + h) = 0
    <3>1. PICK w \in Int : w = ((a - b) + e) - (f + h)
      OBVIOUS
    <3>2. w = Untold(p, st, j)
      BY <2>3, <2>4, <2>5, <3>1 DEF Untold
    <3>3. w % (UINT8_MAX + 1) = 0 /\ (j \in up[p] => w = 0)
      BY <2>1, <3>2, Zenon DEF CountsKept
    <3>4. w % 256 = 0
      BY <3>3, Bytes
    <3> QED
      BY <3>1, <3>2, <3>3, <3>4
  <2>7. InFlight(it.chan[j]) + it.inc[j] = f + i
    <3>1. CASE j = l /\ use
      <4>1. it.inc[j] = 0
        BY <1>5, <1>8, <1>11, <3>1
      <4> DEFINE c == [inc |-> inc[l], dgs |-> dgs]
      <4>2. inc[l] \in 0 .. UINT8_MAX
        BY <1>5, <1>8
      <4>3. c \in Cells /\ c.inc = inc[l]
        BY <4>2, CellTyped
      <4>4. it.chan = [st.chan EXCEPT ![l] = Append(@, c)]
        BY <1>11, <2>1, <3>1
      <4> HIDE DEF c
      <4>5. it.chan[j] = Append(st.chan[j], c)
        BY <4>4, <1>2, <1>5, <3>1
      <4>6. InFlight(it.chan[j]) = f + i
        BY <2>5, <3>1, <4>3, <4>5, InFlightAppend, StateFields
      <4> QED
        BY <2>5, <4>1, <4>6
    <3>2. CASE ~ (j = l /\ use)
      <4>1. it.inc[j] = inc[j]
        BY <1>8, <1>11, <3>2
      <4>2. it.chan[j] = st.chan[j]
        BY <1>2, <1>11, <3>2
      <4> QED
        BY <2>5, <4>1, <4>2
    <3> QED
      BY <3>1, <3>2
  <2>8. i = (h + g) % 256
    BY <1>9, <2>2, <2>5
  <2>9. Untold(p, it, j) = (((a + g) - b) + e) - (f + i)
    <3>1. TurnsOf(turns[p] + it.n, j) = a + g
      BY <1>15, <2>2, <2>3
    <3> QED
      BY <2>3, <2>4, <2>7, <3>1 DEF Untold
  <2>10. j \in up[p] => i = h + g
    BY <1>7, <1>16, <2>2, <2>5
  <2>11. Untold(p, it, j) % 256 = 0
    <3>1. PICK u \in Int : u = ((a - b) + e) - (f + h)
      OBVIOUS
    <3>2. (((a + g) - b) + e) - (f + i) = (u + (h + g)) - i
      BY <2>2, <3>1
    <3>3. u % 256 = 0 /\ h + g \in Nat
      BY <2>2, <2>6, <3>1
    <3> QED
      BY <2>8, <2>9, <3>2, <3>3, ByteKept
  <2>12. j \in up[p] => Untold(p, it, j) = 0
    <3> SUFFICES ASSUME j \in up[p] PROVE (((a + g) - b) + e) - (f + i) = 0
      BY <2>9
    <3>1. ((a - b) + e) - (f + h) = 0 /\ i = h + g
      BY <2>6, <2>10
    <3> QED
      BY <2>2, <3>1
  <2> QED
    BY <2>11, <2>12, Bytes
<1>19. ASSUME ~ it.whole PROVE \E j \in up[p] : j \notin alive
  <2>1. ~ st.whole \/ l \notin alive
    BY <1>11, <1>19
  <2> QED
    BY <1>5, <2>1 DEF CountsKept
<1> QED
  BY <1>14, <1>17, <1>18, <1>19 DEF CountsKept, it

LEMMA IterationExtends ==
  ASSUME TypeOK, NEW p \in Peers, up[p] # {}, NEW dgs \in SUBSET Datagrams,
         NEW st \in Typed, Extended(p, dgs, st)
  PROVE  LET it == Iteration(p, dgs, st)
         IN  /\ Extended(p, dgs, it)
             /\ \A l \in Links : Len(st.chan[l]) <= Len(it.chan[l])
             /\ it.sel \in up[p] /\ it.more = is_blacklisted(p, it.sel)
             /\ ~ is_blacklisted(p, it.sel) /\ it.sel \in alive
                  => Len(chan[p][it.sel]) < Len(it.chan[it.sel])
<1> DEFINE it == Iteration(p, dgs, st)
<1>1. up[p] \subseteq Links
  BY DEF TypeOK
<1>2. /\ st.sel \in Links /\ st.inc \in [Links -> 0 .. UINT8_MAX]
      /\ st.n \in Nat /\ st.chan \in [Links -> Seq(Cells)]
  BY DEF Typed
<1>3. PICK k, l, inc : \E use \in BOOLEAN : IterationTo(p, dgs, st, k, l, inc, use)
  BY <1>1, <1>2, IterationIs
<1>4. PICK use \in BOOLEAN : IterationTo(p, dgs, st, k, l, inc, use)
  BY <1>3
<1> DEFINE c == [inc |-> inc[l], dgs |-> dgs]
<1>5. /\ l \in up[p] /\ l \in Links /\ (~ is_blacklisted(p, l) => use)
      /\ inc[l] \in 0 .. UINT8_MAX
  BY <1>1, <1>4 DEF IterationTo
<1>6. /\ it.sel = l /\ it.more = is_blacklisted(p, l)
      /\ it.chan = IF use /\ l \in alive THEN [st.chan EXCEPT ![l] = Append(@, c)]
                   ELSE st.chan
  BY <1>4 DEF IterationTo
<1>7. c \in Cells /\ c.dgs = dgs
  BY <1>5, CellTyped
<1> HIDE DEF it, c
<1>8. ASSUME NEW j \in Links
      PROVE  /\ Len(st.chan[j]) <= Len(it.chan[j])
             /\ Len(chan[p][j]) <= Len(it.chan[j])
             /\ Len(chan[p][j]) = Len(it.chan[j]) => it.chan[j] = chan[p][j]
             /\ \A i \in 1 .. Len(it.chan[j]) :
                  IF i <= Len(chan[p][j]) THEN it.chan[j][i] = chan[p][j][i]
                  ELSE it.chan[j][i].dgs = dgs
             /\ j = l /\ use /\ l \in alive => Len(chan[p][j]) < Len(it.chan[j])
  <2>1. PICK s \in Seq(Cells) : s = st.chan[j] /\ Len(s) \in Nat
    BY StateFields
  <2>2. PICK o \in Seq(Cells) : o = chan[p][j] /\ Len(o) \in Nat
    BY LinkFields
  <2>3. /\ Len(o) <= Len(s) /\ (Len(o) = Len(s) => s = o)
        /\ \A i \in 1 .. Len(s) : IF i <= Len(o) THEN s[i] = o[i] ELSE s[i].dgs = dgs
    BY <2>1, <2>2 DEF Extended
  <2>4. CASE ~ (j = l /\ use /\ l \in alive)
    <3>1. it.chan[j] = s
      BY <1>2, <1>6, <2>1, <2>4
    <3> QED
      BY <2>1, <2>2, <2>3, <2>4, <3>1
  <2>5. CASE j = l /\ use /\ l \in alive
    <3>1. it.chan[j] = Append(s, c)
      BY <1>2, <1>6, <2>1, <2>5
    <3>2. /\ Len(Append(s, c)) = Len(s) + 1 /\ Append(s, c)[Len(s) + 1] = c
          /\ \A i \in 1 .. Len(s) : Append(s, c)[i] = s[i]
      BY <1>7, <2>1
    <3>3. ASSUME NEW i \in 1 .. (Len(s) + 1)
          PROVE  IF i <= Len(o) THEN Append(s, c)[i] = o[i] ELSE Append(s, c)[i].dgs = dgs
      <4>1. CASE i \in 1 .. Len(s)
        BY <2>3, <3>2, <4>1
      <4>2. CASE i = Len(s) + 1
        BY <1>7, <2>1, <2>2, <2>3, <3>2, <4>2
      <4> QED
        BY <2>1, <4>1, <4>2
    <3>4. Len(it.chan[j]) = Len(s) + 1 /\ Len(chan[p][j]) = Len(o)
      BY <2>2, <3>1, <3>2
    <3>5. /\ Len(st.chan[j]) <= Len(it.chan[j]) /\ Len(chan[p][j]) < Len(it.chan[j])
      BY <2>1, <2>2, <2>3, <3>4
    <3>6. \A i \in 1 .. Len(it.chan[j]) :
            IF i <= Len(chan[p][j]) THEN it.chan[j][i] = chan[p][j][i]
            ELSE it.chan[j][i].dgs = dgs
      BY <2>2, <3>1, <3>3, <3>4
    <3> HIDE DEF it
    <3>7. PICK m, n \in Nat : m = Len(it.chan[j]) /\ n = Len(chan[p][j])
      BY <2>1, <2>2, <3>4
    <3> QED
      BY <3>5, <3>6, <3>7
  <2> QED
    BY <2>4, <2>5
<1>9. Extended(p, dgs, it)
  BY <1>8 DEF Extended
<1>10. ~ is_blacklisted(p, l) /\ l \in alive => Len(chan[p][l]) < Len(it.chan[l])
  BY <1>5, <1>8
<1> QED
  BY <1>5, <1>6, <1>8, <1>9, <1>10 DEF it

LEMMA IterationTries ==
  ASSUME TypeOK, NEW p \in Peers, up[p] # {}, NEW dgs \in SUBSET Datagrams,
         NEW st \in Typed, CountsKept(p, st), Extended(p, dgs, st), st.more,
         NEW i \in 0 .. TotalLinks, Tried(p, i, st)
  PROVE  Tried(p, i + 1, Iteration(p, dgs, st))
<1> DEFINE it == Iteration(p, dgs, st)
<1>1. up[p] \subseteq Links
  BY DEF TypeOK
<1>2. /\ st.sel \in Links /\ st.inc \in [Links -> 0 .. UINT8_MAX] /\ st.n \in Nat
  BY DEF Typed
<1>3. PICK k, l, inc : \E use \in BOOLEAN : IterationTo(p, dgs, st, k, l, inc, use)
  BY <1>1, <1>2, IterationIs
<1>4. PICK use \in BOOLEAN : IterationTo(p, dgs, st, k, l, inc, use)
  BY <1>3
<1>5. /\ k \in 1 .. TotalLinks /\ l \in up[p]
      /\ \A j \in up[p] : Gap(st.sel, j) <= k => j = l
  BY <1>4 DEF IterationTo
<1>6. it.sel = l /\ it.n = st.n + k /\ it.more = is_blacklisted(p, l)
  BY <1>4 DEF IterationTo
<1>7. ~ is_blacklisted(p, it.sel) /\ it.sel \in alive
        => Len(chan[p][it.sel]) < Len(it.chan[it.sel])
  BY IterationExtends
<1> HIDE DEF it
<1>8. i \in Nat /\ k \in Nat /\ k >= 1
  BY <1>5, ThunderAssumption
<1>9. st.n >= i /\ \A j \in up[p] : TurnsOf(turns[p] + st.n, j) > TurnsOf(turns[p], j)
                                      => is_blacklisted(p, j)
  BY DEF Tried
<1>10. it.n >= i + 1
  BY <1>2, <1>6, <1>8, <1>9
<1>11. ASSUME is_blacklisted(p, l), NEW j \in up[p],
              TurnsOf(turns[p] + it.n, j) > TurnsOf(turns[p], j)
       PROVE  is_blacklisted(p, j)
  <2>1. CASE j = l
    BY <1>11, <2>1
  <2>2. CASE j # l
    <3>1. ~ (Gap(st.sel, j) <= k)
      BY <1>5, <2>2
    <3>2. turns[p] + st.n \in Nat /\ turns[p] + it.n = (turns[p] + st.n) + k
      BY <1>2, <1>6, <1>8, Counters
    <3>3. st.sel = LastOf(turns[p] + st.n) /\ j \in Links
      BY <1>1 DEF CountsKept
    <3>4. /\ TurnsOf((turns[p] + st.n) + k, j) = TurnsOf(turns[p] + st.n, j)
               + IF Gap(LastOf(turns[p] + st.n), j) <= k THEN 1 ELSE 0
          /\ TurnsOf(turns[p] + st.n, j) \in Nat
      BY <1>5, <3>2, <3>3, TurnsNext
    <3>5. TurnsOf(turns[p] + it.n, j) = TurnsOf(turns[p] + st.n, j)
      BY <3>1, <3>2, <3>3, <3>4
    <3> QED
      BY <1>9, <1>11, <3>5
  <2> QED
    BY <2>1, <2>2
<1> QED
  BY <1>5, <1>6, <1>7, <1>10, <1>11 DEF Tried, it

(* What the loop has done when it ends. *)
Scheduled(p, dgs, st) ==
  CountsKept(p, st) /\ Extended(p, dgs, st) /\ Tried(p, TotalLinks + 1, st)

LEMMA LoopSchedules ==
  ASSUME TypeOK, NEW p \in Peers, TurnsKept(p), up[p] # {}, NEW dgs \in SUBSET Datagrams
  PROVE  Scheduled(p, dgs, Loop(p, dgs))
<1> DEFINE S == [i \in Nat |->
                   {st \in Typed : CountsKept(p, st) /\ Extended(p, dgs, st) /\ Tried(p, i, st)}]
<1>1. \A i \in Nat : \A st :
        st \in S[i] <=> st \in Typed /\ CountsKept(p, st) /\ Extended(p, dgs, st) /\ Tried(p, i, st)
  OBVIOUS
<1> HIDE DEF S
<1>2. TotalLinks + 1 \in Nat /\ \A i \in 0 .. TotalLinks : i \in Nat /\ i + 1 \in Nat
  BY ThunderAssumption
<1>3. Start(p) \in S[0]
  BY <1>1, StartTyped, LoopStarts
<1>4. ASSUME NEW i \in 0 .. TotalLinks, NEW st \in S[i]
      PROVE  (IF st.more THEN Iteration(p, dgs, st) ELSE st) \in S[i + 1]
  <2>1. /\ st \in Typed /\ CountsKept(p, st) /\ Extended(p, dgs, st) /\ Tried(p, i, st)
        /\ i + 1 \in Nat
    BY <1>1, <1>2
  <2>2. CASE st.more
    <3>1. Iteration(p, dgs, st) \in Typed
      BY <2>1, IterationTyped
    <3>2. CountsKept(p, Iteration(p, dgs, st))
      BY <2>1, IterationCounts
    <3>3. Extended(p, dgs, Iteration(p, dgs, st))
      BY <2>1, IterationExtends
    <3>4. Tried(p, i + 1, Iteration(p, dgs, st))
      BY <2>1, <2>2, IterationTries
    <3> QED
      BY <1>1, <2>1, <2>2, <3>1, <3>2, <3>3, <3>4
  <2>3. CASE ~ st.more
    <3>1. Tried(p, i + 1, st)
      BY <2>1, <2>3 DEF Tried
    <3> QED
      BY <1>1, <2>1, <2>3, <3>1
  <2> QED
    BY <2>2, <2>3
<1>5. Loop(p, dgs) \in S[TotalLinks + 1]
  BY <1>3, <1>4, LoopInduct
<1> QED
  BY <1>1, <1>2, <1>5 DEF Scheduled

(* A datagram leaves over a link that is up, and over one that is not      *)
(* blacklisted if there is one; the counts are reset only if there is none. *)
LEMMA LoopSends ==
  ASSUME TypeOK, NEW p \in Peers, TurnsKept(p), up[p] # {}, NEW dgs \in SUBSET Datagrams
  PROVE  LET st == Loop(p, dgs)
             Left(l) == Len(st.chan[l]) > Len(chan[p][l]) \/ l \notin alive
         IN  /\ \E l \in up[p] : Left(l)
             /\ ~ st.more => \E l \in up[p] : ~ is_blacklisted(p, l) /\ Left(l)
             /\ st.more => \A l \in up[p] : is_blacklisted(p, l)
<1> DEFINE st == Loop(p, dgs)
           Left(l) == Len(st.chan[l]) > Len(chan[p][l]) \/ l \notin alive
<1>1. /\ CountsKept(p, st) /\ Extended(p, dgs, st) /\ Tried(p, TotalLinks + 1, st)
      /\ st \in Typed
  BY LoopSchedules, LoopTyped DEF Scheduled
<1> HIDE DEF st
<1>2. st.n \in Nat /\ st.more \in BOOLEAN /\ st.whole \in BOOLEAN
  BY <1>1 DEF Typed
<1>3. ~ st.more => \E l \in up[p] : ~ is_blacklisted(p, l) /\ Left(l)
  BY <1>1 DEF Tried
<1>4. ASSUME st.more
      PROVE  /\ \A l \in Links : TurnsOf(turns[p] + st.n, l) > TurnsOf(turns[p], l)
             /\ TurnsOf(turns[p] + st.n, LastOf(turns[p] + st.n))
                  > TurnsOf(turns[p], LastOf(turns[p] + st.n)) + 1
             /\ st.n > 0
  <2>1. st.n >= TotalLinks + 1
    BY <1>1, <1>4 DEF Tried
  <2>2. st.n > 0
    BY <1>2, <2>1, ThunderAssumption
  <2> QED
    BY <1>2, <2>1, <2>2, Counters, TurnsInRound
<1>5. st.more => \A l \in up[p] : is_blacklisted(p, l)
  <2>1. up[p] \subseteq Links
    BY DEF TypeOK
  <2> QED
    BY <1>1, <1>4, <2>1 DEF Tried
<1>6. ASSUME st.more, \A l \in up[p] : ~ Left(l) PROVE FALSE
  <2>1. up[p] \subseteq Links
    BY DEF TypeOK
  <2>2. st.whole
    BY <1>1, <1>2, <1>6 DEF CountsKept
  <2>3. PICK l \in up[p] : l = st.sel
    BY <1>1, <1>4, <1>6 DEF Tried
  <2>4. l \in Links /\ l = LastOf(turns[p] + st.n)
    BY <1>1, <2>1, <2>3 DEF CountsKept
  <2>5. PICK c, d \in Nat : c = Len(st.chan[l]) /\ d = Len(chan[p][l])
    BY <1>1, <2>4, StateFields, LinkFields
  <2>6. st.chan[l] = chan[p][l]
    <3>1. d <= c /\ (d = c => st.chan[l] = chan[p][l])
      BY <1>1, <2>4, <2>5 DEF Extended
    <3>2. ~ (c > d)
      BY <1>6, <2>3, <2>5
    <3> QED
      BY <3>1, <3>2
  <2>7. Untold(p, st, l) = 0 /\ st.inc[l] <= 1
    BY <1>1, <2>2, <2>3, <2>4 DEF CountsKept
  <2>8. PICK a, b \in Nat : a = TurnsOf(turns[p] + st.n, l) /\ b = TurnsOf(turns[p], l)
    <3>1. 1 \in 1 .. TotalLinks /\ turns[p] + st.n \in Nat /\ turns[p] \in Nat
      BY <1>2, Counters, ThunderAssumption
    <3> QED
      BY <2>4, <3>1, TurnsNext
  <2>9. PICK f, g, h \in Nat : f = InFlight(chan[p][l]) /\ g = to_increment[p][l] /\ h = st.inc[l]
    BY <1>1, <2>4, LinkFields, StateFields
  <2>10. ((a - b) + (f + g)) - (f + h) = 0
    BY <2>6, <2>7, <2>8, <2>9 DEF Untold
  <2>11. a > b + 1
    BY <1>4, <1>6, <2>4, <2>8
  <2> QED
    BY <2>7, <2>9, <2>10, <2>11
<1> QED
  BY <1>2, <1>3, <1>5, <1>6 DEF st

LEMMA NoLinkCounts ==
  ASSUME TypeOK, NEW p \in Peers, TurnsKept(p), up[p] = {}, NEW st \in NoLink(p), NEW dgs
  PROVE  CountsKept(p, st) /\ Extended(p, dgs, st)
<1>1. CASE st = Start(p)
  BY <1>1, LoopStarts
<1>2. CASE st # Start(p)
  <2> DEFINE sel == (selected[p] + 1) % TotalLinks
             inc == Turned(to_increment[p], selected[p], TotalLinks + 1)
  <2>1. st = [sel |-> sel, inc |-> inc, n |-> TotalLinks + 1, chan |-> chan[p],
              whole |-> TRUE, more |-> TRUE]
    BY <1>2 DEF NoLink, Start
  <2> HIDE DEF sel, inc
  <2>2. /\ st.sel = sel /\ st.inc = inc /\ st.n = TotalLinks + 1 /\ st.chan = chan[p]
        /\ st.whole = TRUE
    BY <2>1
  <2>3. selected[p] \in Links /\ to_increment[p] \in [Links -> 0 .. UINT8_MAX]
    BY DEF TypeOK
  <2>4. ASSUME NEW l \in Links
        PROVE  inc[l] = (to_increment[p][l] + IF Gap(selected[p], l) = 1 THEN 2 ELSE 1) % 256
    BY <2>3, TurnedRound, Bytes DEF inc
  <2>5. /\ turns[p] \in Nat /\ turns[p] + TotalLinks \in Nat
        /\ turns[p] + st.n = (turns[p] + TotalLinks) + 1
        /\ TotalLinks \in 1 .. TotalLinks /\ 1 \in 1 .. TotalLinks
    BY <2>2, Counters, ThunderAssumption
  <2>6. selected[p] = LastOf(turns[p])
    BY DEF TurnsKept
  <2>7. LastOf(turns[p] + TotalLinks) = selected[p]
    <3>1. LastOf(turns[p] + TotalLinks) = (selected[p] + TotalLinks) % TotalLinks
      BY <2>3, <2>5, <2>6, TurnsNext
    <3>2. (selected[p] + TotalLinks) % TotalLinks
            = IF selected[p] + TotalLinks < TotalLinks THEN selected[p] + TotalLinks
              ELSE selected[p] + TotalLinks - TotalLinks
      BY <2>3, <2>5, ModTurn
    <3>3. selected[p] \in Nat
      BY <2>3 DEF Links
    <3> QED
      BY <3>1, <3>2, <3>3, ThunderAssumption
  <2>8. st.sel = LastOf(turns[p] + st.n)
    <3>1. LastOf((turns[p] + TotalLinks) + 1) = (selected[p] + 1) % TotalLinks
      BY <2>3, <2>5, <2>7, TurnsNext
    <3> QED
      BY <3>1, <2>2, <2>5 DEF sel
  <2>9. ASSUME NEW l \in Links
        PROVE  Untold(p, st, l) % (UINT8_MAX + 1) = 0
    <3>1. /\ TurnsOf((turns[p] + TotalLinks) + 1, l) = TurnsOf(turns[p] + TotalLinks, l)
               + IF Gap(selected[p], l) <= 1 THEN 1 ELSE 0
          /\ TurnsOf(turns[p] + TotalLinks, l) = TurnsOf(turns[p], l)
               + IF Gap(selected[p], l) <= TotalLinks THEN 1 ELSE 0
          /\ TurnsOf(turns[p], l) \in Nat
      BY <2>5, <2>6, <2>7, TurnsNext
    <3>2. PICK g \in 1 .. TotalLinks : g = Gap(selected[p], l)
      BY <2>3, GapIs
    <3>3. PICK b \in Nat : b = TurnsOf(turns[p], l)
      BY <3>1
    <3>4. PICK k \in {1, 2} : k = IF g = 1 THEN 2 ELSE 1
      OBVIOUS
    <3>5. TurnsOf(turns[p] + st.n, l) = b + k
      BY <2>5, <3>1, <3>2, <3>3, <3>4, ThunderAssumption
    <3>6. PICK e, f \in Nat : e = InFlight(chan[p][l]) /\ f = to_increment[p][l]
      BY LinkFields
    <3>7. st.inc[l] = (f + k) % 256
      BY <2>2, <2>4, <3>2, <3>4, <3>6
    <3>8. PICK i \in Nat : i = st.inc[l] /\ i = (f + k) % 256
      BY <3>7
    <3>9. Untold(p, st, l) = (((b + k) - b) + (e + f)) - (e + i)
      BY <2>2, <3>3, <3>5, <3>6, <3>8 DEF Untold
    <3>10. (((b + k) - b) + (e + f)) - (e + i) = (0 + (f + k)) - i
      OBVIOUS
    <3>11. ((0 + (f + k)) - i) % 256 = 0
      BY <3>8, ByteKept
    <3> QED
      BY <3>9, <3>10, <3>11, Bytes
  <2>10. CountsKept(p, st)
    BY <2>2, <2>8, <2>9 DEF CountsKept
  <2>11. Extended(p, dgs, st)
    BY <2>2, LinkFields DEF Extended
  <2> QED
    BY <2>10, <2>11
<1> QED
  BY <1>1, <1>2

(* So is what a call of algo_thunder_on_datagram does, with or without links. *)
LEMMA TransmitsWell ==
  ASSUME TypeOK, NEW p \in Peers, TurnsKept(p), NEW st \in Typed, Transmits(p, st)
  PROVE  /\ CountsKept(p, st) /\ Extended(p, Sends(p), st)
         /\ Resets(p, st) => \A l \in up[p] : is_blacklisted(p, l)
<1>1. CASE up[p] = {}
  BY <1>1, NoLinkCounts DEF Transmits, Resets
<1>2. CASE up[p] # {}
  <2>1. st = Loop(p, Sends(p)) /\ Sends(p) \in SUBSET Datagrams
    BY <1>2, SendsTyped DEF Transmits
  <2>2. Scheduled(p, Sends(p), st)
    BY <1>2, <2>1, LoopSchedules
  <2>3. st.more => \A l \in up[p] : is_blacklisted(p, l)
    BY <1>2, <2>1, LoopSends
  <2> QED
    BY <2>2, <2>3 DEF Scheduled, Resets
<1> QED
  BY <1>1, <1>2

-----------------------------------------------------------------------------
(* The counts of turns.                                                    *)

CountsInv == TypeOK /\ (\A p \in Peers : TurnsKept(p)) /\ CountsExact

LEMMA InitCounts == Init => CountsInv
<1> SUFFICES ASSUME NEW s \in Starts, Init,
                    selected = [p \in Peers |-> (s + TotalLinks - 1) % TotalLinks],
                    received = [p \in Peers |-> [l \in Links |-> 1 + TurnsOf(s, l)]],
                    turns = [p \in Peers |-> s]
             PROVE  CountsInv
  BY DEF Init
<1>1. TypeOK
  BY InitTypeOK
<1>2. /\ to_increment = [p \in Peers |-> [l \in Links |-> 0]]
      /\ chan = [p \in Peers |-> [l \in Links |-> <<>>]]
      /\ up = [p \in Peers |-> Links]
  BY DEF Init
<1>3. \A p \in Peers : TurnsKept(p)
  BY <1>2 DEF TurnsKept, LastOf
<1>4. ASSUME NEW p \in Peers, NEW l \in Links PROVE Uncounted(p, l) = 0
  <2>1. /\ received[Other(p)][l] = 1 + TurnsOf(s, l) /\ turns[p] = s
        /\ chan[p][l] = <<>> /\ to_increment[p][l] = 0
    BY <1>2, Others
  <2>2. TurnsOf(s, l) \in Nat
    <3>1. 1 \in 1 .. TotalLinks /\ s \in Nat
      BY ThunderAssumption, StartsAre
    <3> QED
      BY <3>1, TurnsNext
  <2> QED
    BY <2>1, <2>2, InFlightEmpty DEF Uncounted
<1>5. CountsExact
  BY <1>4, Bytes DEF CountsExact
<1> QED
  BY <1>1, <1>3, <1>5 DEF CountsInv

LEMMA UncountedInt ==
  ASSUME TypeOK, NEW p \in Peers, NEW l \in Links
  PROVE  /\ TurnsOf(turns[p], l) \in Nat /\ received[Other(p)][l] \in Nat
         /\ Uncounted(p, l) \in Int
<1>1. 1 \in 1 .. TotalLinks
  BY ThunderAssumption
<1>2. TurnsOf(turns[p], l) \in Nat
  BY <1>1, Counters, TurnsNext
<1>3. received[Other(p)][l] \in Nat
  BY Others, LinkFields
<1> QED
  BY <1>2, <1>3, LinkFields DEF Uncounted

LEMMA StepCounts == CountsInv /\ [Next]_vars => CountsInv'
<1> SUFFICES ASSUME CountsInv, [Next]_vars PROVE CountsInv'
  OBVIOUS
<1>1. TypeOK /\ (\A p \in Peers : TurnsKept(p)) /\ CountsExact
  BY DEF CountsInv
<1>2. TypeOK'
  BY <1>1, StepTypeOK
<1>3. \A p \in Peers : \A l \in Links : exact[Other(p)] =>
        /\ Uncounted(p, l) % (UINT8_MAX + 1) = 0
        /\ l \in up[p] => Uncounted(p, l) = 0
  BY <1>1 DEF CountsExact
<1> DEFINE Kept1 == \A p \in Peers : TurnsKept(p)'
           Kept2 == \A p \in Peers : exact[Other(p)]' => exact[Other(p)] /\
                      \A l \in Links : Uncounted(p, l)' = Uncounted(p, l)
                                       /\ (l \in up[p]' => l \in up[p])
<1>4. ASSUME Kept1, Kept2 PROVE CountsInv'
  <2>1. CountsExact'
    BY <1>3, <1>4 DEF CountsExact
  <2> QED
    BY <1>2, <1>4, <2>1 DEF CountsInv
<1> HIDE DEF Kept1, Kept2
<1>5. ASSUME NEW p \in Peers, OnDatagram(p) PROVE CountsInv'
  <2>1. PICK st \in Typed : Transmits(p, st)
    BY <1>1, <1>5, OnDatagramIs
  <2>2. CountsKept(p, st)
    BY <1>1, <2>1, TransmitsWell
  <2>3. /\ selected' = [selected EXCEPT ![p] = st.sel]
        /\ to_increment' = [to_increment EXCEPT ![p] = st.inc]
        /\ turns' = [turns EXCEPT ![p] = turns[p] + st.n]
        /\ chan' = [chan EXCEPT ![p] = st.chan]
        /\ up' = up
        /\ received' = IF Resets(p, st)
                       THEN [received EXCEPT ![p] = [l \in Links |-> blacklisted[p][l] + 1]]
                       ELSE received
    BY <2>1 DEF Transmits
  <2>4. exact'[Other(p)] = (exact[Other(p)] /\ st.whole)
        /\ exact'[p] = (exact[p] /\ ~ Resets(p, st))
    <3> DEFINE a == exact[p] /\ ~ Resets(p, st)
               b == exact[Other(p)] /\ st.whole
    <3>1. exact' = [exact EXCEPT ![p] = a, ![Other(p)] = b]
      BY <2>1 DEF Transmits
    <3>2. exact \in [Peers -> BOOLEAN]
      BY <1>1 DEF TypeOK
    <3> HIDE DEF a, b
    <3>3. exact'[Other(p)] = b /\ exact'[p] = a
      BY <3>1, <3>2, Others
    <3> QED
      BY <3>3 DEF a, b
  <2>5. /\ Other(p) \in Peers /\ Other(p) # p /\ Other(Other(p)) = p
        /\ \A r \in Peers : r = p \/ r = Other(p)
    BY Others, PeersAre
  <2>6. /\ selected'[p] = st.sel /\ to_increment'[p] = st.inc
        /\ turns'[p] = turns[p] + st.n /\ chan'[p] = st.chan
        /\ received'[Other(p)] = received[Other(p)]
    BY <1>1, <2>3, <2>5 DEF TypeOK
  <2>7. /\ selected'[Other(p)] = selected[Other(p)]
        /\ to_increment'[Other(p)] = to_increment[Other(p)]
        /\ turns'[Other(p)] = turns[Other(p)] /\ chan'[Other(p)] = chan[Other(p)]
    BY <1>1, <2>3, <2>5 DEF TypeOK
  <2>8. ASSUME NEW r \in Peers PROVE TurnsKept(r)'
    <3>1. CASE r = p
      BY <2>2, <2>3, <2>6, <3>1 DEF CountsKept, TurnsKept
    <3>2. CASE r = Other(p)
      <4>1. TurnsKept(r)
        BY <1>1
      <4> QED
        BY <2>3, <2>7, <3>2, <4>1 DEF TurnsKept
    <3> QED
      BY <2>5, <3>1, <3>2
  <2>9. ASSUME exact'[Other(p)], NEW l \in Links
        PROVE  /\ Uncounted(p, l)' % (UINT8_MAX + 1) = 0
               /\ l \in up'[p] => Uncounted(p, l)' = 0
    <3>1. exact[Other(p)] /\ st.whole
      BY <2>4, <2>9
    <3>2. PICK u \in Int : u = Uncounted(p, l)
      BY <1>1, UncountedInt
    <3>3. u % (UINT8_MAX + 1) = 0 /\ (l \in up[p] => u = 0)
      BY <1>3, <3>1, <3>2
    <3>4. PICK b, r, f, g \in Nat :
            /\ b = TurnsOf(turns[p], l) /\ r = received[Other(p)][l]
            /\ f = InFlight(chan[p][l]) /\ g = to_increment[p][l]
      BY <1>1, UncountedInt, LinkFields
    <3>5. PICK h, i \in Nat : h = InFlight(st.chan[l]) /\ i = st.inc[l]
      BY StateFields
    <3>6. PICK a \in Nat : a = TurnsOf(turns[p] + st.n, l)
      <4>1. 1 \in 1 .. TotalLinks /\ st.n \in Nat
        BY ThunderAssumption DEF Typed
      <4>2. turns[p] + st.n \in Nat
        BY <1>1, <4>1, Counters
      <4> QED
        BY <4>1, <4>2, TurnsNext
    <3>7. u = (1 + b) - ((r + f) + g)
      BY <3>2, <3>4 DEF Uncounted
    <3>8. PICK w \in Int : w = ((a - b) + (f + g)) - (h + i)
      OBVIOUS
    <3>9. w % (UINT8_MAX + 1) = 0 /\ (l \in up[p] => w = 0)
      <4>1. w = Untold(p, st, l)
        BY <3>4, <3>5, <3>6, <3>8 DEF Untold
      <4> QED
        BY <2>2, <3>1, <4>1, Zenon DEF CountsKept
    <3>10. Uncounted(p, l)' = (1 + a) - ((r + h) + i)
      BY <2>6, <3>4, <3>5, <3>6 DEF Uncounted
    <3>11. (1 + a) - ((r + h) + i) = u + w
      BY <3>7, <3>8
    <3>12. u % 256 = 0 /\ w % 256 = 0
      BY <3>3, <3>9, Bytes
    <3>13. (u + w) % 256 = 0 /\ (l \in up[p] => u + w = 0)
      BY <3>3, <3>9, <3>12
    <3> QED
      BY <2>3, <3>10, <3>11, <3>13, Bytes
  <2>10. ASSUME exact'[p], NEW l \in Links
         PROVE  /\ Uncounted(Other(p), l)' % (UINT8_MAX + 1) = 0
                /\ l \in up'[Other(p)] => Uncounted(Other(p), l)' = 0
    <3>1. exact[p] /\ received' = received
      BY <2>3, <2>4, <2>10
    <3>2. Uncounted(Other(p), l)' = Uncounted(Other(p), l)
      BY <2>7, <3>1 DEF Uncounted
    <3> QED
      BY <1>3, <2>3, <2>5, <3>1, <3>2
  <2>11. CountsExact'
    BY <2>5, <2>9, <2>10 DEF CountsExact
  <2> QED
    BY <1>2, <2>8, <2>11 DEF CountsInv
<1>6. ASSUME NEW q \in Peers, NEW l \in Links, OnStream(q, l) PROVE CountsInv'
  <2> DEFINE n == Counted(q, l)
             o == Other(q)
  <2>1. /\ chan[o][l] # <<>> /\ received' = [received EXCEPT ![q][l] = n]
        /\ chan' = [chan EXCEPT ![o][l] = Tail(chan[o][l])]
        /\ selected' = selected /\ to_increment' = to_increment /\ turns' = turns
        /\ up' = up /\ exact' = exact
    <3>1. PICK now, late \in SUBSET Links :
            Receives(q, l, now, late, n, Fresh(q, Head(chan[o][l]).dgs))
      BY <1>1, <1>6, OnStreamIs
    <3> QED
      BY <3>1 DEF Receives, sending
  <2>2. o \in Peers /\ Other(o) = q /\ o # q
    BY Others
  <2>3. Kept1
    BY <1>1, <2>1 DEF TurnsKept, Kept1
  <2>4. ASSUME NEW p \in Peers, NEW i \in Links PROVE Uncounted(p, i)' = Uncounted(p, i)
    <3>1. /\ received \in [Peers -> [Links -> Nat]] /\ chan \in [Peers -> [Links -> Seq(Cells)]]
      BY <1>1 DEF TypeOK
    <3>2. CASE p = o /\ i = l
      <4>1. received'[q][l] = n /\ chan'[o][l] = Tail(chan[o][l])
        BY <2>1, <2>2, <3>1
      <4>2. PICK r, f, g, k, b \in Nat :
              /\ r = received[q][l] /\ f = InFlight(Tail(chan[o][l])) /\ g = to_increment[o][l]
              /\ k = Head(chan[o][l]).inc /\ b = TurnsOf(turns[o], l)
        BY <1>1, <2>1, <2>2, HeadTyped, LinkFields, InFlightNat, UncountedInt
      <4>3. InFlight(chan[o][l]) = k + f
        BY <1>1, <2>1, <2>2, <4>2, LinkFields, InFlightTail
      <4>4. n = r + k
        BY <4>2 DEF Counted
      <4>5. Uncounted(o, l) = (1 + b) - ((r + (k + f)) + g)
        BY <2>2, <4>2, <4>3 DEF Uncounted
      <4>6. Uncounted(o, l)' = (1 + b) - (((r + k) + f) + g)
        BY <2>1, <2>2, <4>1, <4>2, <4>4 DEF Uncounted
      <4>7. (1 + b) - (((r + k) + f) + g) = (1 + b) - ((r + (k + f)) + g)
        OBVIOUS
      <4> QED
        BY <3>2, <4>5, <4>6, <4>7
    <3>3. CASE ~ (p = o /\ i = l)
      <4>1. received'[Other(p)][i] = received[Other(p)][i]
        <5>1. Other(p) \in Peers /\ (Other(p) = q => p = o)
          BY <2>2, Others
        <5> QED
          BY <2>1, <3>1, <3>3, <5>1
      <4>2. chan'[p][i] = chan[p][i]
        BY <2>1, <2>2, <3>1, <3>3
      <4> QED
        BY <2>1, <4>1, <4>2 DEF Uncounted
    <3> QED
      BY <3>2, <3>3
  <2>5. Kept2
    BY <2>1, <2>4 DEF Kept2
  <2> QED
    BY <1>4, <2>3, <2>5
<1>7. ASSUME NEW q \in Peers, OnBlock(q) PROVE CountsInv'
  <2>1. Kept1 /\ Kept2
    BY <1>1, <1>7 DEF OnBlock, sending, TurnsKept, Uncounted, Kept1, Kept2
  <2> QED
    BY <1>4, <2>1
<1>8. ASSUME NEW q \in Peers, Notice(q) PROVE CountsInv'
  <2>1. \A r \in Peers : up'[r] \subseteq up[r]
    <3>1. PICK l \in up[q] \ alive : up' = [up EXCEPT ![q] = up[q] \ {l}]
      BY <1>8 DEF Notice
    <3>2. up \in [Peers -> SUBSET Links]
      BY <1>1 DEF TypeOK
    <3> QED
      BY <3>1, <3>2
  <2>2. Kept1 /\ Kept2
    BY <1>1, <1>8, <2>1 DEF Notice, sending, TurnsKept, Uncounted, Kept1, Kept2
  <2> QED
    BY <1>4, <2>2
<1>9. ASSUME NEW l \in Links, Break(l) PROVE CountsInv'
  <2>1. /\ chan' = [p \in Peers |-> [chan[p] EXCEPT ![l] = <<>>]]
        /\ exact' = [p \in Peers |-> exact[p] /\ chan[Other(p)][l] = <<>>]
        /\ UNCHANGED <<sending, receiving, received, blacklisted, up>>
    BY <1>9 DEF Break
  <2>2. Kept1
    BY <1>1, <2>1 DEF sending, TurnsKept, Kept1
  <2>3. ASSUME NEW p \in Peers, exact'[Other(p)], NEW i \in Links
        PROVE  exact[Other(p)] /\ Uncounted(p, i)' = Uncounted(p, i) /\ up'[p] = up[p]
    <3>1. exact[Other(p)] /\ chan[p][l] = <<>>
      BY <2>1, <2>3, Others
    <3>2. chan'[p][i] = chan[p][i]
      BY <1>1, <2>1, <3>1 DEF TypeOK
    <3> QED
      BY <2>1, <3>1, <3>2 DEF Uncounted, sending
  <2>4. \E i \in Links : TRUE
    BY ThunderAssumption DEF Links
  <2>5. Kept2
    BY <2>3, <2>4 DEF Kept2
  <2> QED
    BY <1>4, <2>2, <2>5
<1>10. CASE UNCHANGED vars
  <2>1. Kept1 /\ Kept2
    BY <1>1, <1>10 DEF vars, sending, TurnsKept, Uncounted, Kept1, Kept2
  <2> QED
    BY <1>4, <2>1
<1> QED
  BY <1>5, <1>6, <1>7, <1>8, <1>9, <1>10 DEF Next

LEMMA CountsInvariant == Spec => []CountsInv
  BY InitCounts, StepCounts, PTL DEF Spec

(* What the sender has given a link in turns is received, on its way or not *)
(* told yet, whatever the order of cells, the links that are down, and the  *)
(* blacklists: with any number of links and the 8-bit counts of the code.   *)
THEOREM CountsAreExact == Spec => []CountsExact
<1>1. CountsInv => CountsExact
  BY DEF CountsInv
<1> QED
  BY <1>1, CountsInvariant, PTL

-----------------------------------------------------------------------------
(* Blacklists.                                                             *)

(* A datagram goes out over a link that is up, blacklisted or not, and over *)
(* one that is not blacklisted if there is one: PROBE_EVERY and `protect'   *)
(* never end the loop before a cell has left.                              *)
THEOREM DatagramIsSent == Spec => DatagramSent
<1> DEFINE Sent == \A p \in Peers : sent'[p] # sent[p] =>
              LET good == {l \in up[p] : ~ is_blacklisted(p, l)}
              IN  /\ up[p] # {} => \E l \in up[p] : Gets(p, l)
                  /\ good # {} => \E l \in good : Gets(p, l)
<1>1. CountsInv /\ [Next]_vars => [Sent]_vars
  <2> SUFFICES ASSUME CountsInv, [Next]_vars PROVE [Sent]_vars
    OBVIOUS
  <2>1. TypeOK /\ \A p \in Peers : TurnsKept(p)
    BY DEF CountsInv
  <2>2. ASSUME NEW p \in Peers, OnDatagram(p) PROVE Sent
    <3>1. PICK st \in Typed : Transmits(p, st)
      BY <2>1, <2>2, OnDatagramIs
    <3>2. /\ sent' = [sent EXCEPT ![p] = sent[p] + 1]
          /\ chan' = [chan EXCEPT ![p] = st.chan]
      BY <3>1 DEF Transmits
    <3>3. chan'[p] = st.chan /\ \A q \in Peers : sent'[q] # sent[q] => q = p
      BY <2>1, <3>2 DEF TypeOK
    <3>4. CASE up[p] = {}
      BY <3>3, <3>4
    <3>5. CASE up[p] # {}
      <4>1. st = Loop(p, Sends(p)) /\ Sends(p) \in SUBSET Datagrams
        BY <2>1, <3>1, <3>5, SendsTyped DEF Transmits
      <4>2. /\ \E l \in up[p] : Gets(p, l)
            /\ ~ st.more => \E l \in up[p] : ~ is_blacklisted(p, l) /\ Gets(p, l)
            /\ st.more => \A l \in up[p] : is_blacklisted(p, l)
        BY <2>1, <3>3, <3>5, <4>1, LoopSends DEF Gets
      <4>3. CASE st.more
        BY <3>3, <4>2, <4>3
      <4>4. CASE ~ st.more
        BY <3>3, <4>2, <4>4
      <4> QED
        BY <4>3, <4>4
    <3> QED
      BY <3>4, <3>5
  <2>3. ASSUME NEW q \in Peers, NEW l \in Links, OnStream(q, l) PROVE Sent
    <3>1. sent' = sent
      BY <2>3 DEF OnStream, sending
    <3> QED
      BY <3>1
  <2>4. ASSUME NEW q \in Peers, OnBlock(q) \/ Notice(q) PROVE Sent
    <3>1. sent' = sent
      BY <2>4 DEF OnBlock, Notice, sending
    <3> QED
      BY <3>1
  <2>5. ASSUME NEW l \in Links, Break(l) PROVE Sent
    <3>1. sent' = sent
      BY <2>5 DEF Break, sending
    <3> QED
      BY <3>1
  <2> QED
    BY <2>2, <2>3, <2>4, <2>5 DEF Next
<1> QED
  BY <1>1, CountsInvariant, PTL DEF Spec, DatagramSent

(* Which of two links is ahead, by their counts and then by their numbers. *)
Before(n, i, m, l) == n < m \/ (n = m /\ i < l)

(* The link l has not been behind: what is or will be blacklisted of any   *)
(* link comes before what l has.                                           *)
Leads(q, l) ==
  /\ \A i \in Links : Before(blacklisted[q][i], i, received[q][l], l)
  /\ \A t \in timers[q] : Before(t[2], t[1], received[q][l], l)

TrustInv == \A q \in Peers : up[q] = Links => \E l \in Links : Leads(q, l)

LEMMA LeaderTrusted ==
  ASSUME TypeOK, NEW q \in Peers, NEW l \in Links, Leads(q, l)
  PROVE  ~ is_blacklisted(q, l)
<1>1. Before(blacklisted[q][l], l, received[q][l], l)
  BY DEF Leads
<1>2. blacklisted[q][l] \in Nat /\ received[q][l] \in Nat /\ l \in Nat
  BY LinkFields DEF Links
<1> QED
  BY <1>1, <1>2 DEF Before, is_blacklisted

LEMMA TimersTyped ==
  ASSUME TypeOK, NEW q \in Peers, NEW t \in timers[q]
  PROVE  t[1] \in Links /\ t[2] \in Nat
<1>1. timers[q] \in SUBSET (Links \X Nat)
  BY DEF TypeOK
<1> QED
  BY <1>1

LEMMA InitTrust == Init => TrustInv
<1> SUFFICES ASSUME NEW s \in Starts, Init,
                    received = [p \in Peers |-> [l \in Links |-> 1 + TurnsOf(s, l)]]
             PROVE  TrustInv
  BY DEF Init
<1>1. /\ blacklisted = [p \in Peers |-> [l \in Links |-> 0]]
      /\ timers = [p \in Peers |-> {}]
  BY DEF Init
<1>2. PICK l \in Links : l = 0
  BY ThunderAssumption DEF Links
<1>3. ASSUME NEW q \in Peers PROVE Leads(q, l)
  <2>1. TurnsOf(s, l) \in Nat
    <3>1. 1 \in 1 .. TotalLinks /\ s \in Nat
      BY ThunderAssumption, StartsAre
    <3> QED
      BY <3>1, TurnsNext
  <2>2. received[q][l] > 0
    BY <2>1
  <2> QED
    BY <1>1, <2>2 DEF Leads, Before
<1> QED
  BY <1>3 DEF TrustInv

(* The link of a cell that comes leads from now on, or the one that led.   *)
LEMMA StreamTrust ==
  ASSUME TypeOK, NEW q \in Peers, NEW l \in Links, OnStream(q, l),
         NEW m \in Links, Leads(q, m)
  PROVE  Leads(q, l)' \/ Leads(q, m)'
<1> DEFINE n == Counted(q, l)
<1>1. PICK now, late \in SUBSET Links :
        Receives(q, l, now, late, n, Fresh(q, Head(chan[Other(q)][l]).dgs))
  BY OnStreamIs
<1>2. n \in Nat /\ received[q][l] <= n
  BY <1>1, HeadTyped DEF Receives
<1> HIDE DEF n
<1>3. /\ received'[q][l] = n /\ (m # l => received'[q][m] = received[q][m])
      /\ received[q][m] \in Nat /\ received[q][l] \in Nat
  <2>1. received' = [received EXCEPT ![q][l] = n]
    BY <1>1 DEF Receives
  <2> QED
    BY <2>1 DEF TypeOK
<1>4. \A i \in late : Expected(l, i, n) \in Nat /\ i # l
  BY <1>1 DEF Receives
<1>5. \A i \in Links : l \in Nat /\ m \in Nat /\ i \in Nat
  BY DEF Links
<1>6. \A i \in late : Before(Expected(l, i, n), i, n, l)
  BY <1>2, <1>4, <1>5 DEF Before, Expected
<1>7. ASSUME NEW i \in Links
      PROVE  \/ blacklisted'[q][i] = blacklisted[q][i]
             \/ i \in late /\ blacklisted'[q][i] = Expected(l, i, n)
  <2>1. now \subseteq late
    BY <1>1 DEF Receives
  <2>2. blacklisted'[q] = [j \in Links |-> IF j \in now /\ blacklisted[q][j] < Expected(l, j, n)
                                           THEN Expected(l, j, n) ELSE blacklisted[q][j]]
    BY <1>1 DEF Receives, TypeOK
  <2> QED
    BY <2>1, <2>2
<1>8. ASSUME NEW t \in timers'[q]
      PROVE  \/ t \in timers[q]
             \/ t[1] \in late /\ t[2] = Expected(l, t[1], n)
  <2>1. timers'[q] = timers[q] \cup {<<i, Expected(l, i, n)>> : i \in late \ now}
    BY <1>1 DEF Receives, TypeOK
  <2> QED
    BY <2>1
<1>9. ASSUME NEW k \in Links, NEW a \in Nat, received'[q][k] = a,
             \/ Before(n, l, a, k) \/ (n = a /\ l = k),
             \/ Before(received[q][m], m, a, k) \/ (received[q][m] = a /\ m = k)
      PROVE  Leads(q, k)'
  <2>1. \A b \in Nat, i \in Links : Before(b, i, received[q][m], m) => Before(b, i, a, k)
    BY <1>3, <1>5, <1>9 DEF Before
  <2>2. \A i \in late : Before(Expected(l, i, n), i, a, k)
    BY <1>2, <1>4, <1>5, <1>6, <1>9 DEF Before
  <2>3. ASSUME NEW i \in Links PROVE Before(blacklisted'[q][i], i, a, k)
    <3>1. blacklisted[q][i] \in Nat /\ Before(blacklisted[q][i], i, received[q][m], m)
      BY LinkFields DEF Leads
    <3> QED
      BY <1>7, <2>1, <2>2, <3>1
  <2>4. ASSUME NEW t \in timers'[q] PROVE Before(t[2], t[1], a, k)
    <3>1. CASE t \in timers[q]
      <4>1. t[1] \in Links /\ t[2] \in Nat
        BY <3>1, TimersTyped
      <4>2. Before(t[2], t[1], received[q][m], m)
        BY <3>1 DEF Leads
      <4> QED
        BY <2>1, <4>1, <4>2
    <3>2. CASE t[1] \in late /\ t[2] = Expected(l, t[1], n)
      BY <2>2, <3>2
    <3> QED
      BY <1>8, <3>1, <3>2
  <2> QED
    BY <1>9, <2>3, <2>4 DEF Leads
<1>10. CASE Before(n, l, received[q][m], m)
  <2>1. m # l
    BY <1>2, <1>3, <1>5, <1>10 DEF Before
  <2> QED
    BY <1>3, <1>9, <1>10, <2>1
<1>11. CASE ~ Before(n, l, received[q][m], m)
  <2>1. Before(received[q][m], m, n, l) \/ (received[q][m] = n /\ m = l)
    BY <1>2, <1>3, <1>5, <1>11 DEF Before
  <2> QED
    BY <1>2, <1>3, <1>9, <2>1
<1> QED
  BY <1>10, <1>11

LEMMA StepTrust == CountsInv /\ TrustInv /\ [Next]_vars => TrustInv'
<1> SUFFICES ASSUME CountsInv, TrustInv, [Next]_vars PROVE TrustInv'
  OBVIOUS
<1>1. TypeOK /\ \A p \in Peers : TurnsKept(p)
  BY DEF CountsInv
<1>2. ASSUME \A q \in Peers : /\ up'[q] = Links => up[q] = Links
                              /\ \A l \in Links : up[q] = Links /\ Leads(q, l)
                                   => \E k \in Links : Leads(q, k)'
      PROVE  TrustInv'
  BY <1>2 DEF TrustInv
<1>3. ASSUME NEW p \in Peers, OnDatagram(p) PROVE TrustInv'
  <2>1. PICK st \in Typed : Transmits(p, st)
    BY <1>1, <1>3, OnDatagramIs
  <2>2. /\ up' = up /\ blacklisted' = blacklisted /\ timers' = timers
        /\ received' = IF Resets(p, st)
                       THEN [received EXCEPT ![p] = [l \in Links |-> blacklisted[p][l] + 1]]
                       ELSE received
    BY <2>1 DEF Transmits
  <2>3. Resets(p, st) => \A l \in up[p] : is_blacklisted(p, l)
    BY <1>1, <2>1, TransmitsWell
  <2>4. ASSUME NEW q \in Peers, NEW l \in Links, up[q] = Links, Leads(q, l)
        PROVE  received'[q] = received[q]
    <3>1. CASE ~ Resets(p, st)
      BY <2>2, <3>1
    <3>2. CASE Resets(p, st)
      <4>1. q # p
        BY <1>1, <2>3, <2>4, <3>2, LeaderTrusted
      <4>2. received \in [Peers -> [Links -> Nat]]
        BY <1>1 DEF TypeOK
      <4> QED
        BY <2>2, <3>2, <4>1, <4>2
    <3> QED
      BY <3>1, <3>2
  <2>5. \A q \in Peers : \A l \in Links : up[q] = Links /\ Leads(q, l) => Leads(q, l)'
    BY <2>2, <2>4 DEF Leads
  <2> QED
    BY <1>2, <2>2, <2>5
<1>4. ASSUME NEW p \in Peers, NEW l \in Links, OnStream(p, l) PROVE TrustInv'
  <2>1. PICK now, late \in SUBSET Links :
          Receives(p, l, now, late, Counted(p, l), Fresh(p, Head(chan[Other(p)][l]).dgs))
    BY <1>1, <1>4, OnStreamIs
  <2>2. up' = up
    BY <2>1 DEF Receives
  <2>3. ASSUME NEW q \in Peers, q # p, NEW m \in Links, Leads(q, m) PROVE Leads(q, m)'
    <3>1. /\ received' = [received EXCEPT ![p][l] = Counted(p, l)]
          /\ \E b : blacklisted' = [blacklisted EXCEPT ![p] = b]
          /\ \E t : timers' = [timers EXCEPT ![p] = t]
      BY <2>1, Zenon DEF Receives
    <3>2. received'[q] = received[q] /\ blacklisted'[q] = blacklisted[q] /\ timers'[q] = timers[q]
      BY <1>1, <2>3, <3>1 DEF TypeOK
    <3> QED
      BY <2>3, <3>2 DEF Leads
  <2>4. \A m \in Links : Leads(p, m) => Leads(p, l)' \/ Leads(p, m)'
    BY <1>1, <1>4, StreamTrust
  <2> QED
    BY <1>2, <2>2, <2>3, <2>4
<1>5. ASSUME NEW p \in Peers, OnBlock(p) PROVE TrustInv'
  <2>1. PICK t \in timers[p] :
          /\ timers' = [timers EXCEPT ![p] = timers[p] \ {t}]
          /\ blacklisted' = IF received[p][t[1]] >= t[2] \/ blacklisted[p][t[1]] >= t[2]
                            THEN blacklisted ELSE [blacklisted EXCEPT ![p][t[1]] = t[2]]
          /\ received' = received /\ up' = up
    BY <1>5 DEF OnBlock
  <2>2. t[1] \in Links /\ t[2] \in Nat
    BY <1>1, TimersTyped
  <2>3. /\ blacklisted \in [Peers -> [Links -> Nat]]
        /\ timers \in [Peers -> SUBSET (Links \X Nat)]
    BY <1>1 DEF TypeOK
  <2>4. ASSUME NEW q \in Peers, NEW m \in Links, Leads(q, m) PROVE Leads(q, m)'
    <3>1. timers'[q] \subseteq timers[q]
      BY <2>1, <2>3
    <3>2. ASSUME NEW i \in Links
          PROVE  \/ blacklisted'[q][i] = blacklisted[q][i]
                 \/ q = p /\ i = t[1] /\ blacklisted'[q][i] = t[2]
      BY <2>1, <2>2, <2>3
    <3> QED
      BY <2>1, <2>4, <3>1, <3>2 DEF Leads
  <2> QED
    BY <1>2, <2>1, <2>4
<1>6. ASSUME NEW p \in Peers, Notice(p) PROVE TrustInv'
  <2>1. PICK l \in up[p] \ alive : up' = [up EXCEPT ![p] = up[p] \ {l}]
    BY <1>6 DEF Notice
  <2>2. blacklisted' = blacklisted /\ received' = received /\ timers' = timers
    BY <1>6 DEF Notice, receiving
  <2>3. \A q \in Peers : up'[q] = Links => up[q] = Links
    <3>1. up \in [Peers -> SUBSET Links]
      BY <1>1 DEF TypeOK
    <3> QED
      BY <2>1, <3>1
  <2> QED
    BY <1>2, <2>2, <2>3 DEF Leads
<1>7. ASSUME NEW l \in Links, Break(l) PROVE TrustInv'
  <2>1. blacklisted' = blacklisted /\ received' = received /\ timers' = timers /\ up' = up
    BY <1>7 DEF Break, receiving
  <2> QED
    BY <1>2, <2>1 DEF Leads
<1>8. CASE UNCHANGED vars
  <2>1. blacklisted' = blacklisted /\ received' = received /\ timers' = timers /\ up' = up
    BY <1>8 DEF vars, receiving
  <2> QED
    BY <1>2, <2>1 DEF Leads
<1> QED
  BY <1>3, <1>4, <1>5, <1>6, <1>7, <1>8 DEF Next

(* While its links are up an end trusts one of them, however late cells    *)
(* come and timers expire: some link has not been behind, and a count is   *)
(* never reset.                                                            *)
THEOREM OneLinkIsTrusted == Spec => []SomeLinkTrusted
<1>1. CountsInv /\ TrustInv => SomeLinkTrusted
  BY LeaderTrusted DEF CountsInv, TrustInv, SomeLinkTrusted
<1> QED
  BY <1>1, InitTrust, StepTrust, CountsInvariant, PTL DEF Spec

-----------------------------------------------------------------------------
(* What is delivered.                                                      *)

(* The identifier of a datagram of the first turn of the counter, and of   *)
(* one of the second.                                                      *)
LEMMA Identifier ==
  ASSUME NEW n \in Nat
  PROVE  /\ Datagram(n).id \in Nat /\ Datagram(n).n = n
         /\ n < UINT16_MAX => Datagram(n).id = n + 1
         /\ n >= UINT16_MAX /\ n <= 131070 => Datagram(n).id = n - UINT16_MAX
<1>1. Datagram(n).id = (n + 1) % 65536 /\ Datagram(n).n = n
  BY Words DEF Datagram
<1>2. PICK m \in Nat : m = (n + 1) % 65536
  OBVIOUS
<1>3. n < 65535 => m = n + 1
  BY <1>2
<1>4. n >= 65535 /\ n <= 131070 => m = n - 65535
  BY <1>2
<1> QED
  BY <1>1, <1>2, <1>3, <1>4, Words

(* A datagram of the first s. *)
Stamped(s, e) == e.n \in 1 .. s /\ e = Datagram(e.n)

(* What p keeps: all of the last TotalLinks, until the identifiers wrap.   *)
StoredWell(p) ==
  /\ \A e \in stored[p] : Stamped(sent[p], e)
  /\ sent[p] < UINT16_MAX =>
       \A n \in 1 .. sent[p] : n > sent[p] - TotalLinks => Datagram(n) \in stored[p]

(* What a cell carries: a datagram, those before it until the window is    *)
(* full or the identifiers wrap, and none with a greater identifier.       *)
Filled(s, m, dgs) ==
  /\ Datagram(m) \in dgs
  /\ \A e \in dgs : Stamped(s, e) /\ e.id <= Datagram(m).id
                    /\ (e.id = Datagram(m).id => e = Datagram(m))
  /\ m < UINT16_MAX => \A n \in 1 .. m : n + Window > m => Datagram(n) \in dgs

CellsWell(p) ==
  \A l \in Links : \A i \in 1 .. Len(chan[p][l]) :
    \E m \in 1 .. sent[p] : Filled(sent[p], m, chan[p][l][i].dgs)

(* A peer is at most a turn of the identifiers behind, or has stopped at   *)
(* the last one.                                                           *)
InWindow ==
  \A q \in Peers : recv_id[q] = UINT16_MAX \/ sent[Other(q)] - out[q] <= UINT16_MAX + 1

OrderInv ==
  /\ CountsInv
  /\ \A p \in Peers : StoredWell(p) /\ CellsWell(p) /\ recv_id[p] = out[p] + 1
  /\ LostOnlyTogether

LEMMA WindowIs ==
  /\ Window \in Nat /\ Window >= 1
  /\ \A n, m \in Nat : n + Window > m => n + Room >= m /\ n + TotalLinks > m
<1>1. TotalLinks \in Nat /\ TotalLinks >= 1 /\ Room \in Nat
  BY ThunderAssumption
<1> QED
  BY <1>1 DEF Window, Smaller

LEMMA InitOrder == Init => OrderInv
<1> SUFFICES ASSUME NEW s \in Starts, Init,
                    emit_id = [p \in Peers |-> s + 1], recv_id = emit_id,
                    stored = [p \in Peers |->
                                {Datagram(n) : n \in {n \in 1 .. s : n > s - TotalLinks}}],
                    sent = [p \in Peers |-> s], out = sent
             PROVE  OrderInv
  BY DEF Init
<1>1. /\ chan = [p \in Peers |-> [l \in Links |-> <<>>]]
      /\ skipped = [p \in Peers |-> {}]
  BY DEF Init
<1>2. s \in Nat
  BY StartsAre
<1>3. ASSUME NEW p \in Peers PROVE StoredWell(p)
  <2>1. stored[p] = {Datagram(n) : n \in {n \in 1 .. s : n > s - TotalLinks}} /\ sent[p] = s
    OBVIOUS
  <2>2. \A n \in 1 .. s : Datagram(n).n = n
    BY <1>2, Identifier
  <2>3. \A e \in stored[p] : Stamped(sent[p], e)
    <3> SUFFICES ASSUME NEW e \in stored[p] PROVE Stamped(sent[p], e)
      OBVIOUS
    <3>1. PICK n \in 1 .. s : e = Datagram(n)
      BY <2>1
    <3> QED
      BY <2>1, <2>2, <3>1 DEF Stamped
  <2> QED
    BY <2>1, <2>3 DEF StoredWell
<1>4. \A p \in Peers : CellsWell(p)
  BY <1>1 DEF CellsWell
<1> QED
  BY <1>1, <1>3, <1>4, InitCounts DEF OrderInv, LostOnlyTogether

(* What p sends is filled as cells should be, and what it keeps too.       *)
LEMMA SendsFilled ==
  ASSUME TypeOK, NEW p \in Peers, StoredWell(p), NEW m \in Nat, m = sent[p] + 1
  PROVE  LET kept == Kept(p, Datagram(m))
         IN  /\ Datagram(m) \in Sends(p)
             /\ \A e \in Sends(p) : /\ e \in kept /\ e.id <= Datagram(m).id
                                    /\ e.id = Datagram(m).id => e = Datagram(m)
             /\ \A e \in kept : e.n \in 1 .. m /\ e = Datagram(e.n)
             /\ m < UINT16_MAX =>
                  /\ \A n \in 1 .. m : n > m - TotalLinks => Datagram(n) \in kept
                  /\ \A n \in 1 .. m : n + Window > m => Datagram(n) \in Sends(p)
<1> DEFINE d    == Datagram(m)
           kept == Kept(p, d)
<1>1. Sends(p) = {d} \cup Padding(kept, d) /\ d \in kept
  BY DEF Sends, Kept
<1>2. sent[p] \in Nat /\ d.id \in Nat /\ d.n = m
  BY Counters, Identifier
<1>3. \A e \in Padding(kept, d) : e \in kept /\ e.id < d.id
  BY DEF Padding
<1>4. ASSUME NEW e \in Padding(kept, d) PROVE e.id <= d.id /\ e.id # d.id
  <2>1. e.id \in Nat
    <3>1. e \in Datagrams
      BY <1>3, SendsTyped
    <3> QED
      BY <3>1, DatagramFields
  <2> QED
    BY <1>2, <1>3, <2>1
<1>5. ASSUME NEW e \in kept PROVE e.n \in 1 .. m /\ e = Datagram(e.n)
  <2>1. CASE e = d
    BY <1>2, <2>1
  <2>2. CASE e # d
    <3>1. Stamped(sent[p], e)
      BY <2>2 DEF Kept, StoredWell
    <3> QED
      BY <1>2, <3>1 DEF Stamped
  <2> QED
    BY <2>1, <2>2
<1>6. ASSUME m < UINT16_MAX, NEW n \in 1 .. m PROVE Datagram(n).id = n + 1
  BY <1>6, Identifier, Words
<1>7. ASSUME m < UINT16_MAX, NEW n \in 1 .. m, n > m - TotalLinks
      PROVE  Datagram(n) \in kept
  <2>1. CASE n = m
    BY <1>1, <2>1
  <2>2. CASE n # m
    <3>1. Datagram(n) \in stored[p]
      <4>1. sent[p] < UINT16_MAX /\ n \in 1 .. sent[p] /\ n > sent[p] - TotalLinks
        <5>1. PICK k \in Nat : k = sent[p] /\ m = k + 1
          BY <1>2
        <5>2. TotalLinks \in Nat /\ UINT16_MAX \in Nat
          BY Words, ThunderAssumption
        <5>3. k < UINT16_MAX /\ n \in 1 .. k /\ n > k - TotalLinks
          BY <1>7, <2>2, <5>1, <5>2
        <5> QED
          BY <5>1, <5>3
      <4> QED
        BY <4>1 DEF StoredWell
    <3>2. Datagram(n).id = n + 1 /\ d.id = m + 1
      BY <1>6, <1>7
    <3>3. ~ (Datagram(n).id = d.id - TotalLinks)
      BY <1>7, <3>2, ThunderAssumption
    <3> HIDE DEF d
    <3> QED
      BY <3>1, <3>3 DEF Kept
  <2> QED
    BY <2>1, <2>2
<1>8. ASSUME m < UINT16_MAX, NEW n \in 1 .. m, n + Window > m
      PROVE  Datagram(n) \in Sends(p)
  <2>1. CASE n = m
    BY <1>1, <2>1
  <2>2. CASE n # m
    <3> DEFINE e == Datagram(n)
    <3>1. n + Room >= m /\ n + TotalLinks > m
      BY <1>8, WindowIs
    <3>2. e.id = n + 1 /\ d.id = m + 1
      BY <1>6, <1>8
    <3>3. e \in kept
      BY <1>7, <1>8, <3>1, ThunderAssumption
    <3>4. ASSUME NEW i \in e.id .. d.id PROVE \E f \in kept : f.id = i
      <4>1. i - 1 \in 1 .. m /\ i - 1 > m - TotalLinks /\ (i - 1) + 1 = i
        BY <3>1, <3>2, ThunderAssumption
      <4>2. Datagram(i - 1) \in kept /\ Datagram(i - 1).id = i
        BY <1>6, <1>7, <1>8, <4>1
      <4> QED
        BY <4>2
    <3>5. e.id < d.id /\ d.id - e.id <= Room
      BY <2>2, <3>1, <3>2, ThunderAssumption
    <3> HIDE DEF e, d, kept
    <3>6. e \in Padding(kept, d)
      BY <3>3, <3>4, <3>5 DEF Padding
    <3> QED
      BY <1>1, <3>6 DEF e
  <2> QED
    BY <2>1, <2>2
<1> HIDE DEF d
<1> QED
  BY <1>1, <1>2, <1>3, <1>4, <1>5, <1>7, <1>8 DEF d

(* A cell that is delivered from delivers its newest datagram, and all     *)
(* that the window before it has and that was not delivered.               *)
LEMMA Delivers ==
  ASSUME OrderInv, InWindow, NEW q \in Peers, NEW l \in Links,
         chan[Other(q)][l] # <<>>,
         Fresh(q, Head(chan[Other(q)][l]).dgs) # {}
  PROVE  LET fresh == Fresh(q, Head(chan[Other(q)][l]).dgs)
             m     == Newest(fresh).n
         IN  /\ m \in (out[q] + 1) .. sent[Other(q)]
             /\ Newest(fresh).id = m + 1
             /\ \A n \in (out[q] + 1) .. m : (\A d \in fresh : d.n # n) => n + Window <= m
<1> DEFINE p     == Other(q)
           dgs   == Head(chan[p][l]).dgs
           fresh == Fresh(q, dgs)
           d     == Newest(fresh)
<1>1. TypeOK /\ recv_id[q] = out[q] + 1 /\ p \in Peers /\ CellsWell(p)
  BY Others DEF OrderInv, CountsInv
<1>2. dgs \in SUBSET Datagrams
  BY <1>1, HeadTyped
<1>3. PICK m \in 1 .. sent[p] : Filled(sent[p], m, dgs)
  <2>1. chan[p][l] \in Seq(Cells) /\ chan[p][l] # <<>>
    BY <1>1, LinkFields
  <2>2. 1 \in 1 .. Len(chan[p][l]) /\ Head(chan[p][l]) = chan[p][l][1]
    BY <2>1
  <2>3. \E m \in 1 .. sent[p] : Filled(sent[p], m, chan[p][l][1].dgs)
    BY <1>1, <2>2 DEF CellsWell
  <2> QED
    BY <2>2, <2>3
<1>4. PICK b, s, r \in Nat : b = out[q] /\ s = sent[p] /\ r = recv_id[q] /\ r <= UINT16_MAX
  BY <1>1, Counters
<1>5. \A e \in fresh : e \in dgs /\ e.id > r
  BY <1>4 DEF Fresh
<1>6. d \in fresh /\ (\A e \in fresh : e.id <= d.id) /\ fresh \in SUBSET Datagrams
  <2>1. fresh \in SUBSET Datagrams /\ fresh # {}
    BY <1>2 DEF Fresh
  <2> HIDE DEF fresh
  <2> QED
    BY <2>1, NewestIs
<1>7. Datagram(m).id \in Nat /\ Datagram(m).n = m /\ m \in Nat /\ m <= s
  <2>1. m \in Nat /\ m <= s
    BY <1>4
  <2> QED
    BY <2>1, Identifier
<1>8. Datagram(m) \in dgs /\ \A e \in dgs : /\ e.id <= Datagram(m).id
                                            /\ e.id = Datagram(m).id => e = Datagram(m)
  BY <1>3 DEF Filled
<1> HIDE DEF d, fresh, dgs
<1>9. \A e \in dgs : e.id \in Nat
  BY <1>2, DatagramFields
<1>10. Datagram(m) \in fresh
  <2>1. d.id > r /\ d.id <= Datagram(m).id /\ d.id \in Nat
    BY <1>5, <1>6, <1>8, <1>9
  <2>2. Datagram(m).id > r
    BY <1>4, <1>7, <2>1
  <2> QED
    BY <1>4, <1>8, <2>2 DEF fresh, Fresh
<1>11. d = Datagram(m)
  <2>1. Datagram(m).id <= d.id /\ d.id <= Datagram(m).id /\ d.id \in Nat
    BY <1>5, <1>6, <1>8, <1>9, <1>10
  <2>2. d.id = Datagram(m).id
    BY <1>7, <2>1
  <2> QED
    BY <1>5, <1>6, <1>8, <2>2
<1>12. Datagram(m).id > r /\ r = b + 1
  BY <1>1, <1>4, <1>5, <1>10
<1>13. Datagram(m).id <= UINT16_MAX
  BY <1>2, <1>8, DatagramFields
<1>14. r < 65535 /\ r < UINT16_MAX /\ s - b <= 65536
  <2>1. r < UINT16_MAX
    BY <1>4, <1>7, <1>12, <1>13, Words
  <2>2. s - b <= UINT16_MAX + 1
    BY <1>1, <1>4, <2>1 DEF InWindow
  <2> QED
    BY <1>4, <2>1, <2>2, Words
<1>15. m < UINT16_MAX
  <2>1. SUFFICES ASSUME m >= UINT16_MAX PROVE FALSE
    BY <1>7, Words
  <2>2. m <= b + 65536 /\ b < 65534
    BY <1>4, <1>7, <1>12, <1>14
  <2>3. m <= 131070
    BY <1>4, <1>7, <2>2
  <2>4. Datagram(m).id = m - UINT16_MAX
    BY <1>7, <2>1, <2>3, Identifier
  <2> QED
    BY <1>4, <1>7, <1>12, <2>2, <2>4, Words
<1>16. Datagram(m).id = m + 1
  BY <1>7, <1>15, Identifier
<1>17. m \in (b + 1) .. s
  BY <1>4, <1>7, <1>12, <1>16
<1>18. ASSUME NEW n \in (b + 1) .. m, \A e \in fresh : e.n # n
       PROVE  n + Window <= m
  <2>1. SUFFICES ASSUME n + Window > m PROVE FALSE
    BY <1>7, WindowIs
  <2>2. n \in 1 .. m /\ n \in Nat /\ n < UINT16_MAX
    BY <1>4, <1>7, <1>15, Words
  <2>3. Datagram(n) \in dgs
    BY <1>3, <1>15, <2>1, <2>2 DEF Filled
  <2>4. Datagram(n).id = n + 1 /\ Datagram(n).n = n
    BY <2>2, Identifier
  <2>5. Datagram(n) \in fresh
    <3>1. Datagram(n).id > recv_id[q]
      BY <1>4, <1>12, <2>2, <2>4
    <3> QED
      BY <2>3, <3>1 DEF fresh, Fresh
  <2> QED
    BY <1>18, <2>4, <2>5
<1>19. m = d.n /\ d.id = m + 1
  BY <1>7, <1>11, <1>16
<1> QED
  BY <1>4, <1>17, <1>18, <1>19 DEF d, fresh, dgs

LEMMA StepOrder == OrderInv /\ InWindow /\ [Next]_vars => OrderInv'
<1> SUFFICES ASSUME OrderInv, InWindow, [Next]_vars PROVE OrderInv'
  OBVIOUS
<1>1. /\ TypeOK /\ CountsInv /\ LostOnlyTogether
      /\ \A p \in Peers : StoredWell(p) /\ CellsWell(p) /\ recv_id[p] = out[p] + 1
  BY DEF OrderInv, CountsInv
<1>2. CountsInv' /\ TypeOK'
  BY <1>1, StepCounts DEF CountsInv
<1>3. ASSUME NEW p \in Peers, stored'[p] = stored[p], sent'[p] = sent[p] PROVE StoredWell(p)'
  BY <1>1, <1>3 DEF StoredWell
<1>4. ASSUME NEW p \in Peers, sent'[p] = sent[p],
             \A l \in Links : \A i \in 1 .. Len(chan'[p][l]) :
               \E j \in 1 .. Len(chan[p][l]) : chan'[p][l][i] = chan[p][l][j]
      PROVE  CellsWell(p)'
  BY <1>1, <1>4 DEF CellsWell
<1>5. ASSUME UNCHANGED <<recv_id, out, skipped>>
      PROVE  LostOnlyTogether' /\ \A p \in Peers : recv_id'[p] = out'[p] + 1
  BY <1>1, <1>5 DEF LostOnlyTogether
<1>6. ASSUME NEW p \in Peers, OnDatagram(p) PROVE OrderInv'
  <2>1. PICK st \in Typed : Transmits(p, st)
    BY <1>1, <1>6, OnDatagramIs
  <2>2. /\ stored' = [stored EXCEPT ![p] = Kept(p, Datagram(sent[p] + 1))]
        /\ sent' = [sent EXCEPT ![p] = sent[p] + 1]
        /\ chan' = [chan EXCEPT ![p] = st.chan]
        /\ UNCHANGED <<recv_id, out, skipped>>
    BY <2>1 DEF Transmits
  <2>3. PICK m \in Nat : m = sent[p] + 1 /\ sent[p] \in Nat
    BY <1>1, Counters
  <2>4. PICK kept, dgs : kept = Kept(p, Datagram(m)) /\ dgs = Sends(p)
    OBVIOUS
  <2>5. Extended(p, dgs, st)
    BY <1>1, <2>1, <2>4, TransmitsWell DEF CountsInv
  <2>6. stored'[p] = kept /\ sent'[p] = m /\ chan'[p] = st.chan
    BY <1>1, <2>2, <2>3, <2>4 DEF TypeOK
  <2>7. /\ Datagram(m) \in dgs
        /\ \A e \in dgs : /\ e \in kept /\ e.id <= Datagram(m).id
                          /\ e.id = Datagram(m).id => e = Datagram(m)
        /\ \A e \in kept : e.n \in 1 .. m /\ e = Datagram(e.n)
        /\ m < UINT16_MAX =>
             /\ \A n \in 1 .. m : n > m - TotalLinks => Datagram(n) \in kept
             /\ \A n \in 1 .. m : n + Window > m => Datagram(n) \in dgs
    BY <1>1, <2>3, <2>4, SendsFilled
  <2>8. StoredWell(p)'
    BY <2>6, <2>7 DEF StoredWell, Stamped
  <2>9. Filled(m, m, dgs) /\ m \in 1 .. m
    BY <2>3, <2>7 DEF Filled, Stamped
  <2>10. ASSUME NEW k \in 1 .. sent[p], NEW g, Filled(sent[p], k, g)
         PROVE  Filled(m, k, g) /\ k \in 1 .. m
    BY <2>3, <2>10 DEF Filled, Stamped
  <2>11. ASSUME NEW l \in Links, NEW i \in 1 .. Len(st.chan[l])
         PROVE  \E k \in 1 .. m : Filled(m, k, st.chan[l][i].dgs)
    <3>1. /\ Len(chan[p][l]) \in Nat
          /\ IF i <= Len(chan[p][l]) THEN st.chan[l][i] = chan[p][l][i]
             ELSE st.chan[l][i].dgs = dgs
      BY <1>1, <2>5, LinkFields DEF Extended
    <3>2. CASE i <= Len(chan[p][l])
      <4>1. i \in 1 .. Len(chan[p][l])
        <5>1. Len(st.chan[l]) \in Nat
          BY StateFields
        <5> QED
          BY <3>1, <3>2, <5>1
      <4>2. PICK k \in 1 .. sent[p] : Filled(sent[p], k, chan[p][l][i].dgs)
        BY <1>1, <4>1 DEF CellsWell
      <4> QED
        BY <2>10, <3>1, <3>2, <4>2
    <3>3. CASE ~ (i <= Len(chan[p][l]))
      BY <2>9, <3>1, <3>3
    <3> QED
      BY <3>2, <3>3
  <2>12. CellsWell(p)'
    BY <2>6, <2>11 DEF CellsWell
  <2>13. ASSUME NEW q \in Peers, q # p PROVE StoredWell(q)' /\ CellsWell(q)'
    <3>1. stored'[q] = stored[q] /\ sent'[q] = sent[q] /\ chan'[q] = chan[q]
      BY <1>1, <2>2, <2>13 DEF TypeOK
    <3> QED
      BY <1>3, <1>4, <3>1
  <2> QED
    BY <1>2, <1>5, <2>2, <2>8, <2>12, <2>13 DEF OrderInv
<1>7. ASSUME NEW q \in Peers, NEW l \in Links, OnStream(q, l) PROVE OrderInv'
  <2> DEFINE o     == Other(q)
             fresh == Fresh(q, Head(chan[o][l]).dgs)
             d     == Newest(fresh)
  <2>1. PICK now, late \in SUBSET Links : Receives(q, l, now, late, Counted(q, l), fresh)
    BY <1>1, <1>7, OnStreamIs
  <2>2. o \in Peers /\ chan[o][l] # <<>> /\ UNCHANGED <<stored, sent>>
        /\ chan' = [chan EXCEPT ![o][l] = Tail(chan[o][l])]
    BY <2>1, Others DEF Receives, sending
  <2>3. \A p \in Peers : StoredWell(p)'
    BY <1>3, <2>2
  <2>4. ASSUME NEW p \in Peers, NEW k \in Links, NEW i \in 1 .. Len(chan'[p][k])
        PROVE  \E j \in 1 .. Len(chan[p][k]) : chan'[p][k][i] = chan[p][k][j]
    <3>1. CASE p = o /\ k = l
      <4>1. chan'[p][k] = Tail(chan[o][l]) /\ chan[o][l] \in Seq(Cells)
        BY <1>1, <2>2, <3>1, LinkFields DEF TypeOK
      <4>2. PICK s \in Seq(Cells) : s = chan[o][l]
        BY <4>1
      <4>3. s # <<>> /\ chan'[p][k] = Tail(s)
        BY <2>2, <4>1, <4>2
      <4>4. /\ Len(s) \in Nat /\ Len(Tail(s)) = Len(s) - 1
            /\ \A n \in 1 .. (Len(s) - 1) : Tail(s)[n] = s[n + 1]
        BY <4>3, SMT
      <4>5. i \in 1 .. (Len(s) - 1)
        BY <2>4, <4>3, <4>4
      <4>6. i + 1 \in 1 .. Len(s)
        BY <4>4, <4>5
      <4> QED
        BY <3>1, <4>2, <4>3, <4>4, <4>5, <4>6
    <3>2. CASE ~ (p = o /\ k = l)
      <4>1. chan'[p][k] = chan[p][k]
        BY <1>1, <2>2, <3>2 DEF TypeOK
      <4> QED
        BY <4>1
    <3> QED
      BY <3>1, <3>2
  <2>5. \A p \in Peers : CellsWell(p)'
    BY <1>4, <2>2, <2>4
  <2>6. CASE fresh = {}
    <3>1. UNCHANGED <<recv_id, out, skipped>>
      BY <2>1, <2>6 DEF Receives
    <3> QED
      BY <1>2, <1>5, <2>3, <2>5, <3>1 DEF OrderInv
  <2>7. CASE fresh # {}
    <3>1. /\ recv_id' = [recv_id EXCEPT ![q] = d.id] /\ out' = [out EXCEPT ![q] = d.n]
          /\ skipped' = [skipped EXCEPT ![q] = skipped[q] \cup
               {n \in (out[q] + 1) .. d.n : \A e \in fresh : e.n # n}]
      BY <2>1, <2>7 DEF Receives
    <3>2. /\ d.n \in (out[q] + 1) .. sent[o] /\ d.id = d.n + 1
          /\ \A n \in (out[q] + 1) .. d.n : (\A e \in fresh : e.n # n) => n + Window <= d.n
      BY <2>2, <2>7, Delivers
    <3> HIDE DEF d, fresh
    <3>3. /\ recv_id \in [Peers -> 0 .. UINT16_MAX] /\ out \in [Peers -> Nat]
          /\ skipped \in [Peers -> SUBSET Nat]
      BY <1>1 DEF TypeOK
    <3>4. \A p \in Peers : recv_id'[p] = out'[p] + 1
      BY <1>1, <3>1, <3>2, <3>3
    <3>5. ASSUME NEW p \in Peers, NEW n \in skipped'[p] PROVE n + Window <= out'[p]
      <4>1. CASE p # q
        <5>1. n \in skipped[p] /\ out'[p] = out[p]
          BY <3>1, <3>3, <3>5, <4>1
        <5> QED
          BY <1>1, <5>1 DEF LostOnlyTogether
      <4>2. CASE p = q /\ n \in skipped[q]
        <5>1. n + Window <= out[q] /\ n \in Nat /\ out[q] \in Nat /\ Window \in Nat
          BY <1>1, <3>3, <4>2, WindowIs DEF LostOnlyTogether
        <5>2. out'[p] = d.n /\ d.n \in Nat /\ d.n >= out[q] + 1
          <6>1. sent[o] \in Nat
            BY <1>1, <2>2, Counters
          <6> QED
            BY <3>1, <3>2, <3>3, <4>2, <5>1, <6>1
        <5> QED
          BY <5>1, <5>2
      <4>3. CASE p = q /\ n \notin skipped[q]
        <5>1. n \in (out[q] + 1) .. d.n /\ (\A e \in fresh : e.n # n) /\ out'[p] = d.n
          BY <3>1, <3>3, <3>5, <4>3
        <5> QED
          BY <3>2, <5>1
      <4> QED
        BY <4>1, <4>2, <4>3
    <3> QED
      BY <1>2, <2>3, <2>5, <3>4, <3>5 DEF OrderInv, LostOnlyTogether
  <2> QED
    BY <2>6, <2>7
<1>8. ASSUME NEW l \in Links, Break(l) PROVE OrderInv'
  <2>1. /\ chan' = [p \in Peers |-> [chan[p] EXCEPT ![l] = <<>>]]
        /\ UNCHANGED <<stored, sent, recv_id, out, skipped>>
    BY <1>8 DEF Break, sending, receiving
  <2>2. ASSUME NEW p \in Peers, NEW k \in Links, NEW i \in 1 .. Len(chan'[p][k])
        PROVE  chan'[p][k] = chan[p][k]
    BY <1>1, <2>1, <2>2 DEF TypeOK
  <2>3. \A p \in Peers : CellsWell(p)'
    BY <1>4, <2>1, <2>2
  <2> QED
    BY <1>2, <1>3, <1>5, <2>1, <2>3 DEF OrderInv
<1>9. ASSUME UNCHANGED <<stored, sent, recv_id, out, skipped, chan>> PROVE OrderInv'
  BY <1>2, <1>3, <1>4, <1>5, <1>9 DEF OrderInv
<1>10. ASSUME NEW q \in Peers, OnBlock(q) \/ Notice(q) PROVE OrderInv'
  <2>1. UNCHANGED <<stored, sent, recv_id, out, skipped, chan>>
    BY <1>10 DEF OnBlock, Notice, sending, receiving
  <2> QED
    BY <1>9, <2>1
<1>11. CASE UNCHANGED vars
  <2>1. UNCHANGED <<stored, sent, recv_id, out, skipped, chan>>
    BY <1>11 DEF vars, sending, receiving
  <2> QED
    BY <1>9, <2>1
<1> QED
  BY <1>6, <1>7, <1>8, <1>10, <1>11 DEF Next

LEMMA OrderInvariant == Spec /\ []InWindow => []OrderInv
  BY InitOrder, StepOrder, PTL DEF Spec

(* Padding makes up for cells that are lost or overtaken, as long as no    *)
(* peer is a turn of the identifiers behind: a datagram that is overtaken  *)
(* for good is overtaken by one that is newer by as many as are kept and   *)
(* fit into a cell, so that the cells of it and of the next ones were all  *)
(* lost or late.                                                           *)
THEOREM OvertakenByTheWindow == Spec /\ []InWindow => []LostOnlyTogether
<1>1. OrderInv => LostOnlyTogether
  BY DEF OrderInv
<1> QED
  BY <1>1, OrderInvariant, PTL

(* A step moves at most one of a direction's two ends: one more datagram   *)
(* goes in, or a newer one of those sent comes out.                        *)
StepOf(p) ==
  \/ sent'[p] = sent[p] + 1 /\ out'[Other(p)] = out[Other(p)]
  \/ /\ \E n \in (out[Other(p)] + 1) .. sent[p] : out'[Other(p)] = n
     /\ sent'[p] = sent[p]
  \/ sent'[p] = sent[p] /\ out'[Other(p)] = out[Other(p)]

LEMMA StepMoves ==
  ASSUME OrderInv, InWindow, [Next]_vars, NEW p \in Peers PROVE StepOf(p)
<1>1. /\ TypeOK /\ Other(p) \in Peers /\ Other(Other(p)) = p /\ sent[p] \in Nat
      /\ out \in [Peers -> Nat] /\ sent \in [Peers -> Nat]
  <2>1. TypeOK
    BY DEF OrderInv, CountsInv
  <2> QED
    BY <2>1, Others DEF TypeOK
<1>2. ASSUME NEW q \in Peers, OnDatagram(q) PROVE StepOf(p)
  <2>1. sent' = [sent EXCEPT ![q] = sent[q] + 1] /\ out' = out
    <3>1. sent' = [sent EXCEPT ![q] = Datagram(sent[q] + 1).n] /\ UNCHANGED receiving
      BY <1>2, Zenon DEF OnDatagram
    <3> QED
      BY <3>1 DEF Datagram, receiving
  <2> QED
    BY <1>1, <2>1 DEF StepOf
<1>3. ASSUME NEW q \in Peers, NEW l \in Links, OnStream(q, l) PROVE StepOf(p)
  <2> DEFINE fresh == Fresh(q, Head(chan[Other(q)][l]).dgs)
             d     == Newest(fresh)
  <2>1. PICK now, late \in SUBSET Links : Receives(q, l, now, late, Counted(q, l), fresh)
    BY <1>1, <1>3, OnStreamIs
  <2>2. /\ chan[Other(q)][l] # <<>> /\ sent' = sent
        /\ IF fresh = {} THEN out' = out ELSE out' = [out EXCEPT ![q] = d.n]
    BY <2>1 DEF Receives, sending
  <2>3. CASE fresh = {} \/ q # Other(p)
    <3> HIDE DEF fresh, d
    <3> QED
      BY <1>1, <2>2, <2>3 DEF StepOf
  <2>4. CASE fresh # {} /\ q = Other(p)
    <3>1. d.n \in (out[q] + 1) .. sent[Other(q)]
      BY <2>2, <2>4, Delivers
    <3> HIDE DEF fresh, d
    <3>2. out'[Other(p)] = d.n /\ d.n \in (out[Other(p)] + 1) .. sent[p]
      BY <1>1, <2>2, <2>4, <3>1
    <3> QED
      BY <2>2, <3>2 DEF StepOf
  <2> QED
    BY <2>3, <2>4
<1>4. ASSUME UNCHANGED <<sent, out>> PROVE StepOf(p)
  BY <1>4 DEF StepOf
<1>5. ASSUME NEW l \in Links, Break(l) PROVE StepOf(p)
  <2>1. UNCHANGED <<sent, out>>
    BY <1>5 DEF Break, sending, receiving
  <2> QED
    BY <1>4, <2>1
<1>6. ASSUME NEW q \in Peers, OnBlock(q) \/ Notice(q) PROVE StepOf(p)
  <2>1. UNCHANGED <<sent, out>>
    BY <1>6 DEF OnBlock, Notice, sending, receiving
  <2> QED
    BY <1>4, <2>1
<1>7. CASE UNCHANGED vars
  <2>1. UNCHANGED <<sent, out>>
    BY <1>7 DEF vars, sending, receiving
  <2> QED
    BY <1>4, <2>1
<1> QED
  BY <1>2, <1>3, <1>5, <1>6, <1>7 DEF Next

(* Each direction does what LossyOrder says, as long as no peer is a turn  *)
(* of the identifiers behind: whatever links deliver, drop or delay, the   *)
(* copies and the padding, datagrams come out once and in the order they   *)
(* were sent in.                                                           *)
THEOREM BothWaysInOrder == Spec /\ []InWindow => OnceInOrder
<1>1. Init => ToServer!Init /\ ToClient!Init
  <2> SUFFICES ASSUME Init PROVE ToServer!Init /\ ToClient!Init
    OBVIOUS
  <2>1. PICK s \in Starts : sent = [p \in Peers |-> s] /\ out = sent
    BY DEF Init
  <2>2. <<s, s>> \in {<<i, i>> : i \in Starts} /\ <<s, s>>[1] = s /\ <<s, s>>[2] = s
    OBVIOUS
  <2>3. sent["client"] = s /\ sent["server"] = s /\ out["client"] = s /\ out["server"] = s
    BY <2>1 DEF Peers
  <2> QED
    BY <2>2, <2>3 DEF ToServer!Init, ToClient!Init
<1>2. OrderInv /\ InWindow /\ [Next]_vars
        => /\ [ToServer!Next]_<<sent["client"], out["server"]>>
           /\ [ToClient!Next]_<<sent["server"], out["client"]>>
  <2> SUFFICES ASSUME OrderInv, InWindow, [Next]_vars
               PROVE  /\ [ToServer!Next]_<<sent["client"], out["server"]>>
                      /\ [ToClient!Next]_<<sent["server"], out["client"]>>
    OBVIOUS
  <2>1. /\ "client" \in Peers /\ "server" \in Peers
        /\ Other("client") = "server" /\ Other("server") = "client"
    BY DEF Peers, Other
  <2>2. StepOf("client") /\ StepOf("server")
    BY <2>1, StepMoves
  <2> QED
    BY <2>1, <2>2 DEF StepOf, ToServer!Next, ToServer!In, ToServer!Out,
                      ToClient!Next, ToClient!In, ToClient!Out
<1> QED
  BY <1>1, <1>2, OrderInvariant, PTL DEF Spec, OnceInOrder, ToServer!Spec, ToClient!Spec

----------------------------------------------------------------------------
(* Runs that are shorter than a turn of the identifiers never leave the    *)
(* window, and the properties hold of them without that assumption.        *)

ShortRuns == \A p \in Peers : MaxSent[p] <= UINT16_MAX + 1

Ahead ==
  \A p \in Peers : sent[p] - out[Other(p)] + budget[p] <= MaxSent[p]

LEMMA AheadInWindow ==
  ASSUME TypeOK, ShortRuns, Ahead PROVE InWindow
<1> SUFFICES ASSUME NEW q \in Peers PROVE sent[Other(q)] - out[q] <= UINT16_MAX + 1
  BY DEF InWindow
<1> DEFINE p == Other(q)
<1>1. p \in Peers /\ Other(p) = q
  BY Others
<1>2. sent[p] - out[q] + budget[p] <= MaxSent[p] /\ MaxSent[p] <= UINT16_MAX + 1
  BY <1>1 DEF Ahead, ShortRuns
<1>3. sent[p] \in Nat /\ out[q] \in Nat /\ budget[p] \in Nat /\ MaxSent[p] \in Nat
  BY <1>1, ThunderAssumption DEF TypeOK
<1> HIDE DEF p
<1>4. sent[p] - out[q] <= UINT16_MAX + 1
  BY <1>2, <1>3, Words
<1> QED
  BY <1>4 DEF p

(* Nothing but a datagram for the algorithm spends the budget. *)
LEMMA OnlyOnDatagramSends ==
  ASSUME [Next]_vars, ~ (sent' = sent /\ budget' = budget)
  PROVE  \E q \in Peers : OnDatagram(q)
<1>1. ASSUME NEW q \in Peers, OnBlock(q) PROVE sent' = sent /\ budget' = budget
  BY <1>1, Zenon DEF OnBlock, sending
<1>2. ASSUME NEW q \in Peers, Notice(q) PROVE sent' = sent /\ budget' = budget
  BY <1>2, Zenon DEF Notice, sending
<1>3. ASSUME NEW q \in Peers, NEW l \in Links, OnStream(q, l)
      PROVE  sent' = sent /\ budget' = budget
  BY <1>3, Zenon DEF OnStream, sending
<1>4. ASSUME NEW l \in Links, Break(l) PROVE sent' = sent /\ budget' = budget
  BY <1>4, Zenon DEF Break, sending
<1>5. ~ UNCHANGED vars
  BY Zenon DEF vars, sending
<1> QED
  BY <1>1, <1>2, <1>3, <1>4, <1>5, Zenon DEF Next

LEMMA AheadStep ==
  ASSUME OrderInv, ShortRuns, Ahead, [Next]_vars PROVE Ahead'
<1> SUFFICES ASSUME NEW p \in Peers
             PROVE  sent'[p] - out'[Other(p)] + budget'[p] <= MaxSent[p]
  BY DEF Ahead
<1>1. TypeOK
  BY DEF OrderInv, CountsInv
<1>2. InWindow
  BY <1>1, AheadInWindow
<1>3. PICK o \in Peers : o = Other(p)
  BY Others
<1>4. /\ sent[p] \in Nat /\ out[o] \in Nat /\ budget[p] \in Nat /\ MaxSent[p] \in Nat
      /\ budget \in [Peers -> Nat] /\ sent \in [Peers -> Nat]
      /\ sent[p] - out[o] + budget[p] <= MaxSent[p]
  BY <1>1, <1>3, ThunderAssumption DEF TypeOK, Ahead
<1>5. CASE UNCHANGED budget
  <2>1. StepOf(p) /\ (sent'[p] = sent[p] + 1 => budget'[p] # budget[p])
    <3>1. StepOf(p)
      BY <1>2, StepMoves
    <3>2. ~ (sent'[p] = sent[p] + 1)
      <4> SUFFICES ASSUME sent'[p] = sent[p] + 1 PROVE FALSE
        OBVIOUS
      <4>1. sent' # sent
        BY <1>4
      <4>2. PICK q \in Peers : OnDatagram(q)
        BY <4>1, OnlyOnDatagramSends
      <4>3. budget[q] > 0 /\ budget' = [budget EXCEPT ![q] = budget[q] - 1]
        BY <4>2, Zenon DEF OnDatagram
      <4> QED
        BY <1>4, <1>5, <4>3
    <3> QED
      BY <3>1, <3>2
  <2>2. CASE sent'[p] = sent[p] /\ out'[o] = out[o]
    BY <1>3, <1>4, <1>5, <2>2
  <2>3. ASSUME NEW n \in (out[o] + 1) .. sent[p], out'[o] = n, sent'[p] = sent[p]
        PROVE  sent'[p] - out'[o] + budget'[p] <= MaxSent[p]
    BY <1>4, <1>5, <2>3
  <2> QED
    BY <1>3, <1>5, <2>1, <2>2, <2>3 DEF StepOf
<1>6. CASE ~ UNCHANGED budget
  <2>1. PICK q \in Peers : OnDatagram(q)
    BY <1>6, OnlyOnDatagramSends
  <2>2. /\ budget[q] > 0 /\ budget' = [budget EXCEPT ![q] = budget[q] - 1]
        /\ sent' = [sent EXCEPT ![q] = Datagram(sent[q] + 1).n] /\ UNCHANGED receiving
    BY <2>1, Zenon DEF OnDatagram
  <2>3. sent' = [sent EXCEPT ![q] = sent[q] + 1] /\ out' = out
    BY <2>2 DEF Datagram, receiving
  <2>4. budget[q] \in Nat /\ sent[q] \in Nat
    BY <1>4
  <2>5. out'[o] = out[o] /\ sent'[p] + budget'[p] = sent[p] + budget[p]
    BY <1>4, <2>2, <2>3, <2>4
  <2>6. PICK a, b \in Int : a = sent'[p] /\ b = budget'[p]
    BY <1>4, <2>2, <2>3, <2>4
  <2> QED
    BY <1>3, <1>4, <2>5, <2>6
<1> QED
  BY <1>5, <1>6

(* A run in which each end sends no more datagrams than there are          *)
(* identifiers keeps every property, from any of the starts.               *)
THEOREM ShortRunsInOrder ==
  ASSUME ShortRuns
  PROVE  Spec => [](LostOnlyTogether /\ InWindow) /\ OnceInOrder
<1>1. Init => Ahead
  <2> SUFFICES ASSUME Init, NEW p \in Peers
               PROVE  sent[p] - out[Other(p)] + budget[p] <= MaxSent[p]
    BY DEF Ahead
  <2>1. PICK s \in Starts : sent = [q \in Peers |-> s] /\ out = sent /\ budget = MaxSent
    BY DEF Init
  <2>2. Other(p) \in Peers /\ MaxSent[p] \in Nat
    BY Others, ThunderAssumption
  <2>3. s \in Nat
    <3>1. s \in 0 .. (UINT16_MAX - 1)
      BY ThunderAssumption
    <3> QED
      BY <3>1, Words
  <2> QED
    BY <2>1, <2>2, <2>3
<1>2. OrderInv /\ Ahead => InWindow
  BY AheadInWindow DEF OrderInv, CountsInv
<1>3. OrderInv /\ Ahead /\ [Next]_vars => OrderInv' /\ Ahead'
  BY <1>2, StepOrder, AheadStep
<1>4. Spec => []InWindow
  BY <1>1, <1>2, <1>3, InitOrder, PTL DEF Spec
<1> QED
  BY <1>4, OvertakenByTheWindow, BothWaysInOrder, PTL

=============================================================================

------------------------- MODULE LightningSchedProofs -------------------------
(***************************************************************************)
(* The number of tags that the lightning algorithm hands out is the number *)
(* it believes in, for any number of links, any measures and any ranking   *)
(* of links that measure the same.                                         *)
(***************************************************************************)
EXTENDS LightningSched, FiniteSetTheorems, WellFoundedInduction, TLAPS

-----------------------------------------------------------------------------
(* A set of natural numbers that is not empty has a least member. *)
LEMMA LeastNumber ==
  ASSUME NEW T \in SUBSET Nat, T # {}
  PROVE  \E m \in T : \A k \in T : m <= k
<1> DEFINE R == OpToRel(<, Nat)
<1>1. IsWellFoundedOn(R, Nat)
  BY NatLessThanWellFounded
<1>2. \A x, y \in Nat : <<y, x>> \in R <=> y < x
  BY DEF OpToRel
<1> HIDE DEF R
<1>3. PICK m \in T : \A k \in T : ~ (<<k, m>> \in R)
  BY <1>1, WFMin
<1>4. \A k \in T : ~ (k < m)
  BY <1>2, <1>3
<1>5. \A k \in T : m <= k
  BY <1>4
<1> QED
  BY <1>5

(* What holds of 0, and of each number's successor, holds of all: induction, *)
(* which the library states with a predicate.                              *)
LEMMA NatInduct ==
  ASSUME NEW S \in SUBSET Nat, 0 \in S, \A n \in S : n + 1 \in S
  PROVE  S = Nat
<1> SUFFICES ASSUME Nat \ S # {} PROVE FALSE
  OBVIOUS
<1>1. PICK m \in Nat \ S : \A k \in Nat \ S : m <= k
  BY LeastNumber
<1>2. m - 1 \in Nat /\ m - 1 \in S
  BY <1>1
<1> QED
  BY <1>1, <1>2

LEMMA LinksAre ==
  /\ TotalLinks \in Nat \ {0} /\ FastCount \in Nat /\ 2 * FastCount <= TotalLinks
  /\ IsFiniteSet(Links) /\ Cardinality(Links) = TotalLinks
  /\ \A T \in SUBSET Links : IsFiniteSet(T) /\ Cardinality(T) \in 0 .. TotalLinks
<1>1. TotalLinks \in Nat \ {0} /\ FastCount \in Nat /\ 2 * FastCount <= TotalLinks
  BY LightningAssumption
<1>2. IsFiniteSet(Links) /\ Cardinality(Links) = TotalLinks
  BY <1>1, FS_Interval DEF Links
<1>3. ASSUME NEW T \in SUBSET Links
      PROVE  IsFiniteSet(T) /\ Cardinality(T) \in 0 .. TotalLinks
  <2>1. IsFiniteSet(T) /\ Cardinality(T) <= Cardinality(Links)
    BY <1>2, FS_Subset
  <2>2. Cardinality(T) \in Nat
    BY <2>1, FS_CardinalityType
  <2> QED
    BY <1>1, <1>2, <2>1, <2>2
<1> QED
  BY <1>1, <1>2, <1>3

LEMMA ParametersAre ==
  /\ MaxStale \in Nat /\ TickTock \subseteq {"BOTH", "FAST", "SLOW"}
  /\ \A a \in Averages : a \in Nat /\ a <= 32768
<1>1. MaxStale \in Nat /\ TickTock \subseteq {"BOTH", "FAST", "SLOW"}
  BY LightningAssumption
<1>2. Averages \subseteq 0 .. INT16_MAX
  BY LightningAssumption
<1>3. ASSUME NEW a \in 0 .. INT16_MAX PROVE a \in Nat /\ a <= 32768
  BY DEF INT16_MAX
<1>4. ASSUME NEW a \in Averages PROVE a \in Nat /\ a <= 32768
  <2>1. a \in 0 .. INT16_MAX
    BY <1>2
  <2> QED
    BY <1>3, <2>1
<1> QED
  BY <1>1, <1>4

-----------------------------------------------------------------------------
(* The best n of a set.                                                    *)

(* Rankings in which no two links of S are equal. *)
Ranks(S, rank) ==
  /\ \A l \in S : rank[l] \in Nat
  /\ \A l, m \in S : rank[l] = rank[m] => l = m

(* The first in the ranking. *)
LEMMA FirstOf ==
  ASSUME NEW S, NEW rank, Ranks(S, rank), NEW T \in SUBSET S, T # {}
  PROVE  \E l \in T : \A m \in T : m # l => rank[l] < rank[m]
<1> DEFINE N == {rank[l] : l \in T}
<1>1. N \in SUBSET Nat /\ N # {}
  BY DEF Ranks
<1>2. PICK n \in N : \A k \in N : n <= k
  <2> HIDE DEF N
  <2> QED
    BY <1>1, LeastNumber
<1>3. PICK l \in T : rank[l] = n
  OBVIOUS
<1>4. ASSUME NEW m \in T, m # l PROVE rank[l] < rank[m]
  BY <1>2, <1>3, <1>4 DEF Ranks
<1> QED
  BY <1>4

(* How many are ahead of a link is never less than how many are ahead of   *)
(* one that is ahead of it.                                                *)
Ahead(S, rank, l) == {m \in S : rank[m] < rank[l]}

LEMMA OneMore ==
  ASSUME NEW S, IsFiniteSet(S), NEW rank, Ranks(S, rank), NEW n \in Nat,
         Cardinality(Best(S, rank, n)) = n, Best(S, rank, n) # S
  PROVE  Cardinality(Best(S, rank, n + 1)) = n + 1
<1> DEFINE B == Best(S, rank, n)
<1>1. B \subseteq S /\ IsFiniteSet(B) /\ Cardinality(B) = n
  <2>1. B \in SUBSET S
    BY DEF Best
  <2> QED
    BY <2>1, FS_Subset
<1>2. \A l \in S : /\ IsFiniteSet(Ahead(S, rank, l)) /\ Cardinality(Ahead(S, rank, l)) \in Nat
                   /\ l \in B <=> Cardinality(Ahead(S, rank, l)) < n
                   /\ l \in Best(S, rank, n + 1) <=> Cardinality(Ahead(S, rank, l)) < n + 1
  <2> TAKE l \in S
  <2>1. Ahead(S, rank, l) \in SUBSET S
    BY DEF Ahead
  <2> QED
    BY <2>1, FS_Subset, FS_CardinalityType DEF Best, Ahead
<1>3. PICK f \in S \ B : \A m \in S \ B : m # f => rank[f] < rank[m]
  <2>1. S \ B \in SUBSET S /\ S \ B # {}
    BY <1>1
  <2> HIDE DEF B
  <2> QED
    BY <2>1, FirstOf
<1>4. Ahead(S, rank, f) = B
  <2>1. ASSUME NEW x \in Ahead(S, rank, f) PROVE x \in B
    <3>1. x \in S /\ rank[x] < rank[f] /\ rank[x] \in Nat /\ rank[f] \in Nat
      BY <1>3 DEF Ahead, Ranks
    <3> HIDE DEF B
    <3> QED
      BY <1>3, <3>1
  <2>2. ASSUME NEW x \in B, x \notin Ahead(S, rank, f) PROVE FALSE
    <3>1. x \in S /\ rank[x] \in Nat /\ rank[f] \in Nat /\ ~ (rank[x] < rank[f])
      BY <1>1, <1>3, <2>2 DEF Ahead, Ranks
    <3>2. Ahead(S, rank, f) \in SUBSET Ahead(S, rank, x)
      BY <3>1 DEF Ahead, Ranks
    <3>3. Cardinality(Ahead(S, rank, f)) <= Cardinality(Ahead(S, rank, x))
      BY <1>2, <3>1, <3>2, FS_Subset
    <3> QED
      BY <1>2, <1>3, <3>1, <3>3
  <2> QED
    BY <1>1, <2>1, <2>2
<1>5. f \in Best(S, rank, n + 1)
  BY <1>1, <1>2, <1>3, <1>4
<1>6. B \subseteq Best(S, rank, n + 1)
  BY <1>1, <1>2
<1>7. ASSUME NEW x \in S, x \notin B, x # f PROVE x \notin Best(S, rank, n + 1)
  <2>1. rank[f] < rank[x] /\ rank[f] \in Nat /\ rank[x] \in Nat
    BY <1>3, <1>7 DEF Ranks
  <2>2. B \cup {f} \in SUBSET Ahead(S, rank, x)
    BY <1>3, <1>4, <2>1 DEF Ahead, Ranks
  <2>3. Cardinality(B \cup {f}) = n + 1
    BY <1>1, <1>3, FS_AddElement
  <2>4. n + 1 <= Cardinality(Ahead(S, rank, x))
    BY <1>2, <2>2, <2>3, FS_Subset
  <2> QED
    BY <1>2, <2>4
<1>8. Best(S, rank, n + 1) = B \cup {f}
  <2>1. Best(S, rank, n + 1) \subseteq S
    BY DEF Best
  <2> HIDE DEF B
  <2> QED
    BY <1>3, <1>5, <1>6, <1>7, <2>1
<1> QED
  <2> HIDE DEF B
  <2> QED
    BY <1>1, <1>3, <1>8, FS_AddElement

(* The best n of S are n, or all there are. *)
LEMMA BestOf ==
  ASSUME NEW S, IsFiniteSet(S), NEW rank, Ranks(S, rank), NEW n \in Nat
  PROVE  /\ Best(S, rank, n) \subseteq S
         /\ Cardinality(Best(S, rank, n)) = Smaller(n, Cardinality(S))
<1> DEFINE K == {k \in Nat : Cardinality(Best(S, rank, k)) = Smaller(k, Cardinality(S))}
<1>1. \A k \in Nat : Best(S, rank, k) \in SUBSET S
  BY DEF Best
<1>2. \A l \in S : Cardinality(Ahead(S, rank, l)) \in Nat
  <2> TAKE l \in S
  <2>1. Ahead(S, rank, l) \in SUBSET S
    BY DEF Ahead
  <2> QED
    BY <2>1, FS_Subset, FS_CardinalityType
<1>3. Cardinality(S) \in Nat
  BY FS_CardinalityType
<1>4. 0 \in K
  <2>1. Best(S, rank, 0) = {}
    BY <1>2 DEF Best, Ahead
  <2> QED
    BY <1>3, <2>1, FS_EmptySet DEF Smaller
<1>5. ASSUME NEW k \in K PROVE k + 1 \in K
  <2>1. CASE k < Cardinality(S)
    <3>1. Cardinality(Best(S, rank, k)) = k /\ Best(S, rank, k) # S
      BY <1>3, <2>1 DEF Smaller
    <3>2. Cardinality(Best(S, rank, k + 1)) = k + 1
      BY <3>1, OneMore
    <3> QED
      BY <1>3, <2>1, <3>2 DEF Smaller
  <2>2. CASE ~ (k < Cardinality(S))
    <3>1. Best(S, rank, k) = S
      BY <1>1, <1>3, <2>2, FS_Subset DEF Smaller
    <3>2. \A l \in S : l \in Best(S, rank, k + 1)
      BY <1>2, <3>1 DEF Best, Ahead
    <3>3. Best(S, rank, k + 1) = S
      <4>1. k + 1 \in Nat
        OBVIOUS
      <4>2. Best(S, rank, k + 1) \in SUBSET S
        BY <1>1, <4>1
      <4> QED
        BY <3>2, <4>2
    <3> QED
      BY <1>3, <2>2, <3>3 DEF Smaller
  <2> QED
    BY <2>1, <2>2
<1>6. K = Nat
  <2>1. K \in SUBSET Nat
    OBVIOUS
  <2> HIDE DEF K
  <2> QED
    BY <1>4, <1>5, <2>1, NatInduct
<1> QED
  BY <1>1, <1>6

(* The rankings of links have no equals, in either direction. *)
LEMMA RankingsRank ==
  ASSUME NEW score, NEW rank \in Rankings(score), NEW S \in SUBSET Links
  PROVE  Ranks(S, rank) /\ Ranks(S, [l \in Links |-> TotalLinks - rank[l]])
<1>1. rank \in [Links -> 1 .. TotalLinks] /\ \A l, m \in Links : rank[l] = rank[m] => l = m
  <2>1. CASE DisableScheduler
    BY <2>1, LinksAre DEF Rankings, Links
  <2>2. CASE ~ DisableScheduler
    BY <2>2 DEF Rankings, Orders
  <2> QED
    BY <2>1, <2>2
<1> QED
  BY <1>1, LinksAre DEF Ranks

-----------------------------------------------------------------------------
(* How many links have a tag.                                              *)

(* "Adapt tags quantity to active links" makes the difference. *)
LEMMA Adapted ==
  ASSUME NEW score, NEW rank \in Rankings(score), NEW T \in SUBSET Links, NEW diff \in Int,
         Cardinality(T) + diff \in 0 .. TotalLinks
  PROVE  /\ Adapt(T, rank, diff) \in SUBSET Links
         /\ Cardinality(Adapt(T, rank, diff)) = Cardinality(T) + diff
<1>1. IsFiniteSet(T) /\ Cardinality(T) \in 0 .. TotalLinks /\ TotalLinks \in Nat
  BY LinksAre
<1>2. CASE diff >= 0
  <2> DEFINE idle == Links \ T
             B == Best(idle, rank, diff)
  <2>1. IsFiniteSet(idle) /\ Cardinality(idle) = TotalLinks - Cardinality(T)
    <3>1. Links \cap T = T
      OBVIOUS
    <3> QED
      BY <3>1, LinksAre, FS_Difference
  <2>2. diff \in Nat /\ Smaller(diff, Cardinality(idle)) = diff
    <3> HIDE DEF idle
    <3> QED
      BY <1>1, <1>2, <2>1 DEF Smaller
  <2>3. B \subseteq idle /\ Cardinality(B) = diff
    <3>1. Ranks(idle, rank)
      BY RankingsRank
    <3> HIDE DEF idle
    <3> QED
      BY <2>1, <2>2, <3>1, BestOf
  <2>4. IsFiniteSet(B) /\ T \cap B = {}
    BY <2>1, <2>3, FS_Subset
  <2>5. Cardinality(T \cup B) = Cardinality(T) + diff
    <3>1. Cardinality(T \cap B) = 0
      BY <2>4, FS_EmptySet
    <3> HIDE DEF B
    <3>2. Cardinality(T \cup B) = Cardinality(T) + Cardinality(B) - Cardinality(T \cap B)
      BY <1>1, <2>4, FS_Union
    <3> QED
      BY <1>1, <2>3, <3>1, <3>2
  <2>6. Adapt(T, rank, diff) = T \cup B
    BY <1>2 DEF Adapt
  <2> QED
    BY <2>3, <2>5, <2>6
<1>3. CASE ~ (diff >= 0)
  <2> DEFINE B == Worst(T, rank, - diff)
  <2>1. - diff \in Nat /\ Smaller(- diff, Cardinality(T)) = - diff
    BY <1>1, <1>3 DEF Smaller
  <2>2. B \subseteq T /\ Cardinality(B) = - diff
    BY <1>1, <2>1, RankingsRank, BestOf DEF Worst
  <2>3. Cardinality(T \ B) = Cardinality(T) + diff
    <3>1. T \cap B = B
      BY <2>2
    <3> HIDE DEF B
    <3>2. Cardinality(T \ B) = Cardinality(T) - Cardinality(B)
      BY <1>1, <3>1, FS_Difference
    <3>3. Cardinality(B) = - diff
      BY <2>2
    <3> QED
      BY <1>1, <3>2, <3>3
  <2>4. Adapt(T, rank, diff) = T \ B
    BY <1>3 DEF Adapt
  <2> QED
    BY <2>3, <2>4
<1> QED
  BY <1>2, <1>3

(* The link that leaves has a tag, and the one that enters has none. *)
LEMMA LeavingIs ==
  ASSUME NEW score, NEW top \in Nat,
         \A l \in Links : Retained(score[l]) \in Nat /\ Retained(score[l]) <= top,
         NEW rank \in Rankings(score), NEW T \in SUBSET Links, T # {}
  PROVE  Leaving(T, rank, score) \in T
<1> DEFINE cost == [l \in Links |-> top - Retained(score[l])]
           back == [l \in Links |-> TotalLinks - rank[l]]
           N == {cost[l] : l \in T}
<1>1. /\ \A l \in Links : cost[l] \in Nat /\ cost[l] = top - Retained(score[l])
      /\ \A l \in Links : back[l] = TotalLinks - rank[l]
  OBVIOUS
<1>2. Ranks(Links, back) /\ Ranks(Links, rank)
  BY RankingsRank
<1> HIDE DEF cost, back
<1>3. N \in SUBSET Nat /\ N # {}
  BY <1>1
<1>4. PICK n \in N : \A k \in N : n <= k
  <2> HIDE DEF N
  <2> QED
    BY <1>3, LeastNumber
<1> DEFINE W == {l \in T : cost[l] = n}
<1>5. W \in SUBSET Links /\ W # {}
  OBVIOUS
<1>6. PICK l \in W : \A m \in W : m # l => back[l] < back[m]
  <2> HIDE DEF W
  <2> QED
    BY <1>2, <1>5, FirstOf
<1>7. ASSUME NEW m \in T
      PROVE  \/ Retained(score[m]) < Retained(score[l])
             \/ Retained(score[m]) = Retained(score[l]) /\ rank[m] <= rank[l]
  <2>1. cost[l] = n /\ n <= cost[m] /\ m \in Links /\ l \in Links
    BY <1>4
  <2>2. /\ Retained(score[m]) \in Nat /\ Retained(score[l]) \in Nat
        /\ rank[m] \in Nat /\ rank[l] \in Nat /\ TotalLinks \in Nat
    BY <1>2, <2>1, LinksAre DEF Ranks
  <2>3. cost[m] = n => m = l \/ back[l] < back[m]
    BY <1>6
  <2> HIDE DEF W, N
  <2> QED
    BY <1>1, <2>1, <2>2, <2>3
<1> QED
  BY <1>7 DEF Leaving

LEMMA EnteringIs ==
  ASSUME last \in [Links -> 0 .. TotalLinks], NEW score,
         NEW rank \in Rankings(score), NEW T \in SUBSET Links, Candidates(T, score) # {}
  PROVE  Entering(T, rank, score) \in Links \ T
<1> DEFINE C == Candidates(T, score)
           N == {last[l] : l \in C}
<1>1. C \in SUBSET (Links \ T) /\ C # {}
  BY DEF Candidates
<1>2. N \in SUBSET Nat /\ N # {}
  BY <1>1, LinksAre
<1>3. PICK n \in N : \A k \in N : n <= k
  <2> HIDE DEF N
  <2> QED
    BY <1>2, LeastNumber
<1> DEFINE F == {l \in C : last[l] = n}
<1> HIDE DEF C
<1>4. F \in SUBSET Links /\ F # {}
  BY <1>1
<1>5. Ranks(Links, rank)
  BY RankingsRank
<1>6. PICK l \in F : \A m \in F : m # l => rank[l] < rank[m]
  <2> HIDE DEF F
  <2> QED
    BY <1>4, <1>5, FirstOf
<1>7. ASSUME NEW m \in C
      PROVE  last[l] < last[m] \/ (last[l] = last[m] /\ rank[l] <= rank[m])
  <2>1. last[l] = n /\ n <= last[m] /\ last[m] \in Nat /\ n \in Nat
    BY <1>2, <1>3
  <2>2. rank[m] \in Nat /\ rank[l] \in Nat
    BY <1>1, <1>5 DEF Ranks
  <2> QED
    BY <1>6, <2>1, <2>2
<1>8. Entering(T, rank, score) \in C
  <2>1. Entering(T, rank, score) =
          CHOOSE e \in C : \A m \in C :
            last[e] < last[m] \/ (last[e] = last[m] /\ rank[e] <= rank[m])
    BY DEF Entering, C
  <2> QED
    BY <1>6, <1>7, <2>1
<1> QED
  BY <1>1, <1>8

(* A rotation exchanges one link for another. *)
LEMMA Rotated ==
  ASSUME last \in [Links -> 0 .. TotalLinks], NEW score, NEW top \in Nat,
         \A l \in Links : Retained(score[l]) \in Nat /\ Retained(score[l]) <= top,
         NEW rank \in Rankings(score), NEW T \in SUBSET Links
  PROVE  /\ update_used(T, rank, score) \in SUBSET Links
         /\ Cardinality(update_used(T, rank, score)) = Cardinality(T)
<1>1. CASE ~ Rotates(T, score)
  BY <1>1 DEF update_used
<1>2. CASE Rotates(T, score)
  <2> DEFINE out == Leaving(T, rank, score)
             in  == Entering(T, rank, score)
  <2>1. out \in T /\ in \in Links \ T
    <3>1. T # {} /\ Candidates(T, score) # {}
      BY <1>2 DEF Rotates
    <3> QED
      BY <3>1, LeavingIs, EnteringIs
  <2>2. update_used(T, rank, score) = (T \ {out}) \cup {in}
    BY <1>2 DEF update_used
  <2> HIDE DEF out, in
  <2>3. IsFiniteSet(T) /\ Cardinality(T) \in Nat
    BY LinksAre
  <2>4. IsFiniteSet(T \ {out}) /\ Cardinality(T \ {out}) = Cardinality(T) - 1
    BY <2>1, <2>3, FS_RemoveElement
  <2>5. Cardinality((T \ {out}) \cup {in}) = Cardinality(T \ {out}) + 1
    BY <2>1, <2>4, FS_AddElement
  <2> QED
    BY <2>1, <2>2, <2>3, <2>4, <2>5
<1> QED
  BY <1>1, <1>2

(* link_cat gives all of T a tag, and FAST to as many as it is told. *)
LEMMA TagsGiven ==
  ASSUME NEW score, NEW rank \in Rankings(score), NEW T \in SUBSET Links,
         NEW fasts \in Nat, fasts <= Cardinality(T)
  PROVE  LET u == link_cat(T, rank, fasts)
         IN  /\ u \in [Links -> Tags] /\ Tagged(u) = T
             /\ Cardinality({l \in Links : u[l] = "FAST"}) = fasts
<1> DEFINE B == Best(T, rank, fasts)
           u == link_cat(T, rank, fasts)
<1>1. IsFiniteSet(T) /\ Cardinality(T) \in Nat
  BY LinksAre
<1>2. B \subseteq T /\ Cardinality(B) = fasts
  <2>1. Smaller(fasts, Cardinality(T)) = fasts
    BY <1>1 DEF Smaller
  <2> QED
    BY <1>1, <2>1, RankingsRank, BestOf
<1>3. u = [l \in Links |-> IF l \in B THEN "FAST" ELSE IF l \in T THEN "SLOW" ELSE "NOT_USED"]
  BY DEF link_cat
<1> HIDE DEF B, u
<1>4. u \in [Links -> Tags] /\ Tagged(u) = T
  BY <1>2, <1>3 DEF Tags, Tagged
<1>5. {l \in Links : u[l] = "FAST"} = B
  BY <1>2, <1>3
<1> QED
  BY <1>2, <1>4, <1>5 DEF u

-----------------------------------------------------------------------------
(* The invariant is inductive as it stands.                                *)

IInv == TypeOK /\ TagsMatchActive

LEMMA ScoresAre ==
  ASSUME NEW score \in Scores, NEW l \in Links
  PROVE  Retained(score[l]) \in Nat /\ Retained(score[l]) <= 32768
<1>1. PICK m \in [up -> Averages \cup {Unmeasured}] :
        score = [i \in Links |-> IF i \in up THEN m[i] ELSE Broken]
  BY DEF Scores
<1>2. score[l] \in Averages \cup {Unmeasured, Broken}
  BY <1>1
<1> QED
  BY <1>2, ParametersAre DEF Retained, Unmeasured, Broken

LEMMA TargetIs ==
  ASSUME TypeOK
  PROVE  /\ Target \in 0 .. TotalLinks
         /\ Target \div 2 \in Nat /\ Target \div 2 <= Target
<1>1. Cardinality(up) \in Nat /\ stale \in Nat
  BY LinksAre, ParametersAre DEF TypeOK
<1> QED
  BY <1>1, LinksAre DEF Target, Smaller

(* Whatever was measured, the tags that come of it are as many as the      *)
(* algorithm takes them to be.                                             *)
LEMMA OutcomesAre ==
  ASSUME IInv, NEW o \in Outcomes
  PROVE  /\ o.used \in [Links -> Tags] /\ o.due \in BOOLEAN
         /\ Cardinality(Tagged(o.used)) = Target
         /\ Cardinality({l \in Links : o.used[l] = "FAST"}) = Target \div 2
<1>0. PICK score \in Scores : \E rank \in Rankings(score) :
        o = Categorised(Adapt(Tagged(used), rank, Target - active), rank, score)
  BY DEF Outcomes
<1>1. PICK rank \in Rankings(score) :
        o = Categorised(Adapt(Tagged(used), rank, Target - active), rank, score)
  BY <1>0
<1> DEFINE T == Adapt(Tagged(used), rank, Target - active)
           U == update_used(T, rank, score)
<1>2. /\ Target \in 0 .. TotalLinks /\ Target \div 2 \in Nat /\ Target \div 2 <= Target
      /\ active \in 0 .. TotalLinks /\ TotalLinks \in Nat
      /\ last \in [Links -> 0 .. TotalLinks] /\ due \in BOOLEAN
      /\ Tagged(used) \in SUBSET Links /\ Cardinality(Tagged(used)) = active
  BY TargetIs, LinksAre DEF IInv, TypeOK, TagsMatchActive, Tagged
<1>3. T \in SUBSET Links /\ Cardinality(T) = Target
  BY <1>2, Adapted
<1>4. o.used = link_cat(U, rank, Target \div 2) /\ o.due = (due /\ ~ Rotates(T, score))
  BY <1>1 DEF Categorised
<1> HIDE DEF T
<1>5. U \in SUBSET Links /\ Cardinality(U) = Target
  <2>1. \A l \in Links : Retained(score[l]) \in Nat /\ Retained(score[l]) <= 32768
    BY ScoresAre
  <2> QED
    BY <1>2, <1>3, <2>1, Rotated
<1> HIDE DEF U
<1>6. /\ o.used \in [Links -> Tags] /\ Tagged(o.used) = U
      /\ Cardinality({l \in Links : o.used[l] = "FAST"}) = Target \div 2
  <2>1. Target \div 2 \in Nat /\ Target \div 2 <= Cardinality(U)
    BY <1>2, <1>5
  <2> QED
    BY <1>4, <1>5, <2>1, TagsGiven
<1> QED
  BY <1>2, <1>4, <1>5, <1>6

LEMMA TouchTyped ==
  ASSUME NEW t \in [Links -> 0 .. TotalLinks], NEW S
  PROVE  Touch(t, S) \in [Links -> 0 .. TotalLinks]
BY LinksAre DEF Touch

LEMMA InitIInv == Init => IInv
<1> SUFFICES ASSUME Init PROVE IInv
  OBVIOUS
<1>1. Tagged(used) = {} /\ {l \in Links : used[l] = "FAST"} = {}
  BY DEF Init, Tagged
<1>2. TagsMatchActive
  BY <1>1, FS_EmptySet DEF Init, TagsMatchActive
<1>3. TypeOK
  BY LinksAre, ParametersAre DEF Init, TypeOK, Tags
<1> QED
  BY <1>2, <1>3 DEF IInv

LEMMA OnDatagramIInv == IInv /\ OnDatagram => IInv'
<1> SUFFICES ASSUME IInv, OnDatagram PROVE IInv'
  OBVIOUS
<1>1. PICK o \in Outcomes, fast \in SUBSET Links, slow \in SUBSET Links :
        /\ used' = o.used /\ due' = o.due /\ picked' = fast \cup slow
        /\ last' = Touch(Touch(last, fast), slow)
  BY DEF OnDatagram, Oldest
<1>2. active' = Target /\ sched_strat' = NextStrat /\ UNCHANGED <<up, stale>>
  BY DEF OnDatagram
<1>3. /\ o.used \in [Links -> Tags] /\ o.due \in BOOLEAN
      /\ Cardinality(Tagged(o.used)) = Target
      /\ Cardinality({l \in Links : o.used[l] = "FAST"}) = Target \div 2
  BY OutcomesAre
<1>4. TagsMatchActive'
  BY <1>1, <1>2, <1>3 DEF TagsMatchActive, Tagged
<1>5. last' \in [Links -> 0 .. TotalLinks]
  BY <1>1, TouchTyped DEF IInv, TypeOK
<1>6. Target \in 0 .. TotalLinks
  BY TargetIs DEF IInv
<1>7. sched_strat' \in {"BOTH", "FAST", "SLOW"}
  BY <1>2 DEF NextStrat, IInv, TypeOK
<1> QED
  BY <1>1, <1>2, <1>3, <1>4, <1>5, <1>6, <1>7 DEF IInv, TypeOK

LEMMA NextIInv == IInv /\ [Next]_vars => IInv'
<1> SUFFICES ASSUME IInv, [Next]_vars PROVE IInv'
  OBVIOUS
<1>1. CASE OnDatagram
  BY <1>1, OnDatagramIInv
<1>2. CASE WindowPasses
  BY <1>2 DEF WindowPasses, IInv, TypeOK, TagsMatchActive, Tagged
<1>3. CASE LinkUp
  BY <1>3 DEF LinkUp, IInv, TypeOK, TagsMatchActive, Tagged
<1>4. CASE LinkDown
  BY <1>4 DEF LinkDown, IInv, TypeOK, TagsMatchActive, Tagged
<1>5. CASE ConnectAgain
  BY <1>5, ParametersAre DEF ConnectAgain, IInv, TypeOK, TagsMatchActive, Tagged
<1>6. CASE StaleGone
  BY <1>6, ParametersAre DEF StaleGone, IInv, TypeOK, TagsMatchActive, Tagged
<1>7. CASE UNCHANGED vars
  BY <1>7 DEF vars, IInv, TypeOK, TagsMatchActive, Tagged
<1> QED
  BY <1>1, <1>2, <1>3, <1>4, <1>5, <1>6, <1>7 DEF Next

LEMMA Invariant == Spec => []IInv
  BY InitIInv, NextIInv, PTL DEF Spec

(* For any number of links and any measures, tags, ranks of last use and   *)
(* the links picked are of their types, and the algorithm never believes   *)
(* in more tags than there are links.                                      *)
THEOREM TypeCorrect == Spec => []TypeOK
<1>1. IInv => TypeOK
  BY DEF IInv
<1> QED
  BY <1>1, Invariant, PTL

(* Tags are only ever adjusted by differences, and yet they are always as  *)
(* many as the algorithm believes, half of them FAST: however links come,  *)
(* go and are ranked, and whichever a rotation exchanges.                  *)
THEOREM TagsAreCounted == Spec => []TagsMatchActive
<1>1. IInv => TagsMatchActive
  BY DEF IInv
<1> QED
  BY <1>1, Invariant, PTL

=============================================================================

--------------------------- MODULE ShardCfgProofs ---------------------------
(***************************************************************************)
(* Rebalance ends and leaves a balanced configuration, for every number of *)
(* shards, every set of groups and every configuration it starts from.     *)
(*                                                                         *)
(* Its second loop has no counter.  It ends because each round takes a     *)
(* shard from a group with the most shards and gives it to one that has at *)
(* least two fewer: the highest load falls, or it stays and fewer shards   *)
(* are in groups with that load.                                           *)
(*                                                                         *)
(* The loops are recursive functions of the model.  That there are such    *)
(* functions is proved first, for any loop, and then what they compute, by *)
(* taking a first round in which it would not hold.                        *)
(***************************************************************************)
EXTENDS ShardCfg, FiniteSetTheorems, WellFoundedInduction, TLAPS

-----------------------------------------------------------------------------
(* Induction and loops.                                                    *)

(* A set of numbers that is not empty has a least one.                     *)
LEMMA LeastNumber ==
  ASSUME NEW T \in SUBSET Nat, T # {}
  PROVE  \E m \in T : \A k \in T : m <= k
<1> DEFINE R == {r \in Nat \X Nat : r[1] < r[2]}
<1>1. IsWellFoundedOn(R, Nat)
  BY NatLessThanWellFounded, Zenon DEF OpToRel
<1>2. PICK m \in T : \A k \in T : ~(<<k, m>> \in R)
  BY <1>1, WFMin, Zenon
<1>3. ASSUME NEW k \in T PROVE m <= k
  <2>1. k \in Nat /\ m \in Nat
    OBVIOUS
  <2>2. ~(k < m)
    <3>1. ~(<<k, m>> \in R)
      BY <1>2
    <3> QED
      BY <2>1, <3>1
  <2> QED
    BY <2>1, <2>2
<1> QED
  BY <1>3

(* The first number that lacks a property follows one that has it.         *)
LEMMA Induction ==
  ASSUME NEW N \in Nat, NEW S \in SUBSET (0 .. N), 0 \in S,
         \A n \in S : n < N => n + 1 \in S
  PROVE  S = 0 .. N
<1> SUFFICES ASSUME (0 .. N) \ S # {} PROVE FALSE
  BY Zenon
<1>1. PICK m \in (0 .. N) \ S : \A k \in (0 .. N) \ S : m <= k
  <2>1. (0 .. N) \ S \in SUBSET Nat
    OBVIOUS
  <2> QED
    BY <2>1, LeastNumber, Zenon
<1>2. m # 0 /\ m - 1 \in 0 .. N /\ m - 1 < N
  BY <1>1
<1>3. m - 1 \in S
  BY <1>1, <1>2
<1> QED
  BY <1>1, <1>2, <1>3

(* Min is the least number of a set that is not empty.                     *)
LEMMA MinIsLeast ==
  ASSUME NEW T \in SUBSET Nat, T # {}
  PROVE  Min(T) \in T /\ \A k \in T : Min(T) <= k
<1>1. \E m \in T : \A k \in T : m <= k
  BY LeastNumber
<1> QED
  BY <1>1, Zenon DEF Min

\* The values f of a variable of type T in a loop over the indices below N.
Iterates(f, N, T, A, step) ==
  /\ f \in [0 .. N -> T]
  /\ \A n \in 0 .. N : f[n] = IF n = 0 THEN A ELSE step[n - 1][f[n - 1]]

(* A loop over the indices below N has a value after each of its rounds.   *)
LEMMA ForLoop ==
  ASSUME NEW N \in Nat, NEW T, NEW A \in T, NEW step \in [0 .. N -> [T -> T]]
  PROVE  \E f : Iterates(f, N, T, A, step)
<1> DEFINE Runs(k, f) == /\ f \in [0 .. N -> T]
                         /\ \A n \in 0 .. k : f[n] = IF n = 0 THEN A ELSE step[n - 1][f[n - 1]]
           S == {k \in 0 .. N : \E f : Runs(k, f)}
<1>1. 0 \in S
  <2>1. Runs(0, [n \in 0 .. N |-> A])
    OBVIOUS
  <2>2. 0 \in 0 .. N
    OBVIOUS
  <2> HIDE DEF Runs
  <2> QED
    BY <2>1, <2>2, Zenon
<1>2. ASSUME NEW n \in S, n < N PROVE n + 1 \in S
  <2>1. PICK f : Runs(n, f)
    OBVIOUS
  <2> DEFINE g == [f EXCEPT ![n + 1] = step[n][f[n]]]
  <2>2. n \in 0 .. N /\ n + 1 \in 0 .. N
    BY <1>2
  <2>3. step[n][f[n]] \in T
    BY <2>1, <2>2
  <2>4. g \in [0 .. N -> T]
    BY <2>1, <2>2, <2>3
  <2>5. \A k \in 0 .. n : g[k] = f[k]
    BY <2>1, <2>2
  <2>6. g[n + 1] = step[n][g[n]]
    BY <2>1, <2>2, <2>5
  <2>7. ASSUME NEW k \in 0 .. n + 1 PROVE g[k] = IF k = 0 THEN A ELSE step[k - 1][g[k - 1]]
    <3>1. CASE k = n + 1
      BY <3>1, <2>2, <2>6
    <3>2. CASE k = 0
      BY <3>2, <2>1, <2>2, <2>5
    <3>3. CASE k # n + 1 /\ k # 0
      <4>1. k \in 0 .. n /\ k - 1 \in 0 .. n
        BY <3>3, <2>2
      <4>2. f[k] = step[k - 1][f[k - 1]]
        BY <2>1, <3>3, <4>1
      <4> QED
        BY <4>1, <4>2, <2>5, <3>3
    <3> QED
      BY <3>1, <3>2, <3>3
  <2> QED
    BY <2>2, <2>4, <2>7, Zenon
<1>3. S = 0 .. N
  <2> HIDE DEF S
  <2>1. S \in SUBSET (0 .. N)
    BY DEF S
  <2> QED
    BY <1>1, <1>2, <2>1, Induction
<1>4. PICK f : Runs(N, f)
  <2>1. N \in S
    <3>1. N \in 0 .. N
      OBVIOUS
    <3> HIDE DEF S
    <3> QED
      BY <1>3, <3>1
  <2> HIDE DEF Runs
  <2> QED
    BY <2>1, Zenon
<1> QED
  BY <1>4, Zenon DEF Iterates

(* A loop that runs until it is done is a function of where it starts.     *)
LEMMA WhileLoop ==
  ASSUME NEW S, NEW Done \in SUBSET S, NEW move \in [S -> S]
  PROVE  \E f : f = [B \in S |-> IF B \in Done THEN B ELSE f[move[B]]]
<1> DEFINE Closed(Q) == \A X \in Q : X \notin Done => move[X] \in Q
           Reach(B) == {C \in Done : \A Q \in SUBSET S : Closed(Q) /\ B \in Q => C \in Q}
           loop == [B \in S |-> CHOOSE C : C \in Reach(B)]
<1>1. ASSUME NEW B \in Done PROVE Reach(B) = {B}
  <2>1. Closed({B})
    OBVIOUS
  <2> QED
    BY <2>1, Zenon
<1>2. ASSUME NEW B \in S \ Done PROVE Reach(B) = Reach(move[B])
  <2>1. ASSUME NEW C \in Reach(B), NEW Q \in SUBSET S, Closed(Q), move[B] \in Q PROVE C \in Q
    <3>1. Q \cup {B} \in SUBSET S /\ Closed(Q \cup {B}) /\ B \in Q \cup {B}
      BY <2>1
    <3>2. C \in Q \cup {B}
      BY <3>1, Zenon
    <3> QED
      BY <3>2
  <2>2. ASSUME NEW C \in Reach(move[B]), NEW Q \in SUBSET S, Closed(Q), B \in Q PROVE C \in Q
    BY <2>2
  <2> QED
    BY <2>1, <2>2
<1>3. \A B \in Done : loop[B] = B
  <2> TAKE B \in Done
  <2>1. loop[B] = CHOOSE C : C \in {B}
    BY <1>1
  <2> QED
    BY <2>1
<1>4. \A B \in S \ Done : loop[B] = loop[move[B]]
  <2> TAKE B \in S \ Done
  <2>1. loop[B] = CHOOSE C : C \in Reach(B)
    BY Zenon
  <2>2. loop[move[B]] = CHOOSE C : C \in Reach(move[B])
    <3>1. move[B] \in S
      OBVIOUS
    <3> QED
      BY <3>1, Zenon
  <2> HIDE DEF Reach, loop
  <2> QED
    BY <1>2, <2>1, <2>2, Zenon
<1>5. loop = [B \in S |-> IF B \in Done THEN B ELSE loop[move[B]]]
  <2>1. loop = [B \in S |-> loop[B]]
    <3> DEFINE Chosen(B) == CHOOSE C : C \in Reach(B)
    <3>1. loop = [B \in S |-> Chosen(B)]
      BY Zenon
    <3> HIDE DEF Chosen, loop
    <3> QED
      BY <3>1
  <2> HIDE DEF loop, Reach
  <2> QED
    BY <1>3, <1>4, <2>1
<1> QED
  BY <1>5, Zenon

(* The loop ends if in each round a first number falls, or stays as it is  *)
(* while a second one falls.                                               *)
LEMMA LoopEnds ==
  ASSUME NEW S, NEW Done \in SUBSET S, NEW move \in [S -> S],
         NEW first \in [S -> Nat], NEW second \in [S -> Nat],
         \A B \in S \ Done : \/ first[move[B]] < first[B]
                             \/ first[move[B]] = first[B] /\ second[move[B]] < second[B],
         NEW f, f = [B \in S |-> IF B \in Done THEN B ELSE f[move[B]]]
  PROVE  \A B \in S : f[B] \in Done
<1> DEFINE Bad == {B \in S : f[B] \notin Done}
<1> SUFFICES ASSUME Bad # {} PROVE FALSE
  OBVIOUS
<1> DEFINE Firsts == {first[B] : B \in Bad}
<1>1. PICK m \in Firsts : \A k \in Firsts : m <= k
  <2>1. PICK B : B \in Bad
    OBVIOUS
  <2>2. first[B] \in Firsts
    BY <2>1
  <2>3. Firsts \in SUBSET Nat /\ Firsts # {}
    BY <2>2, ZenonT(40)
  <2> HIDE DEF Firsts
  <2> QED
    BY <2>3, LeastNumber
<1> DEFINE Lowest == {B \in Bad : first[B] = m}
           Seconds == {second[B] : B \in Lowest}
<1>2. PICK n \in Seconds : \A k \in Seconds : n <= k
  <2>1. Lowest # {}
    BY <1>1
  <2>2. Seconds \in SUBSET Nat /\ Seconds # {}
    BY <2>1
  <2> HIDE DEF Seconds
  <2> QED
    BY <2>2, LeastNumber
<1>3. PICK B \in Lowest : second[B] = n
  BY <1>2
<1>4. B \in S /\ f[B] \notin Done /\ first[B] = m
  OBVIOUS
<1>5. B \notin Done
  BY <1>4
<1>6. f[B] = f[move[B]] /\ move[B] \in S
  BY <1>4, <1>5
<1>7. move[B] \in Bad
  BY <1>4, <1>6
<1>8. first[B] <= first[move[B]]
  BY <1>1, <1>4, <1>7
<1>9. first[move[B]] = first[B] /\ second[move[B]] < second[B]
  BY <1>4, <1>5, <1>6, <1>8
<1>10. second[B] <= second[move[B]]
  BY <1>2, <1>3, <1>4, <1>7, <1>9
<1> QED
  BY <1>4, <1>6, <1>9, <1>10

-----------------------------------------------------------------------------
(* What analyze computes.                                                  *)

(* A group has at most all shards.                                         *)
LEMMA Counting ==
  /\ \A T \in SUBSET ShardIds : IsFiniteSet(T) /\ Cardinality(T) \in 0 .. NShards
  /\ \A A, g : counts(A, g) \in 0 .. NShards
<1>1. IsFiniteSet(ShardIds) /\ Cardinality(ShardIds) = NShards
  BY NShardsAssumption, FS_Interval DEF ShardIds
<1>2. ASSUME NEW T \in SUBSET ShardIds PROVE IsFiniteSet(T) /\ Cardinality(T) \in 0 .. NShards
  <2>1. IsFiniteSet(T) /\ Cardinality(T) <= NShards
    BY <1>1, FS_Subset
  <2>2. Cardinality(T) \in Nat
    BY <2>1, FS_CardinalityType
  <2> QED
    BY <2>1, <2>2, NShardsAssumption
<1>3. ASSUME NEW A, NEW g PROVE counts(A, g) \in 0 .. NShards
  <2>1. {s \in ShardIds : A[s] = g} \in SUBSET ShardIds
    BY Zenon
  <2> QED
    BY <1>2, <2>1, Zenon DEF counts
<1> QED
  BY <1>2, <1>3

(* Most and Least are groups with the most and the fewest shards.          *)
LEMMA Extremes ==
  ASSUME NEW A, NEW G \in SUBSET Nat, G # {}
  PROVE  /\ Most(A, G) \in G /\ \A h \in G : counts(A, h) <= counts(A, Most(A, G))
         /\ Least(A, G) \in G /\ \A h \in G : counts(A, Least(A, G)) <= counts(A, h)
<1> DEFINE Top == {g \in G : \A h \in G : counts(A, h) <= counts(A, g)}
           Bottom == {g \in G : \A h \in G : counts(A, g) <= counts(A, h)}
<1>1. \A g : counts(A, g) \in 0 .. NShards /\ NShards - counts(A, g) \in Nat /\ counts(A, g) \in Nat
  BY Counting, NShardsAssumption
<1>2. Top # {}
  <2> DEFINE Rests == {NShards - counts(A, g) : g \in G}
  <2>1. PICK x : x \in G
    OBVIOUS
  <2>2. NShards - counts(A, x) \in Rests
    BY <2>1
  <2>3. Rests \in SUBSET Nat /\ Rests # {}
    BY <1>1, <2>2
  <2>4. PICK m \in Rests : \A k \in Rests : m <= k
    <3> HIDE DEF Rests
    <3> QED
      BY <2>3, LeastNumber
  <2>5. PICK g \in G : m = NShards - counts(A, g)
    OBVIOUS
  <2>6. ASSUME NEW h \in G PROVE counts(A, h) <= counts(A, g)
    <3>1. m <= NShards - counts(A, h)
      BY <2>4
    <3> QED
      BY <1>1, <2>5, <3>1, NShardsAssumption
  <2> QED
    BY <2>6
<1>3. Bottom # {}
  <2> DEFINE Loads == {counts(A, g) : g \in G}
  <2>1. PICK x : x \in G
    OBVIOUS
  <2>2. counts(A, x) \in Loads
    BY <2>1
  <2>3. Loads \in SUBSET Nat /\ Loads # {}
    BY <1>1, <2>2
  <2>4. PICK m \in Loads : \A k \in Loads : m <= k
    <3> HIDE DEF Loads
    <3> QED
      BY <2>3, LeastNumber
  <2>5. PICK g \in G : m = counts(A, g)
    OBVIOUS
  <2>6. \A h \in G : counts(A, g) <= counts(A, h)
    BY <2>4, <2>5
  <2> QED
    BY <2>6
<1>4. Top \in SUBSET Nat /\ Bottom \in SUBSET Nat
  BY Zenon
<1>5. Most(A, G) = Min(Top) /\ Least(A, G) = Min(Bottom)
  BY Zenon DEF Most, Least
<1>6. Min(Top) \in Top /\ Min(Bottom) \in Bottom
  <2> HIDE DEF Top, Bottom
  <2> QED
    BY <1>2, <1>3, <1>4, MinIsLeast
<1> QED
  BY <1>5, <1>6, Zenon

(* A shard that changes its group is one less for the one and one more for *)
(* the other.                                                              *)
LEMMA Transfer ==
  ASSUME NEW A, NEW B, NEW s \in ShardIds, A[s] # B[s],
         \A t \in ShardIds : t # s => B[t] = A[t]
  PROVE  /\ counts(B, A[s]) = counts(A, A[s]) - 1
         /\ counts(B, B[s]) = counts(A, B[s]) + 1
         /\ \A g : g # A[s] /\ g # B[s] => counts(B, g) = counts(A, g)
<1> DEFINE Of(C, g) == {t \in ShardIds : C[t] = g}
<1>1. \A C, g : IsFiniteSet(Of(C, g)) /\ counts(C, g) = Cardinality(Of(C, g))
  <2>1. \A C, g : Of(C, g) \in SUBSET ShardIds
    BY Zenon
  <2> QED
    BY <2>1, Counting, Zenon DEF counts
<1>2. Of(B, A[s]) = Of(A, A[s]) \ {s} /\ s \in Of(A, A[s])
  OBVIOUS
<1>3. Of(B, B[s]) = Of(A, B[s]) \cup {s} /\ s \notin Of(A, B[s])
  OBVIOUS
<1>4. \A g : g # A[s] /\ g # B[s] => Of(B, g) = Of(A, g)
  OBVIOUS
<1> HIDE DEF Of
<1>5. counts(B, A[s]) = counts(A, A[s]) - 1
  <2>1. Cardinality(Of(A, A[s]) \ {s}) = Cardinality(Of(A, A[s])) - 1
    BY <1>1, <1>2, FS_RemoveElement, Zenon
  <2> QED
    BY <1>1, <1>2, <2>1
<1>6. counts(B, B[s]) = counts(A, B[s]) + 1
  <2>1. Cardinality(Of(A, B[s]) \cup {s}) = Cardinality(Of(A, B[s])) + 1
    BY <1>1, <1>3, FS_AddElement, Zenon
  <2> QED
    BY <1>1, <1>3, <2>1
<1>7. \A g : g # A[s] /\ g # B[s] => counts(B, g) = counts(A, g)
  BY <1>1, <1>4
<1> QED
  BY <1>5, <1>6, <1>7

-----------------------------------------------------------------------------
(* The loop that moves shards.                                             *)

Assignments(G) == [ShardIds -> G]
Done(G) == {B \in Assignments(G) : counts(B, Most(B, G)) < counts(B, Least(B, G)) + 2}

\* The shards of the groups with the most shards.
TopShards(B, G) == {s \in ShardIds : counts(B, B[s]) = counts(B, Most(B, G))}

(* Each round moves a shard away from a group with the most shards, so the *)
(* number of shards of such a group falls, or that of the shards in them.  *)
LEMMA Round ==
  ASSUME NEW G \in SUBSET Nat, G # {}, NEW A \in Assignments(G) \ Done(G)
  PROVE  /\ MoveOne(A, G) \in Assignments(G)
         /\ LET B == MoveOne(A, G) IN
            \/ counts(B, Most(B, G)) < counts(A, Most(A, G))
            \/ /\ counts(B, Most(B, G)) = counts(A, Most(A, G))
               /\ Cardinality(TopShards(B, G)) < Cardinality(TopShards(A, G))
<1> DEFINE m == Most(A, G)
           l == Least(A, G)
           B == MoveOne(A, G)
           Of == {t \in ShardIds : A[t] = m}
<1>1. /\ m \in G /\ l \in G
      /\ \A h \in G : counts(A, h) <= counts(A, m)
  BY Extremes
<1>2. \A C, g : counts(C, g) \in Nat
  BY Counting, NShardsAssumption
<1>3. counts(A, m) >= counts(A, l) + 2 /\ m # l
  <2>1. ~(counts(A, m) < counts(A, l) + 2)
    BY DEF Done
  <2> HIDE DEF m, l
  <2> QED
    BY <1>2, <2>1
<1>4. Of # {}
  <2>1. CASE Of = {}
    <3>1. counts(A, m) = 0
      BY <2>1, FS_EmptySet DEF counts
    <3> HIDE DEF m, l
    <3> QED
      BY <1>2, <1>3, <3>1
  <2> QED
    BY <2>1
<1>5. PICK s \in ShardIds : A[s] = m /\ B = [A EXCEPT ![s] = l]
  <2>1. Of \in SUBSET Nat
    BY NShardsAssumption DEF ShardIds
  <2>2. Min(Of) \in Of
    <3> HIDE DEF Of
    <3> QED
      BY <1>4, <2>1, MinIsLeast
  <2>3. B = [A EXCEPT ![Min(Of)] = l]
    BY Zenon DEF MoveOne
  <2> QED
    BY <2>2, <2>3
<1> HIDE DEF m, l, B, Of
<1>6. B \in Assignments(G) /\ B[s] = l /\ \A t \in ShardIds : t # s => B[t] = A[t]
  BY <1>1, <1>5 DEF Assignments
<1>7. /\ counts(B, m) = counts(A, m) - 1
      /\ counts(B, l) = counts(A, l) + 1
      /\ \A g : g # m /\ g # l => counts(B, g) = counts(A, g)
  <2>1. A[s] # B[s] /\ \A t \in ShardIds : t # s => B[t] = A[t]
    BY <1>3, <1>5, <1>6
  <2>2. /\ counts(B, A[s]) = counts(A, A[s]) - 1
        /\ counts(B, B[s]) = counts(A, B[s]) + 1
        /\ \A g : g # A[s] /\ g # B[s] => counts(B, g) = counts(A, g)
    BY <2>1, Transfer, ZenonT(40)
  <2> QED
    BY <1>5, <1>6, <2>2, Zenon
<1>8. \A g \in G : /\ counts(B, g) <= counts(A, m)
                   /\ counts(B, g) = counts(A, m) => g # m /\ g # l /\ counts(A, g) = counts(A, m)
  BY <1>1, <1>2, <1>3, <1>7
<1>9. Most(B, G) \in G
  BY Extremes
<1>10. CASE counts(B, Most(B, G)) = counts(A, m)
  <2>1. \A t \in TopShards(B, G) : t \in TopShards(A, G)
    <3> TAKE t \in TopShards(B, G)
    <3>1. t \in ShardIds /\ counts(B, B[t]) = counts(A, m)
      BY <1>10 DEF TopShards
    <3>2. B[t] \in G
      BY <1>6, <3>1 DEF Assignments
    <3>3. B[t] # l /\ counts(A, B[t]) = counts(A, m)
      BY <1>8, <3>1, <3>2, Zenon
    <3>4. B[t] = A[t]
      BY <1>6, <3>1, <3>3
    <3> QED
      BY <3>1, <3>3, <3>4 DEF TopShards, m
  <2>2. s \in TopShards(A, G)
    BY <1>5 DEF TopShards, m
  <2>3. s \notin TopShards(B, G)
    <3>1. counts(B, B[s]) # counts(A, m)
      BY <1>1, <1>6, <1>8
    <3> QED
      BY <1>10, <3>1 DEF TopShards
  <2>4. TopShards(A, G) \in SUBSET ShardIds /\ TopShards(B, G) \in SUBSET TopShards(A, G)
    BY <2>1 DEF TopShards
  <2>5. /\ IsFiniteSet(TopShards(A, G)) /\ Cardinality(TopShards(A, G)) \in Nat
        /\ IsFiniteSet(TopShards(B, G)) /\ Cardinality(TopShards(B, G)) \in Nat
    BY <2>4, Counting, NShardsAssumption
  <2>6. /\ Cardinality(TopShards(B, G)) <= Cardinality(TopShards(A, G))
        /\ Cardinality(TopShards(B, G)) # Cardinality(TopShards(A, G))
    BY <2>2, <2>3, <2>4, <2>5, FS_Subset
  <2> QED
    BY <1>6, <1>10, <2>5, <2>6 DEF B, m
<1>11. CASE counts(B, Most(B, G)) # counts(A, m)
  <2>1. counts(B, Most(B, G)) < counts(A, m)
    <3>1. counts(B, Most(B, G)) <= counts(A, m)
      BY <1>8, <1>9, Zenon
    <3>2. counts(B, Most(B, G)) \in Nat /\ counts(A, m) \in Nat
      BY <1>2, Zenon
    <3> QED
      BY <1>11, <3>1, <3>2
  <2> QED
    BY <1>6, <2>1 DEF B, m
<1> QED
  BY <1>10, <1>11

(* The loop ends, for any numbers of shards and groups, and then no group  *)
(* has two shards more than another.                                       *)
LEMMA EvenOutBalances ==
  ASSUME NEW G \in SUBSET Nat, G # {}, NEW A \in Assignments(G)
  PROVE  EvenOut(A, G) \in Balanced(G)
<1> DEFINE Even(f) == [B \in [ShardIds -> G] |->
                        IF counts(B, Most(B, G)) < counts(B, Least(B, G)) + 2
                          THEN B ELSE f[MoveOne(B, G)]]
           S == Assignments(G)
           D == Done(G)
           move == [B \in S |-> IF B \in D THEN B ELSE MoveOne(B, G)]
           first == [B \in S |-> counts(B, Most(B, G))]
           second == [B \in S |-> Cardinality(TopShards(B, G))]
           Loop(f) == [B \in S |-> IF B \in D THEN B ELSE f[move[B]]]
<1>1. EvenOut(A, G) = (CHOOSE f : f = Even(f))[A]
  BY DEF EvenOut
<1>2. \A f : Even(f) = Loop(f)
  <2> TAKE f
  <2>1. /\ S = [ShardIds -> G]
        /\ \A B \in S : B \in D <=> counts(B, Most(B, G)) < counts(B, Least(B, G)) + 2
    BY Zenon DEF Assignments, Done
  <2>2. \A B \in S : B \notin D => move[B] = MoveOne(B, G)
    BY Zenon
  <2> HIDE DEF S, D, move
  <2> QED
    BY <2>1, <2>2, Zenon
<1>3. D \in SUBSET S /\ move \in [S -> S]
  <2>1. D \in SUBSET S
    BY DEF Done
  <2>2. \A B \in S : (IF B \in D THEN B ELSE MoveOne(B, G)) \in S
    BY Round
  <2> QED
    BY <2>1, <2>2
<1>4. first \in [S -> Nat] /\ second \in [S -> Nat]
  <2>1. \A B : counts(B, Most(B, G)) \in Nat
    BY Counting, NShardsAssumption
  <2>2. \A B : Cardinality(TopShards(B, G)) \in Nat
    <3>1. \A B : TopShards(B, G) \in SUBSET ShardIds
      BY DEF TopShards
    <3> QED
      BY <3>1, Counting, NShardsAssumption
  <2> QED
    BY <2>1, <2>2
<1>5. \A B \in S \ D : \/ first[move[B]] < first[B]
                       \/ first[move[B]] = first[B] /\ second[move[B]] < second[B]
  <2> TAKE B \in S \ D
  <2>1. move[B] = MoveOne(B, G) /\ move[B] \in S
    BY <1>3
  <2> QED
    BY <2>1, Round
<1> HIDE DEF S, D, move, first, second
<1>6. \E f : f = Loop(f)
  BY <1>3, WhileLoop
<1>7. ASSUME NEW f, f = Loop(f) PROVE f[A] \in D
  BY <1>3, <1>4, <1>5, <1>7, LoopEnds DEF S
<1>8. EvenOut(A, G) \in D
  <2> HIDE DEF Loop, Even
  <2> QED
    BY <1>1, <1>2, <1>6, <1>7, Zenon
<1>9. D \subseteq Balanced(G)
  <2> SUFFICES ASSUME NEW B \in D PROVE B \in Balanced(G)
    OBVIOUS
  <2>1. B \in [ShardIds -> G] /\ counts(B, Most(B, G)) < counts(B, Least(B, G)) + 2
    BY DEF D, Done, Assignments
  <2>2. ASSUME NEW g \in G, NEW h \in G PROVE counts(B, g) <= counts(B, h) + 1
    <3>1. counts(B, g) <= counts(B, Most(B, G)) /\ counts(B, Least(B, G)) <= counts(B, h)
      BY Extremes
    <3>2. \A k : counts(B, k) \in Nat
      BY Counting, NShardsAssumption
    <3> QED
      BY <2>1, <3>1, <3>2
  <2> QED
    BY <2>1, <2>2 DEF Balanced
<1> QED
  BY <1>8, <1>9

-----------------------------------------------------------------------------
(* The loop that gives away the shards without a group.                    *)

(* After the loop every shard has one of the groups.                       *)
LEMMA AssignUnassignedAssigns ==
  ASSUME NEW G \in SUBSET Gids, G # {}, NEW A \in [ShardIds -> Gids \cup {0}]
  PROVE  AssignUnassigned(A, G) \in Assignments(G)
<1> DEFINE T == [ShardIds -> Gids \cup {0}]
           Give(B, s) == IF B[s] \in G THEN B ELSE [B EXCEPT ![s] = Least(B, G)]
           After(f) == [n \in 0 .. NShards |->
                         IF n = 0 THEN A
                         ELSE LET B == f[n - 1]
                                  s == n - 1
                              IN IF B[s] \in G THEN B ELSE [B EXCEPT ![s] = Least(B, G)]]
           step == [n \in 0 .. NShards |-> [B \in T |-> IF n < NShards THEN Give(B, n) ELSE B]]
<1>1. AssignUnassigned(A, G) = (CHOOSE f : f = After(f))[NShards]
  BY DEF AssignUnassigned
<1>2. \A B : Least(B, G) \in G
  <2>1. G \in SUBSET Nat
    BY GidsAssumption
  <2> QED
    BY <2>1, Extremes
<1>3. ASSUME NEW B \in T, NEW s \in ShardIds
      PROVE  /\ Give(B, s) \in T /\ Give(B, s)[s] \in G
             /\ \A t \in ShardIds : t # s => Give(B, s)[t] = B[t]
  BY <1>2
<1>4. \A n \in 0 .. NShards : n < NShards => n \in ShardIds
  BY NShardsAssumption DEF ShardIds
<1> HIDE DEF Give
<1>5. step \in [0 .. NShards -> [T -> T]]
  BY <1>3, <1>4
<1>6. PICK f : Iterates(f, NShards, T, A, step)
  <2> HIDE DEF step, T
  <2>1. A \in T
    BY DEF T
  <2> QED
    BY <1>5, <2>1, ForLoop, NShardsAssumption, Zenon
<1>7. ASSUME NEW h, \A n \in 0 .. NShards : h[n] = IF n = 0 THEN A ELSE Give(h[n - 1], n - 1)
      PROVE  h[NShards] \in Assignments(G) /\ \A n \in 0 .. NShards : h[n] \in T
  <2> DEFINE P(n) == h[n] \in T /\ \A s \in ShardIds : s < n => h[n][s] \in G
             S == {n \in 0 .. NShards : P(n)}
  <2>1. 0 \in S
    BY <1>7, NShardsAssumption DEF ShardIds
  <2>2. ASSUME NEW n \in S, n < NShards PROVE n + 1 \in S
    <3>1. n \in ShardIds /\ n + 1 \in 0 .. NShards /\ P(n)
      BY <1>4, <2>2, NShardsAssumption
    <3>2. h[n + 1] = Give(h[n], n)
      BY <1>7, <3>1, NShardsAssumption
    <3>3. /\ h[n + 1] \in T /\ h[n + 1][n] \in G
          /\ \A t \in ShardIds : t # n => h[n + 1][t] = h[n][t]
      BY <1>3, <3>1, <3>2
    <3>4. ASSUME NEW s \in ShardIds, s < n + 1 PROVE h[n + 1][s] \in G
      <4>1. s = n \/ s < n
        BY <3>4, NShardsAssumption DEF ShardIds
      <4> QED
        BY <3>1, <3>3, <4>1
    <3> QED
      BY <3>1, <3>3, <3>4
  <2>3. S = 0 .. NShards
    <3>1. S \in SUBSET (0 .. NShards)
      OBVIOUS
    <3> HIDE DEF S
    <3> QED
      BY <2>1, <2>2, <3>1, Induction, NShardsAssumption
  <2>4. \A n \in 0 .. NShards : P(n)
    BY <2>3
  <2>5. h[NShards] \in T /\ \A s \in ShardIds : h[NShards][s] \in G
    BY <2>4, NShardsAssumption DEF ShardIds
  <2> QED
    BY <2>4, <2>5 DEF Assignments
<1>8. ASSUME NEW h, h = After(h)
      PROVE  \A n \in 0 .. NShards : h[n] = IF n = 0 THEN A ELSE Give(h[n - 1], n - 1)
  BY <1>8, Zenon DEF Give
<1>9. f = After(f)
  <2>1. \A n \in 0 .. NShards : n # 0 => step[n - 1][f[n - 1]] = Give(f[n - 1], n - 1)
    <3> TAKE n \in 0 .. NShards
    <3> HAVE n # 0
    <3>1. n - 1 \in 0 .. NShards /\ n - 1 < NShards
      BY NShardsAssumption
    <3>2. f[n - 1] \in T
      BY <1>6, <3>1, Zenon DEF Iterates
    <3> QED
      BY <3>1, <3>2
  <2>2. f = [n \in 0 .. NShards |-> f[n]]
    BY <1>6 DEF Iterates
  <2>3. \A n \in 0 .. NShards : f[n] = IF n = 0 THEN A ELSE Give(f[n - 1], n - 1)
    <3> HIDE DEF step
    <3> QED
      BY <1>6, <2>1, Zenon DEF Iterates
  <2>4. f = [n \in 0 .. NShards |-> IF n = 0 THEN A ELSE Give(f[n - 1], n - 1)]
    BY <2>2, <2>3, Zenon
  <2> QED
    BY <2>4, Zenon DEF Give
<1>10. ASSUME NEW h, h = After(h) PROVE h[NShards] \in Assignments(G)
  <2>1. \A n \in 0 .. NShards : h[n] = IF n = 0 THEN A ELSE Give(h[n - 1], n - 1)
    <3> HIDE DEF After
    <3> QED
      BY <1>8, <1>10, Zenon
  <2> HIDE DEF After, T
  <2> QED
    BY <1>7, <2>1, Zenon
<1> HIDE DEF After
<1> QED
  BY <1>1, <1>9, <1>10, Zenon

-----------------------------------------------------------------------------
(* Rebalance and the configurations.                                       *)

(* Rebalance returns for any configuration, with all shards assigned and   *)
(* the groups evenly loaded, or with no shard assigned if there are none.  *)
LEMMA RebalanceBalances ==
  ASSUME NEW G \in SUBSET Gids, NEW A \in [ShardIds -> Gids \cup {0}]
  PROVE  /\ Rebalance(A, G) \in [ShardIds -> Gids \cup {0}]
         /\ G # {} => Rebalance(A, G) \in Balanced(G)
         /\ G = {} => \A s \in ShardIds : Rebalance(A, G)[s] = 0
<1>1. CASE G = {}
  BY <1>1 DEF Rebalance
<1>2. CASE G # {}
  <2>1. AssignUnassigned(A, G) \in Assignments(G)
    BY <1>2, AssignUnassignedAssigns
  <2>2. G \in SUBSET Nat
    BY GidsAssumption
  <2>3. Rebalance(A, G) \in Balanced(G)
    BY <1>2, <2>1, <2>2, EvenOutBalances, Zenon DEF Rebalance
  <2>4. Balanced(G) \subseteq [ShardIds -> Gids \cup {0}]
    BY DEF Balanced
  <2> QED
    BY <1>2, <2>3, <2>4
<1> QED
  BY <1>1, <1>2

(* A step that rebalances, or that fails and leaves the shards alone.      *)
LEMMA StepInv ==
  ASSUME TypeOK, CheckConfig, Groups' \subseteq Gids,
         \/ /\ Num < MaxNum /\ Num' = Num + 1
            /\ Shards' = Rebalance(Shards, Groups') /\ ok' = TRUE
         \/ UNCHANGED <<Num, Shards>> /\ ok' = FALSE
  PROVE  TypeOK' /\ CheckConfig'
<1>1. CASE Num < MaxNum /\ Num' = Num + 1 /\ Shards' = Rebalance(Shards, Groups') /\ ok' = TRUE
  <2>1. Shards \in [ShardIds -> Gids \cup {0}] /\ Num' \in 0 .. MaxNum
    BY <1>1, MaxNumAssumption DEF TypeOK
  <2>2. /\ Shards' \in [ShardIds -> Gids \cup {0}]
        /\ Groups' # {} => Shards' \in Balanced(Groups')
        /\ Groups' = {} => \A s \in ShardIds : Shards'[s] = 0
    BY <1>1, <2>1, RebalanceBalances
  <2>3. TypeOK'
    BY <1>1, <2>1, <2>2 DEF TypeOK
  <2>4. CheckConfig'
    BY <2>2 DEF CheckConfig, Balanced, counts
  <2> QED
    BY <2>3, <2>4
<1>2. CASE UNCHANGED <<Num, Shards>> /\ ok' = FALSE
  BY <1>2, Zenon DEF TypeOK, CheckConfig
<1> QED
  BY <1>1, <1>2, Zenon

(* Every step preserves the invariant.                                     *)
LEMMA NextInv == TypeOK /\ CheckConfig /\ [Next]_vars => TypeOK' /\ CheckConfig'
<1> SUFFICES ASSUME TypeOK, CheckConfig, [Next]_vars PROVE TypeOK' /\ CheckConfig'
  OBVIOUS
<1>0. Groups \subseteq Gids
  BY DEF TypeOK
<1>1. ASSUME NEW new \in SUBSET Gids, JoinBalance(new) PROVE TypeOK' /\ CheckConfig'
  BY <1>0, <1>1, StepInv, Zenon DEF JoinBalance
<1>2. ASSUME NEW gids, LeaveBalance(gids) PROVE TypeOK' /\ CheckConfig'
  BY <1>0, <1>2, StepInv, Zenon DEF LeaveBalance
<1>3. CASE UNCHANGED vars
  BY <1>3 DEF vars, TypeOK, CheckConfig, Balanced, counts
<1> QED
  BY <1>1, <1>2, <1>3 DEF Next

(* The first configuration has no groups and no shard assigned.            *)
LEMMA InitInv == Init => TypeOK /\ CheckConfig
BY MaxNumAssumption DEF Init, TypeOK, CheckConfig

(* Every reachable configuration assigns shards to known groups.           *)
THEOREM TypeCorrect == Spec => []TypeOK
<1>1. TypeOK /\ CheckConfig => TypeOK
  OBVIOUS
<1> QED
  BY <1>1, InitInv, NextInv, PTL DEF Spec

(* After a JoinBalance or LeaveBalance that returned true the groups are   *)
(* evenly loaded: Rebalance's second loop ends, however many shards and    *)
(* groups there are, and only when CheckConfig is satisfied.               *)
THEOREM ConfigsAreBalanced == Spec => []CheckConfig
<1>1. TypeOK /\ CheckConfig => CheckConfig
  OBVIOUS
<1> QED
  BY <1>1, InitInv, NextInv, PTL DEF Spec
=============================================================================

------------------------- MODULE TransferIngestProofs -------------------------
(***************************************************************************)
(* The ingest budget for any number of sessions, sizes and limits: what    *)
(* the sessions have reserved adds up to the counter that they race for,   *)
(* the counter stays within the limit, and each message that is still in   *)
(* memory has its own reservation.                                         *)
(*                                                                         *)
(* Sums over a sequence and over the sessions are folds of the community   *)
(* modules.  That a fold has a value is proved here by the least           *)
(* counterexample over the cardinality of the folded set, because every    *)
(* non-empty set of natural numbers has a least element (WFMin).           *)
(***************************************************************************)
EXTENDS TransferIngest, FiniteSetTheorems, WellFoundedInduction, TLAPS

-----------------------------------------------------------------------------
(* Induction, as first-order facts.                                        *)

\* Every non-empty set of natural numbers has a least element.
LEMMA Least ==
    ASSUME NEW T, T \subseteq Nat, T # {}
    PROVE  \E n \in T : \A k \in T : n <= k
  <1>1. IsWellFoundedOn(OpToRel(<, Nat), Nat) BY NatLessThanWellFounded
  <1>2. PICK n \in T : \A k \in T : ~(<<k, n>> \in OpToRel(<, Nat)) BY <1>1, WFMin
  <1>3. \A k \in T : ~(k < n) BY <1>2 DEF OpToRel
  <1> QED BY <1>3

\* A set of natural numbers with 0 that is closed under successor is all of them.
LEMMA SetInduction ==
    ASSUME NEW P, 0 \in P, \A n \in Nat : n \in P => n + 1 \in P
    PROVE  \A n \in Nat : n \in P
  <1> SUFFICES ASSUME NEW m \in Nat, m \notin P PROVE FALSE OBVIOUS
  <1> DEFINE T == {n \in Nat : n \notin P}
  <1>1. PICK n \in T : \A k \in T : n <= k BY Least
  <1>2. n - 1 \in Nat /\ n - 1 < n BY <1>1
  <1>3. n - 1 \in P BY <1>1, <1>2
  <1>4. (n - 1) + 1 \in P BY <1>2, <1>3
  <1>5. (n - 1) + 1 = n BY <1>1
  <1> QED BY <1>1, <1>4, <1>5

-----------------------------------------------------------------------------
(* Folding addition over a finite set has a value: f gives the summands and *)
(* c the element that is taken out of a set first.                          *)

IsChoice(c, S) == \A s \in SUBSET S : s # {} => c[s] \in s

IsFold(g, f, c, D) ==
    g = [s \in D |-> IF s = {} THEN 0 ELSE f[c[s]] + g[s \ {c[s]}]]

SmallSubsets(S, n) == {s \in SUBSET S : Cardinality(s) <= n}

\* A subset of a finite set has a cardinality, 0 only for the empty set.
LEMMA Counted ==
    ASSUME NEW S, IsFiniteSet(S)
    PROVE  \A s \in SUBSET S :
             IsFiniteSet(s) /\ Cardinality(s) \in Nat /\ (Cardinality(s) = 0 => s = {})
  <1> SUFFICES ASSUME NEW s \in SUBSET S
               PROVE IsFiniteSet(s) /\ Cardinality(s) \in Nat /\ (Cardinality(s) = 0 => s = {})
    OBVIOUS
  <1>1. IsFiniteSet(s) BY FS_Subset
  <1> QED BY <1>1, FS_CardinalityType, FS_EmptySet

\* A fold over the subsets of up to n elements extends to those of up to n + 1.
LEMMA FoldExtends ==
    ASSUME NEW S, IsFiniteSet(S), NEW c, IsChoice(c, S),
           NEW f \in [S -> Nat], NEW n \in Nat,
           NEW g \in [SmallSubsets(S, n) -> Nat], IsFold(g, f, c, SmallSubsets(S, n))
    PROVE  \E h \in [SmallSubsets(S, n + 1) -> Nat] : IsFold(h, f, c, SmallSubsets(S, n + 1))
  <1>0. \A s \in SUBSET S : IsFiniteSet(s) /\ Cardinality(s) \in Nat BY Counted
  <1> DEFINE D == SmallSubsets(S, n)
             E == SmallSubsets(S, n + 1)
             h == [s \in E |-> IF s = {} THEN 0 ELSE f[c[s]] + g[s \ {c[s]}]]
  <1> HIDE DEF h
  <1>1. ASSUME NEW s \in E, s # {} PROVE s \ {c[s]} \in D /\ c[s] \in S
    <2>1. s \in SUBSET S /\ Cardinality(s) <= n + 1 BY <1>1 DEF SmallSubsets
    <2>3. c[s] \in s BY <1>1, <2>1 DEF IsChoice
    <2>4. IsFiniteSet(s) /\ Cardinality(s) \in Nat BY <2>1, <1>0
    <2>2. Cardinality(s \ {c[s]}) = Cardinality(s) - 1 BY <2>3, <2>4, FS_RemoveElement
    <2> QED BY <2>1, <2>2, <2>3, <2>4 DEF SmallSubsets
  <1> HIDE DEF D, E
  <1>2. ASSUME NEW s \in E, s # {} PROVE f[c[s]] + g[s \ {c[s]}] \in Nat
    <2>1. s \ {c[s]} \in D /\ c[s] \in S BY <1>1, <1>2
    <2>2. g \in [D -> Nat] BY DEF D
    <2> QED BY <2>1, <2>2
  <1>3. h \in [E -> Nat] BY <1>2 DEF h
  <1>4. D \subseteq E
    <2> SUFFICES ASSUME NEW s \in D PROVE s \in E OBVIOUS
    <2>1. s \in SUBSET S /\ Cardinality(s) <= n BY DEF D, SmallSubsets
    <2>2. Cardinality(s) \in Nat BY <2>1, <1>0
    <2> QED BY <2>1, <2>2 DEF E, SmallSubsets
  <1>5. \A s \in D : h[s] = g[s]
    <2> SUFFICES ASSUME NEW s \in D PROVE h[s] = g[s] OBVIOUS
    <2>1. g[s] = IF s = {} THEN 0 ELSE f[c[s]] + g[s \ {c[s]}] BY DEF IsFold, D
    <2> QED BY <1>4, <2>1 DEF h
  <1>6. \A s \in E : h[s] = IF s = {} THEN 0 ELSE f[c[s]] + h[s \ {c[s]}]
    BY <1>1, <1>5 DEF h
  <1>7. h = [s \in E |-> h[s]] BY <1>3
  <1>8. h = [s \in E |-> IF s = {} THEN 0 ELSE f[c[s]] + h[s \ {c[s]}]] BY <1>6, <1>7
  <1> QED BY <1>3, <1>8 DEF IsFold, E

\* The fold exists over all subsets of a finite set.
LEMMA FoldExists ==
    ASSUME NEW S, IsFiniteSet(S), NEW c, IsChoice(c, S),
           NEW f \in [S -> Nat]
    PROVE  \E g \in [SUBSET S -> Nat] : IsFold(g, f, c, SUBSET S)
  <1>0. \A s \in SUBSET S : Cardinality(s) \in Nat /\ (Cardinality(s) = 0 => s = {}) BY Counted
  <1> DEFINE P == {n \in Nat : \E g \in [SmallSubsets(S, n) -> Nat] :
                                  IsFold(g, f, c, SmallSubsets(S, n))}
  <1>1. 0 \in P
    <2> DEFINE g == [s \in SmallSubsets(S, 0) |-> 0]
    <2>1. \A s \in SmallSubsets(S, 0) : s = {}
      <3> SUFFICES ASSUME NEW s \in SUBSET S, Cardinality(s) <= 0 PROVE s = {}
        BY DEF SmallSubsets
      <3> QED BY <1>0
    <2>2. g = [s \in SmallSubsets(S, 0) |-> IF s = {} THEN 0 ELSE f[c[s]] + g[s \ {c[s]}]]
      BY <2>1
    <2>3. g \in [SmallSubsets(S, 0) -> Nat] OBVIOUS
    <2> QED BY <2>2, <2>3 DEF IsFold
  <1>2. \A n \in Nat : n \in P => n + 1 \in P BY FoldExtends
  <1>3. \A n \in Nat : n \in P BY <1>1, <1>2, SetInduction
  <1>4. Cardinality(S) \in Nat BY FS_CardinalityType
  <1>5. SmallSubsets(S, Cardinality(S)) = SUBSET S BY FS_Subset DEF SmallSubsets
  <1>6. Cardinality(S) \in P BY <1>3, <1>4
  <1>7. PICK g \in [SmallSubsets(S, Cardinality(S)) -> Nat] :
            IsFold(g, f, c, SmallSubsets(S, Cardinality(S)))
    BY <1>6
  <1> QED BY <1>5, <1>7

(* A family of subsets that holds s whenever it holds s without c's choice. *)
IsClosed(P, c, S) == \A s \in SUBSET S : s # {} /\ s \ {c[s]} \in P => s \in P

\* Induction over the subsets of a finite set, along the choices of c.
LEMMA SubsetInduction ==
    ASSUME NEW S, IsFiniteSet(S), NEW c, IsChoice(c, S),
           NEW P, {} \in P, IsClosed(P, c, S)
    PROVE  \A s \in SUBSET S : s \in P
  <1>0. \A s \in SUBSET S : IsFiniteSet(s) /\ Cardinality(s) \in Nat BY Counted
  <1> SUFFICES ASSUME NEW bad \in SUBSET S, bad \notin P PROVE FALSE OBVIOUS
  <1> DEFINE T == {n \in Nat : \E s \in SUBSET S : s \notin P /\ Cardinality(s) = n}
  <1>1. Cardinality(bad) \in T BY <1>0
  <1>2. PICK n \in T : \A k \in T : n <= k BY <1>1, Least
  <1>3. PICK s \in SUBSET S : s \notin P /\ Cardinality(s) = n BY <1>2
  <1>4. s # {} /\ c[s] \in s BY <1>3 DEF IsChoice
  <1>5. Cardinality(s \ {c[s]}) = n - 1 BY <1>0, <1>3, <1>4, FS_RemoveElement
  <1>6. s \ {c[s]} \in SUBSET S /\ s \ {c[s]} \notin P BY <1>3, <1>4 DEF IsClosed
  <1>7. n - 1 \in T
    <2>1. n - 1 \in Nat BY <1>0, <1>5, <1>6
    <2> QED BY <2>1, <1>5, <1>6
  <1> QED BY <1>2, <1>7

-----------------------------------------------------------------------------
(* The sum of a sequence, by its prefix sums.                               *)

\* A non-empty set of indices has a greatest one, and Max picks it.
LEMMA MaxOf ==
    ASSUME NEW n \in Nat, NEW s \in SUBSET (1 .. n), s # {}
    PROVE  Max(s) \in s /\ \A y \in s : Max(s) >= y
  <1> DEFINE T == {k \in Nat : \A y \in s : k >= y}
  <1>1. n \in T OBVIOUS
  <1>2. PICK k \in T : \A j \in T : k <= j BY <1>1, Least
  <1>3. k \in s
    <2> SUFFICES ASSUME k \notin s PROVE FALSE OBVIOUS
    <2>1. \A y \in s : y \in Int /\ k >= y /\ y # k BY <1>2
    <2>2. \A y \in s : k - 1 >= y BY <1>2, <2>1
    <2>6. PICK y \in s : TRUE OBVIOUS
    <2>3. y \in Nat /\ y >= 1 OBVIOUS
    <2>4. k - 1 \in Nat BY <1>2, <2>2, <2>3
    <2>5. k - 1 \in T BY <2>2, <2>4
    <2> QED BY <1>2, <2>5
  <1>4. \E x \in s : \A y \in s : x >= y BY <1>2, <1>3
  <1> QED BY <1>4 DEF Max

\* The greatest index of 1 .. k is k.
LEMMA MaxOfPrefix ==
    ASSUME NEW k \in Nat, k > 0
    PROVE  Max(1 .. k) = k
  <1>1. k \in 1 .. k /\ 1 .. k \in SUBSET (1 .. k) /\ 1 .. k # {} OBVIOUS
  <1> DEFINE s == 1 .. k
  <1> HIDE DEF s
  <1>2. Max(s) \in s /\ \A y \in s : Max(s) >= y BY <1>1, MaxOf DEF s
  <1>3. Max(s) \in 1 .. k /\ Max(s) >= k BY <1>1, <1>2 DEF s
  <1> QED BY <1>3 DEF s

\* Total is the value of a fold over the indices.
LEMMA TotalFold ==
    ASSUME NEW q \in Seq(Nat)
    PROVE  \E g \in [SUBSET DOMAIN q -> Nat] :
              /\ \A s \in SUBSET DOMAIN q :
                    g[s] = IF s = {} THEN 0 ELSE g[s \ {Max(s)}] + q[Max(s)]
              /\ Total(q) = g[DOMAIN q]
  <1> DEFINE S == DOMAIN q
             c == [s \in SUBSET S |-> Max(s)]
             Solves(g) == g = [s \in SUBSET S |->
                                 IF s = {} THEN 0 ELSE g[s \ {Max(s)}] + q[Max(s)]]
  <1>1. S = 1 .. Len(q) /\ Len(q) \in Nat /\ q \in [S -> Nat] OBVIOUS
  <1>2. IsFiniteSet(S)
    <2>1. 1 \in Int /\ Len(q) \in Int OBVIOUS
    <2> QED BY <1>1, <2>1, FS_Interval
  <1> HIDE DEF S
  <1>3. \A s \in SUBSET S : s # {} => Max(s) \in s BY <1>1, MaxOf
  <1>4. PICK g \in [SUBSET S -> Nat] : IsFold(g, q, c, SUBSET S)
    <2>1. IsChoice(c, S) BY <1>3 DEF IsChoice
    <2> HIDE DEF c
    <2> QED BY <1>1, <1>2, <2>1, FoldExists
  <1>5. Solves(g)
    <2>1. \A s \in SUBSET S : g[s] = IF s = {} THEN 0 ELSE q[c[s]] + g[s \ {c[s]}]
      BY <1>4 DEF IsFold
    <2>2. \A s \in SUBSET S : g[s] = IF s = {} THEN 0 ELSE g[s \ {Max(s)}] + q[Max(s)]
      <3> SUFFICES ASSUME NEW s \in SUBSET S, s # {}
                   PROVE  g[s] = g[s \ {Max(s)}] + q[Max(s)]
        BY <2>1
      <3>1. Max(s) \in S BY <1>3
      <3>2. g[s \ {Max(s)}] \in Nat /\ q[Max(s)] \in Nat BY <1>1, <3>1
      <3>3. g[s] = q[Max(s)] + g[s \ {Max(s)}] BY <2>1
      <3> QED BY <3>2, <3>3
    <2> QED BY <2>2
  <1> DEFINE i == CHOOSE x : Solves(x)
  <1>6. Solves(i) BY <1>5
  <1>7. Total(q) = i[S] BY DEF Total, FoldLeft, MapThenFoldSet, S
  <1> HIDE DEF i
  <1>8. \A s \in SUBSET S : i[s] = IF s = {} THEN 0 ELSE i[s \ {Max(s)}] + q[Max(s)] BY <1>6
  <1>9. \A s \in SUBSET S : g[s] = IF s = {} THEN 0 ELSE g[s \ {Max(s)}] + q[Max(s)] BY <1>5
  <1>10. \A s \in SUBSET S : i[s] = g[s]
    <2> DEFINE P == {s \in SUBSET S : i[s] = g[s]}
    <2>1. {} \in P BY <1>8, <1>9
    <2>2. IsChoice(c, S) BY <1>3 DEF IsChoice
    <2>3. IsClosed(P, c, S) BY <1>8, <1>9 DEF IsClosed
    <2> HIDE DEF P, c
    <2>4. \A s \in SUBSET S : s \in P BY <1>2, <2>1, <2>2, <2>3, SubsetInduction
    <2> QED BY <2>4 DEF P
  <1>11. Total(q) = g[S] BY <1>7, <1>10
  <1> QED BY <1>9, <1>11 DEF S

(* p[k] is the sum of the first k elements of q.                            *)
IsPrefixSum(p, q) ==
    /\ p[0] = 0 /\ \A k \in 1 .. Len(q) : p[k] = p[k - 1] + q[k]
    /\ \A k \in 0 .. Len(q) : p[k] \in Nat

\* Total is the last prefix sum.
LEMMA TotalPrefix ==
    ASSUME NEW q \in Seq(Nat)
    PROVE  \E p : IsPrefixSum(p, q) /\ Total(q) = p[Len(q)]
  <1>1. PICK g \in [SUBSET DOMAIN q -> Nat] :
              /\ \A s \in SUBSET DOMAIN q :
                    g[s] = IF s = {} THEN 0 ELSE g[s \ {Max(s)}] + q[Max(s)]
              /\ Total(q) = g[DOMAIN q]
    BY TotalFold
  <1> DEFINE p == [k \in 0 .. Len(q) |-> g[1 .. k]]
  <1>2. DOMAIN q = 1 .. Len(q) /\ Len(q) \in Nat OBVIOUS
  <1>3. \A k \in 0 .. Len(q) : 1 .. k \in SUBSET DOMAIN q BY <1>2
  <1>4. \A k \in 0 .. Len(q) : p[k] \in Nat BY <1>3
  <1>5. p[0] = 0
    <2>1. 1 .. 0 = {} /\ 0 \in 0 .. Len(q) /\ {} \in SUBSET DOMAIN q BY <1>2
    <2>2. g[{}] = 0 BY <1>1, <2>1
    <2> QED BY <2>1, <2>2
  <1>6. ASSUME NEW k \in 1 .. Len(q) PROVE p[k] = p[k - 1] + q[k]
    <2>1. k \in Nat /\ k > 0 /\ k \in 1 .. k /\ k \in 0 .. Len(q) /\ k - 1 \in 0 .. Len(q)
      BY <1>2
    <2>2. Max(1 .. k) = k BY <2>1, MaxOfPrefix
    <2>3. (1 .. k) \ {k} = 1 .. (k - 1) BY <2>1
    <2>4. g[1 .. k] = g[(1 .. k) \ {Max(1 .. k)}] + q[Max(1 .. k)]
      BY <1>1, <1>3, <2>1
    <2> QED BY <2>1, <2>2, <2>3, <2>4
  <1>7. Total(q) = p[Len(q)] BY <1>1, <1>2
  <1> HIDE DEF p
  <1> QED BY <1>4, <1>5, <1>6, <1>7 DEF IsPrefixSum

(* r grows from d on as p does from 0 on.                                   *)
InStep(p, r, n, d) ==
    /\ \A k \in 1 .. n : p[k] - p[k - 1] = r[k + d] - r[k + d - 1]
    /\ \A k \in 0 .. n : p[k] \in Nat /\ r[k + d] \in Nat

\* Then they keep the distance they start with.
LEMMA PrefixSumsAgree ==
    ASSUME NEW p, NEW r, NEW n \in Nat, NEW d \in Nat, NEW a \in Nat,
           r[d] = p[0] + a, InStep(p, r, n, d)
    PROVE  r[n + d] = p[n] + a
  <1> DEFINE P == {k \in Nat : k <= n => r[k + d] = p[k] + a}
  <1>1. 0 \in P OBVIOUS
  <1>2. ASSUME NEW k \in Nat, k \in P PROVE k + 1 \in P
    <2> SUFFICES ASSUME k + 1 <= n PROVE r[(k + 1) + d] = p[k + 1] + a OBVIOUS
    <2>1. r[k + d] = p[k] + a BY <1>2
    <2>2. k + 1 \in 1 .. n /\ (k + 1) - 1 = k /\ (k + 1) + d - 1 = k + d OBVIOUS
    <2>3. p[k + 1] - p[k] = r[(k + 1) + d] - r[k + d] BY <2>2 DEF InStep
    <2>4. k \in 0 .. n /\ k + 1 \in 0 .. n OBVIOUS
    <2>5. p[k + 1] \in Nat /\ p[k] \in Nat /\ r[(k + 1) + d] \in Nat /\ r[k + d] \in Nat
      BY <2>4 DEF InStep
    <2> QED BY <2>1, <2>3, <2>5
  <1> HIDE DEF P
  <1>3. \A k \in Nat : k \in P BY <1>1, <1>2, SetInduction
  <1> QED BY <1>3 DEF P

\* A sum is a natural number.
LEMMA TotalType ==
    ASSUME NEW q \in Seq(Nat)
    PROVE  Total(q) \in Nat
  <1>1. PICK p : IsPrefixSum(p, q) /\ Total(q) = p[Len(q)] BY TotalPrefix
  <1>2. Len(q) \in 0 .. Len(q) OBVIOUS
  <1> QED BY <1>1, <1>2 DEF IsPrefixSum

\* The sum of nothing.
LEMMA TotalEmpty == Total(<<>>) = 0
  <1> DEFINE q == <<>>
  <1>1. q \in Seq(Nat) /\ Len(q) = 0 OBVIOUS
  <1> HIDE DEF q
  <1>2. PICK p : IsPrefixSum(p, q) /\ Total(q) = p[Len(q)] BY <1>1, TotalPrefix
  <1>3. Total(q) = 0 BY <1>1, <1>2 DEF IsPrefixSum
  <1> QED BY <1>3 DEF q

\* What a further reservation adds to a session's sum.
LEMMA TotalAppend ==
    ASSUME NEW q \in Seq(Nat), NEW x \in Nat
    PROVE  Total(Append(q, x)) = Total(q) + x
  <1> DEFINE u == Append(q, x)
             n == Len(q)
  <1>1. /\ u \in Seq(Nat) /\ Len(u) = n + 1 /\ u[n + 1] = x /\ n \in Nat
        /\ \A k \in 1 .. n : u[k] = q[k] /\ q[k] \in Nat
    OBVIOUS
  <1> HIDE DEF u, n
  <1>2. PICK p : IsPrefixSum(p, q) /\ Total(q) = p[n] BY TotalPrefix DEF n
  <1>3. PICK r : IsPrefixSum(r, u) /\ Total(u) = r[n + 1] BY <1>1, TotalPrefix
  <1>4. /\ p[0] = 0 /\ \A k \in 1 .. n : p[k] = p[k - 1] + q[k]
        /\ \A k \in 0 .. n : p[k] \in Nat
    BY <1>2 DEF IsPrefixSum, n
  <1>5. /\ r[0] = 0 /\ \A k \in 1 .. n + 1 : r[k] = r[k - 1] + u[k]
        /\ \A k \in 0 .. n + 1 : r[k] \in Nat
    BY <1>1, <1>3 DEF IsPrefixSum
  <1>6. ASSUME NEW k \in 1 .. n PROVE p[k] - p[k - 1] = r[k + 0] - r[k + 0 - 1]
    <2>1. /\ k \in 0 .. n /\ k - 1 \in 0 .. n /\ k \in 1 .. n + 1 /\ k \in 0 .. n + 1
          /\ k - 1 \in 0 .. n + 1 /\ k + 0 = k
      BY <1>1
    <2>2. p[k] = p[k - 1] + q[k] /\ r[k] = r[k - 1] + q[k] BY <1>1, <1>4, <1>5, <2>1
    <2>3. p[k - 1] \in Nat /\ r[k - 1] \in Nat /\ q[k] \in Nat BY <1>1, <1>4, <1>5, <2>1
    <2> QED BY <2>1, <2>2, <2>3
  <1>7. r[n + 0] = p[n] + 0
    <2>1. \A k \in 0 .. n : p[k] \in Nat /\ r[k + 0] \in Nat
      <3> SUFFICES ASSUME NEW k \in 0 .. n PROVE p[k] \in Nat /\ r[k + 0] \in Nat OBVIOUS
      <3>1. k + 0 = k /\ k \in 0 .. n + 1 BY <1>1
      <3> QED BY <1>4, <1>5, <3>1
    <2>2. r[0] = p[0] + 0 BY <1>4, <1>5
    <2>3. InStep(p, r, n, 0) BY <1>6, <2>1 DEF InStep
    <2> QED BY <1>1, <2>2, <2>3, PrefixSumsAgree
  <1>8. p[n] \in Nat /\ n + 0 = n /\ n + 1 \in 1 .. n + 1 /\ (n + 1) - 1 = n BY <1>1, <1>4
  <1>9. r[n + 1] = r[n] + x BY <1>1, <1>5, <1>8
  <1> QED BY <1>2, <1>3, <1>7, <1>8, <1>9 DEF u

\* What a reservation that is dropped takes from it.
LEMMA TotalTail ==
    ASSUME NEW q \in Seq(Nat), q # <<>>
    PROVE  Total(q) = Total(Tail(q)) + Head(q)
  <1> DEFINE u == Tail(q)
             n == Len(u)
  <1>1. /\ u \in Seq(Nat) /\ Len(q) = n + 1 /\ q[1] = Head(q) /\ n \in Nat /\ q[1] \in Nat
        /\ \A k \in 1 .. n : u[k] = q[k + 1] /\ u[k] \in Nat
    OBVIOUS
  <1> HIDE DEF u, n
  <1>2. PICK p : IsPrefixSum(p, u) /\ Total(u) = p[n] BY <1>1, TotalPrefix DEF n
  <1>3. PICK r : IsPrefixSum(r, q) /\ Total(q) = r[n + 1] BY <1>1, TotalPrefix
  <1>4. /\ p[0] = 0 /\ \A k \in 1 .. n : p[k] = p[k - 1] + u[k]
        /\ \A k \in 0 .. n : p[k] \in Nat
    BY <1>2 DEF IsPrefixSum, n
  <1>5. /\ r[0] = 0 /\ \A k \in 1 .. n + 1 : r[k] = r[k - 1] + q[k]
        /\ \A k \in 0 .. n + 1 : r[k] \in Nat
    BY <1>1, <1>3 DEF IsPrefixSum
  <1>6. ASSUME NEW k \in 1 .. n PROVE p[k] - p[k - 1] = r[k + 1] - r[k + 1 - 1]
    <2>1. /\ k \in 0 .. n /\ k - 1 \in 0 .. n /\ k + 1 \in 1 .. n + 1 /\ k \in 0 .. n + 1
          /\ k + 1 - 1 = k /\ (k + 1) - 1 = k
      BY <1>1
    <2>2. p[k] = p[k - 1] + u[k] /\ r[k + 1] = r[k] + u[k] BY <1>1, <1>4, <1>5, <2>1
    <2>3. p[k - 1] \in Nat /\ r[k] \in Nat /\ u[k] \in Nat BY <1>1, <1>4, <1>5, <2>1
    <2> QED BY <2>1, <2>2, <2>3
  <1>7. r[n + 1] = p[n] + q[1]
    <2>1. \A k \in 0 .. n : p[k] \in Nat /\ r[k + 1] \in Nat
      <3> SUFFICES ASSUME NEW k \in 0 .. n PROVE p[k] \in Nat /\ r[k + 1] \in Nat OBVIOUS
      <3>1. k + 1 \in 0 .. n + 1 BY <1>1
      <3> QED BY <1>4, <1>5, <3>1
    <2>2. r[1] = p[0] + q[1]
      <3>1. 1 \in 1 .. n + 1 /\ 1 - 1 = 0 BY <1>1
      <3> QED BY <1>1, <1>4, <1>5, <3>1
    <2>3. InStep(p, r, n, 1) BY <1>6, <2>1 DEF InStep
    <2>4. n \in Nat /\ 1 \in Nat /\ q[1] \in Nat BY <1>1
    <2> DEFINE d == 1
               a == q[1]
    <2>5. InStep(p, r, n, d) /\ d \in Nat /\ r[d] = p[0] + a /\ a \in Nat BY <2>2, <2>3, <2>4
    <2> HIDE DEF d, a
    <2>6. r[n + d] = p[n] + a BY <2>4, <2>5, PrefixSumsAgree
    <2> QED BY <2>6 DEF d, a
  <1> QED BY <1>1, <1>2, <1>3, <1>7 DEF u

-----------------------------------------------------------------------------
(* The sum over the sessions.                                               *)

Some(s) == CHOOSE x \in s : TRUE

(* g[s] is what the sessions in s have reserved.                            *)
IsSum(g, h) ==
    /\ g \in [SUBSET Sessions -> Nat]
    /\ g[{}] = 0
    /\ \A s \in SUBSET Sessions : s # {} => g[s] = Total(h[Some(s)]) + g[s \ {Some(s)}]

\* Some chooses an element of a set of sessions.
LEMMA SomeOf == \A s \in SUBSET Sessions : s # {} => Some(s) \in s
  BY DEF Some

\* Reserved is the value of the fold over the sessions.
LEMMA ReservedFold ==
    ASSUME IsFiniteSet(Sessions), NEW h \in [Sessions -> Seq(Nat)]
    PROVE  \E g : IsSum(g, h) /\ Reserved(h) = g[Sessions]
  <1> DEFINE S == Sessions
             c == [s \in SUBSET S |-> Some(s)]
             f == [x \in S |-> Total(h[x])]
             Solves(g) == g = [s \in SUBSET S |->
                                 IF s = {} THEN 0 ELSE Total(h[Some(s)]) + g[s \ {Some(s)}]]
  <1>1. f \in [S -> Nat] BY TotalType
  <1>2. IsChoice(c, S) BY SomeOf DEF IsChoice
  <1>3. PICK g \in [SUBSET S -> Nat] : IsFold(g, f, c, SUBSET S)
    <2> HIDE DEF c, f
    <2> QED BY <1>1, <1>2, FoldExists
  <1>4. \A s \in SUBSET S :
           g[s] = IF s = {} THEN 0 ELSE Total(h[Some(s)]) + g[s \ {Some(s)}]
    <2>1. \A s \in SUBSET S : g[s] = IF s = {} THEN 0 ELSE f[c[s]] + g[s \ {c[s]}]
      BY <1>3 DEF IsFold
    <2> SUFFICES ASSUME NEW s \in SUBSET S
                 PROVE  g[s] = IF s = {} THEN 0 ELSE Total(h[Some(s)]) + g[s \ {Some(s)}]
      OBVIOUS
    <2>2. CASE s = {} BY <2>1, <2>2
    <2>3. CASE s # {}
      <3>1. Some(s) \in S BY <2>3, SomeOf
      <3>2. c[s] = Some(s) /\ f[c[s]] = Total(h[Some(s)]) BY <3>1
      <3> QED BY <2>1, <2>3, <3>2
    <2> QED BY <2>2, <2>3
  <1>5. Solves(g) BY <1>4
  <1> DEFINE i == CHOOSE x : Solves(x)
  <1>6. Solves(i) BY <1>5
  <1>7. Reserved(h) = i[S] BY DEF Reserved, MapThenSumSet, MapThenFoldSet, Some
  <1> HIDE DEF i
  <1>8. \A s \in SUBSET S :
           i[s] = IF s = {} THEN 0 ELSE Total(h[Some(s)]) + i[s \ {Some(s)}]
    BY <1>6
  <1>9. \A s \in SUBSET S : i[s] = g[s]
    <2> DEFINE P == {s \in SUBSET S : i[s] = g[s]}
    <2>1. {} \in P BY <1>4, <1>8
    <2>2. IsClosed(P, c, S)
      <3> SUFFICES ASSUME NEW s \in SUBSET S, s # {}, s \ {Some(s)} \in P PROVE s \in P
        BY DEF IsClosed
      <3> QED BY <1>4, <1>8
    <2> HIDE DEF P, c
    <2>3. \A s \in SUBSET S : s \in P BY <1>2, <2>1, <2>2, SubsetInduction
    <2> QED BY <2>3 DEF P
  <1>10. Reserved(h) = g[S] BY <1>7, <1>9
  <1>11. IsSum(g, h)
    <2>1. g[{}] = 0 BY <1>4
    <2>2. \A s \in SUBSET S : s # {} => g[s] = Total(h[Some(s)]) + g[s \ {Some(s)}]
      BY <1>4
    <2> QED BY <2>1, <2>2 DEF IsSum
  <1> QED BY <1>10, <1>11

\* Nothing is reserved by sessions that hold nothing.
LEMMA ReservedNothing ==
    ASSUME IsFiniteSet(Sessions), NEW h \in [Sessions -> Seq(Nat)],
           \A x \in Sessions : h[x] = <<>>
    PROVE  Reserved(h) = 0
  <1>1. PICK g : IsSum(g, h) /\ Reserved(h) = g[Sessions] BY ReservedFold
  <1> DEFINE P == {s \in SUBSET Sessions : g[s] = 0}
             c == [s \in SUBSET Sessions |-> Some(s)]
  <1>2. {} \in P BY <1>1 DEF IsSum
  <1>3. IsChoice(c, Sessions) BY SomeOf DEF IsChoice
  <1>4. IsClosed(P, c, Sessions)
    <2> SUFFICES ASSUME NEW s \in SUBSET Sessions, s # {}, s \ {Some(s)} \in P PROVE s \in P
      BY DEF IsClosed
    <2>1. Some(s) \in Sessions BY SomeOf
    <2>2. Total(h[Some(s)]) = 0 BY <2>1, TotalEmpty
    <2>3. g[s] = Total(h[Some(s)]) + g[s \ {Some(s)}] BY <1>1 DEF IsSum
    <2> QED BY <2>2, <2>3
  <1> HIDE DEF P, c
  <1>5. \A s \in SUBSET Sessions : s \in P BY <1>2, <1>3, <1>4, SubsetInduction
  <1> QED BY <1>1, <1>5 DEF P

\* Replacing one session's reservations changes the sum by the difference of theirs.
LEMMA ReservedChange ==
    ASSUME IsFiniteSet(Sessions), NEW h \in [Sessions -> Seq(Nat)], NEW x \in Sessions,
           NEW q \in Seq(Nat)
    PROVE  /\ Reserved([h EXCEPT ![x] = q]) + Total(h[x]) = Reserved(h) + Total(q)
           /\ Reserved([h EXCEPT ![x] = q]) \in Nat /\ Reserved(h) \in Nat
  <1> DEFINE k == [h EXCEPT ![x] = q]
             a == Total(h[x])
             b == Total(q)
  <1>0. k \in [Sessions -> Seq(Nat)] /\ k[x] = q /\ \A y \in Sessions \ {x} : k[y] = h[y]
    OBVIOUS
  <1>00. a \in Nat /\ b \in Nat /\ \A y \in Sessions : Total(h[y]) \in Nat BY TotalType
  <1> HIDE DEF k
  <1>1. PICK g : IsSum(g, h) /\ Reserved(h) = g[Sessions] BY ReservedFold
  <1>2. PICK j : IsSum(j, k) /\ Reserved(k) = j[Sessions] BY <1>0, ReservedFold
  <1> DEFINE P == {s \in SUBSET Sessions : IF x \in s THEN j[s] + a = g[s] + b ELSE j[s] = g[s]}
             c == [s \in SUBSET Sessions |-> Some(s)]
  <1>3. {} \in P BY <1>1, <1>2 DEF IsSum
  <1>4. IsChoice(c, Sessions) BY SomeOf DEF IsChoice
  <1>5. IsClosed(P, c, Sessions)
    <2> SUFFICES ASSUME NEW s \in SUBSET Sessions, s # {}, s \ {Some(s)} \in P PROVE s \in P
      BY DEF IsClosed
    <2> DEFINE y == Some(s)
               r == s \ {y}
    <2>1. y \in s /\ y \in Sessions BY SomeOf
    <2>2. g[s] = Total(h[y]) + g[r] /\ j[s] = Total(k[y]) + j[r] BY <1>1, <1>2 DEF IsSum
    <2>3. r \in SUBSET Sessions BY <2>1
    <2>4. g[r] \in Nat /\ j[r] \in Nat /\ Total(h[y]) \in Nat
      BY <1>00, <1>1, <1>2, <2>1, <2>3 DEF IsSum
    <2>5. IF x \in r THEN j[r] + a = g[r] + b ELSE j[r] = g[r] OBVIOUS
    <2> HIDE DEF y, r, a, b
    <2>6. CASE y = x
      <3>1. x \notin r /\ x \in s BY <2>1, <2>6 DEF r
      <3>2. j[s] = b + g[r] /\ g[s] = a + g[r] BY <1>0, <2>2, <2>5, <2>6, <3>1 DEF a, b
      <3>3. (b + g[r]) + a = (a + g[r]) + b BY <1>00, <2>4
      <3>4. j[s] + a = g[s] + b BY <3>2, <3>3
      <3> QED BY <3>1, <3>4
    <2>7. CASE y # x
      <3>1. x \in r <=> x \in s BY <2>7 DEF r
      <3>2. k[y] = h[y] BY <1>0, <2>1, <2>7
      <3>3. IF x \in s THEN j[r] + a = g[r] + b ELSE j[r] = g[r] BY <2>5, <3>1
      <3>4. j[s] = Total(h[y]) + j[r] BY <2>2, <3>2
      <3>5. CASE x \in s
        <4>1. j[r] + a = g[r] + b BY <3>3, <3>5
        <4>3. \A t, u, v \in Nat : u + a = v + b => (t + u) + a = (t + v) + b BY <1>00
        <4>4. (Total(h[y]) + j[r]) + a = (Total(h[y]) + g[r]) + b BY <2>4, <4>1, <4>3
        <4>2. j[s] + a = g[s] + b BY <2>2, <3>4, <4>4
        <4> QED BY <3>5, <4>2
      <3>6. CASE x \notin s
        <4>1. j[s] = g[s] BY <2>2, <3>3, <3>4, <3>6
        <4> QED BY <3>6, <4>1
      <3> QED BY <3>5, <3>6
    <2> QED BY <2>6, <2>7
  <1> HIDE DEF P, c, a, b
  <1>6. Sessions \in P BY <1>3, <1>4, <1>5, SubsetInduction
  <1>7. j[Sessions] + a = g[Sessions] + b BY <1>6 DEF P
  <1>8. j[Sessions] \in Nat /\ g[Sessions] \in Nat BY <1>1, <1>2 DEF IsSum
  <1> QED BY <1>1, <1>2, <1>7, <1>8 DEF k, a, b

-----------------------------------------------------------------------------
(* The invariant.  A session that is reading, reserving, being parsed or    *)
(* published has one reservation for each message that it keeps; one that   *)
(* drops what it has keeps no message any more.                             *)
Steps == {"idle", "reading", "reserving", "parsing", "orphan", "publishing", "dropping"}

Matching(s) ==
    /\ Len(held[s]) = Len(kept[s])
    /\ \A i \in DOMAIN kept[s] : held[s][i] = Charge(kept[s][i])

SessionInv(s) ==
    /\ step[s] \in {"idle", "dropping"} => kept[s] = <<>>
    /\ step[s] \notin {"idle", "dropping"} => Matching(s)
    /\ step[s] = "idle" => held[s] = <<>>

IngestTypes ==
    /\ step \in [Sessions -> Steps] /\ want \in [Sessions -> Nat] /\ seen \in [Sessions -> Nat]
    /\ kept \in [Sessions -> Seq(Nat)] /\ held \in [Sessions -> Seq(Nat)]

IngestInv ==
    /\ IngestTypes
    /\ WithinBudget
    /\ \A s \in Sessions : SessionInv(s)

\* A charge is a natural number within a u64.
LEMMA ChargeType ==
    ASSUME Parameters, NEW size \in Nat
    PROVE  Charge(size) \in Nat
  <1>1. size * Multiplier \in Nat BY DEF Parameters
  <1> QED BY <1>1 DEF Charge, Parameters

\* At the start nothing is in flight.
LEMMA InitInv ==
    ASSUME Parameters
    PROVE  Init => IngestInv
  <1> SUFFICES ASSUME Init PROVE IngestInv OBVIOUS
  <1>1. IngestTypes BY DEF Init, IngestTypes, Steps
  <1>2. Reserved(held) = 0
    <2>1. held \in [Sessions -> Seq(Nat)] /\ \A x \in Sessions : held[x] = <<>>
      BY <1>1 DEF Init, IngestTypes
    <2> QED BY <2>1, ReservedNothing DEF Parameters
  <1>3. WithinBudget BY <1>2 DEF Init, WithinBudget, Parameters
  <1>4. \A s \in Sessions : SessionInv(s) BY DEF Init, SessionInv
  <1> QED BY <1>1, <1>3, <1>4 DEF IngestInv

\* Steps of one session leave the others as they are.
LEMMA OthersInv ==
    ASSUME IngestInv, NEW x \in Sessions, IngestTypes',
           \A s \in Sessions \ {x} : step'[s] = step[s] /\ kept'[s] = kept[s] /\ held'[s] = held[s],
           SessionInv(x)'
    PROVE  \A s \in Sessions : SessionInv(s)'
  <1> SUFFICES ASSUME NEW s \in Sessions \ {x} PROVE SessionInv(s)' OBVIOUS
  <1>1. SessionInv(s) BY DEF IngestInv
  <1> QED BY <1>1 DEF SessionInv, Matching, Charge

\* Steps that neither reserve nor release: only step and kept (and the session's copy of the
\* counter) change, and messages are only let go.
LEMMA QuietInv ==
    ASSUME Parameters, IngestInv, NEW x \in Sessions, UNCHANGED <<inFlight, held>>,
           NEW t \in Steps, step' = [step EXCEPT ![x] = t],
           want' \in [Sessions -> Nat], seen' \in [Sessions -> Nat],
           \/ kept' = kept /\ step[x] \notin {"idle", "dropping"} /\ t \notin {"idle", "dropping"}
           \/ kept' = [kept EXCEPT ![x] = <<>>] /\ t = "dropping"
           \/ /\ kept' = [kept EXCEPT ![x] = <<>>] /\ held[x] = <<>> /\ t = "reading"
           \/ kept' = kept /\ step[x] = "dropping" /\ held[x] = <<>> /\ t = "idle"
    PROVE  IngestInv'
  <1>1. /\ IngestTypes /\ SessionInv(x) BY DEF IngestInv
  <1>2. <<>> \in Seq(Nat) OBVIOUS
  <1>3. IngestTypes' BY <1>1, <1>2 DEF IngestTypes
  <1>4. WithinBudget' BY DEF IngestInv, WithinBudget
  <1>5. /\ \A s \in Sessions \ {x} : step'[s] = step[s] /\ kept'[s] = kept[s] /\ held'[s] = held[s]
        /\ step'[x] = t /\ held'[x] = held[x]
        /\ kept'[x] = kept[x] \/ kept'[x] = <<>>
    BY <1>1 DEF IngestTypes
  <1>6. SessionInv(x)'
    <2>1. CASE kept' = kept /\ step[x] \notin {"idle", "dropping"} /\ t \notin {"idle", "dropping"}
      BY <1>1, <1>5, <2>1 DEF SessionInv, Matching, Charge
    <2>2. CASE kept' = [kept EXCEPT ![x] = <<>>] /\ t = "dropping"
      <3>1. kept'[x] = <<>> BY <1>1, <2>2 DEF IngestTypes
      <3> QED BY <1>5, <2>2, <3>1 DEF SessionInv
    <2>3. CASE kept' = [kept EXCEPT ![x] = <<>>] /\ held[x] = <<>> /\ t = "reading"
      <3>1. kept'[x] = <<>> /\ held'[x] = <<>> BY <1>1, <2>3 DEF IngestTypes
      <3>2. Matching(x)' BY <3>1 DEF Matching
      <3> QED BY <1>5, <2>3, <3>2 DEF SessionInv
    <2>4. CASE kept' = kept /\ step[x] = "dropping" /\ held[x] = <<>> /\ t = "idle"
      BY <1>1, <1>5, <2>4 DEF SessionInv
    <2> QED BY <2>1, <2>2, <2>3, <2>4
  <1>7. \A s \in Sessions : SessionInv(s)' BY <1>3, <1>5, <1>6, OthersInv
  <1> QED BY <1>3, <1>4, <1>7 DEF IngestInv

\* A reservation is made: the counter has not moved since it was read.
LEMMA ReserveInv ==
    ASSUME Parameters, IngestInv, NEW x \in Sessions, TryReserve(x), inFlight' # inFlight
           \/ held' # held
    PROVE  IngestInv'
  <1> DEFINE charge == Charge(want[x])
             q == Append(held[x], charge)
             k == Append(kept[x], want[x])
  <1>1. IngestTypes /\ SessionInv(x) /\ WithinBudget BY DEF IngestInv
  <1>2. want[x] \in Nat /\ charge \in Nat BY <1>1, ChargeType DEF IngestTypes
  <1>3. /\ step[x] = "reserving" /\ inFlight = seen[x]
        /\ inFlight' = inFlight + charge /\ inFlight' <= Limit
        /\ held' = [held EXCEPT ![x] = q] /\ kept' = [kept EXCEPT ![x] = k]
        /\ step' = [step EXCEPT ![x] = "reading"]
        /\ seen' = [seen EXCEPT ![x] = 0] /\ want' = [want EXCEPT ![x] = 0]
    <2>1. seen[x] + charge \in Int /\ Limit \in Int BY <1>1, <1>2 DEF IngestTypes, Parameters
    <2> QED BY <2>1 DEF TryReserve
  <1>4. held[x] \in Seq(Nat) /\ kept[x] \in Seq(Nat) BY <1>1 DEF IngestTypes
  <1>5. q \in Seq(Nat) /\ k \in Seq(Nat) BY <1>2, <1>4
  <1> HIDE DEF q, k
  <1>6. IngestTypes' BY <1>1, <1>3, <1>5 DEF IngestTypes, Steps
  <1>7. Total(q) = Total(held[x]) + charge /\ Total(held[x]) \in Nat
    BY <1>2, <1>4, TotalAppend, TotalType DEF q
  <1>8. /\ Reserved(held') + Total(held[x]) = Reserved(held) + Total(q)
        /\ Reserved(held') \in Nat /\ Reserved(held) \in Nat
    BY <1>1, <1>3, <1>5, ReservedChange DEF IngestTypes, Parameters
  <1>9. Reserved(held') = Reserved(held) + charge
    <2> HIDE DEF charge
    <2> DEFINE now == Reserved(held)
               then == Reserved(held')
               mine == Total(held[x])
    <2>1. then + mine = now + (mine + charge) BY <1>7, <1>8
    <2>2. then \in Nat /\ now \in Nat /\ mine \in Nat /\ charge \in Nat BY <1>2, <1>7, <1>8
    <2> HIDE DEF now, then, mine
    <2>3. then = now + charge BY <2>1, <2>2
    <2> QED BY <2>3 DEF now, then
  <1>10. WithinBudget' BY <1>1, <1>3, <1>9 DEF WithinBudget
  <1>11. /\ held'[x] = q /\ kept'[x] = k /\ step'[x] = "reading"
         /\ \A s \in Sessions \ {x} : step'[s] = step[s] /\ kept'[s] = kept[s] /\ held'[s] = held[s]
    BY <1>1, <1>3 DEF IngestTypes
  <1>12. Matching(x) BY <1>1, <1>3 DEF SessionInv
  <1>13. Len(q) = Len(k) /\ \A i \in DOMAIN k : q[i] = Charge(k[i])
    <2>1. /\ Len(q) = Len(held[x]) + 1 /\ Len(k) = Len(kept[x]) + 1 /\ DOMAIN k = 1 .. Len(kept[x]) + 1
          /\ \A i \in 1 .. Len(held[x]) : q[i] = held[x][i]
          /\ \A i \in 1 .. Len(kept[x]) : k[i] = kept[x][i]
          /\ q[Len(held[x]) + 1] = charge /\ k[Len(kept[x]) + 1] = want[x]
      BY <1>2, <1>4 DEF q, k
    <2>2. Len(held[x]) = Len(kept[x]) /\ \A i \in 1 .. Len(kept[x]) : held[x][i] = Charge(kept[x][i])
      BY <1>4, <1>12 DEF Matching
    <2> SUFFICES ASSUME NEW i \in 1 .. Len(kept[x]) + 1 PROVE q[i] = Charge(k[i])
      BY <2>1, <2>2
    <2>3. CASE i = Len(kept[x]) + 1 BY <2>1, <2>2, <2>3
    <2>4. CASE i # Len(kept[x]) + 1
      <3>1. i \in 1 .. Len(kept[x]) BY <1>4, <2>4
      <3> QED BY <2>1, <2>2, <3>1
    <2> QED BY <2>3, <2>4
  <1>14. SessionInv(x)'
    <2>1. Matching(x)' BY <1>11, <1>13 DEF Matching, Charge
    <2> QED BY <1>11, <2>1 DEF SessionInv
  <1>15. \A s \in Sessions : SessionInv(s)' BY <1>6, <1>11, <1>14, OthersInv
  <1> QED BY <1>6, <1>10, <1>15 DEF IngestInv

\* A reservation is dropped.
LEMMA ReleaseInv ==
    ASSUME Parameters, IngestInv, NEW x \in Sessions, Release(x), held[x] # <<>>
    PROVE  IngestInv'
  <1> DEFINE q == Tail(held[x])
  <1>1. IngestTypes /\ SessionInv(x) /\ WithinBudget BY DEF IngestInv
  <1>2. /\ step[x] = "dropping" /\ inFlight' = inFlight - Head(held[x])
        /\ held' = [held EXCEPT ![x] = q] /\ UNCHANGED <<step, want, seen, kept>>
    BY DEF Release
  <1>3. held[x] \in Seq(Nat) /\ q \in Seq(Nat) /\ Head(held[x]) \in Nat
    <2>1. held[x] \in Seq(Nat) BY <1>1 DEF IngestTypes
    <2> QED BY <2>1
  <1>4. Total(held[x]) = Total(q) + Head(held[x]) BY <1>3, TotalTail
  <1>5. Total(q) \in Nat BY <1>3, TotalType
  <1> HIDE DEF q
  <1>6. /\ Reserved(held') + Total(held[x]) = Reserved(held) + Total(q)
        /\ Reserved(held') \in Nat /\ Reserved(held) \in Nat
    BY <1>1, <1>2, <1>3, ReservedChange DEF IngestTypes, Parameters
  <1>7. Reserved(held') = Reserved(held) - Head(held[x])
    <2> DEFINE a == Head(held[x])
    <2> HIDE DEF a
    <2>1. a \in Nat /\ Total(held[x]) = Total(q) + a BY <1>3, <1>4 DEF a
    <2>2. Reserved(held') = Reserved(held) - a BY <1>5, <1>6, <2>1
    <2> QED BY <2>2 DEF a
  <1>8. WithinBudget'
    <2>1. inFlight = Reserved(held) /\ inFlight <= Limit BY <1>1 DEF WithinBudget
    <2>2. inFlight' = Reserved(held') BY <1>2, <1>7, <2>1
    <2>3. inFlight' <= Limit BY <1>2, <1>3, <1>6, <2>1 DEF Parameters
    <2> QED BY <2>2, <2>3 DEF WithinBudget
  <1>9. IngestTypes' BY <1>1, <1>2, <1>3 DEF IngestTypes
  <1>10. SessionInv(x)' BY <1>1, <1>2 DEF SessionInv
  <1>11. \A s \in Sessions \ {x} : step'[s] = step[s] /\ kept'[s] = kept[s] /\ held'[s] = held[s]
    BY <1>1, <1>2 DEF IngestTypes
  <1>12. \A s \in Sessions : SessionInv(s)' BY <1>9, <1>10, <1>11, OthersInv
  <1> QED BY <1>8, <1>9, <1>12 DEF IngestInv

\* The counter is a natural number.
LEMMA CounterType ==
    ASSUME Parameters, IngestInv
    PROVE  inFlight \in Nat
  <1>1. held \in [Sessions -> Seq(Nat)] /\ inFlight = Reserved(held)
    BY DEF IngestInv, IngestTypes, WithinBudget
  <1>2. PICK g : IsSum(g, held) /\ Reserved(held) = g[Sessions]
    BY <1>1, ReservedFold DEF Parameters
  <1> QED BY <1>1, <1>2 DEF IsSum

\* A length prefix: the session gives up, or goes on to reserve.
LEMMA RecordInv ==
    ASSUME Parameters, IngestInv, NEW x \in Sessions, NEW size \in Sizes, RecordMessage(x, size)
    PROVE  IngestInv'
  <1>1. IngestTypes /\ inFlight \in Nat /\ size \in Nat /\ step[x] = "reading"
    BY CounterType DEF IngestInv, Parameters, RecordMessage
  <1>2. UNCHANGED <<inFlight, held>> BY DEF RecordMessage
  <1>3. CASE /\ step' = [step EXCEPT ![x] = "dropping"] /\ kept' = [kept EXCEPT ![x] = <<>>]
             /\ UNCHANGED <<want, seen>>
    BY <1>1, <1>2, <1>3, QuietInv DEF IngestTypes, Steps
  <1>4. CASE /\ step' = [step EXCEPT ![x] = "reserving"]
             /\ want' = [want EXCEPT ![x] = size] /\ seen' = [seen EXCEPT ![x] = inFlight]
             /\ UNCHANGED kept
    <2>1. want' \in [Sessions -> Nat] /\ seen' \in [Sessions -> Nat]
      BY <1>1, <1>4 DEF IngestTypes
    <2> QED BY <1>1, <1>2, <1>4, <2>1, QuietInv DEF Steps
  <1> QED BY <1>3, <1>4 DEF RecordMessage

\* One turn of the reservation loop.
LEMMA TryReserveInv ==
    ASSUME Parameters, IngestInv, NEW x \in Sessions, TryReserve(x)
    PROVE  IngestInv'
  <1>1. IngestTypes /\ inFlight \in Nat /\ step[x] = "reserving"
    BY CounterType DEF IngestInv, TryReserve
  <1>2. CASE inFlight' # inFlight \/ held' # held BY <1>2, ReserveInv
  <1>3. CASE /\ step' = [step EXCEPT ![x] = "dropping"] /\ kept' = [kept EXCEPT ![x] = <<>>]
             /\ want' = [want EXCEPT ![x] = 0] /\ seen' = [seen EXCEPT ![x] = 0]
             /\ UNCHANGED <<inFlight, held>>
    <2>1. want' \in [Sessions -> Nat] /\ seen' \in [Sessions -> Nat]
      BY <1>1, <1>3 DEF IngestTypes
    <2> QED BY <1>1, <1>3, <2>1, QuietInv DEF Steps
  <1>4. CASE /\ seen' = [seen EXCEPT ![x] = inFlight]
             /\ UNCHANGED <<inFlight, want, held, kept, step>>
    <2>1. want' \in [Sessions -> Nat] /\ seen' \in [Sessions -> Nat]
      BY <1>1, <1>4 DEF IngestTypes
    <2>2. step' = [step EXCEPT ![x] = "reserving"] BY <1>1, <1>4 DEF IngestTypes
    <2> QED BY <1>1, <1>4, <2>1, <2>2, QuietInv DEF Steps
  <1>5. CASE held' = [held EXCEPT ![x] = Append(@, Charge(want[x]))]
    <2>1. held[x] \in Seq(Nat) /\ held'[x] = Append(held[x], Charge(want[x]))
      BY <1>1, <1>5 DEF IngestTypes
    <2>2. Charge(want[x]) \in Nat BY <1>1, ChargeType DEF IngestTypes
    <2>3. held' # held BY <2>1, <2>2
    <2> QED BY <2>3, ReserveInv
  <1> QED BY <1>2, <1>3, <1>4, <1>5 DEF TryReserve

\* Sessions that start, end, go to the parser, time out, are published or give back nothing.
LEMMA OtherStepInv ==
    ASSUME Parameters, IngestInv, NEW x \in Sessions,
           \/ Start(x) \/ Parse(x) \/ Fail(x) \/ Timeout(x) \/ Parsed(x) \/ Publish(x)
           \/ Release(x) /\ held[x] = <<>>
    PROVE  IngestInv'
  <1>1. IngestTypes BY DEF IngestInv
  <1>2. /\ UNCHANGED <<inFlight, held>>
        /\ want' \in [Sessions -> Nat] /\ seen' \in [Sessions -> Nat]
    BY <1>1 DEF IngestTypes, Start, Parse, Fail, Timeout, Parsed, Publish, Release
  <1>3. CASE Start(x) BY <1>2, <1>3, QuietInv DEF Start, Steps
  <1>4. CASE Parse(x) BY <1>2, <1>4, QuietInv DEF Parse, Steps
  <1>5. CASE Fail(x) \/ Publish(x) BY <1>2, <1>5, QuietInv DEF Fail, Publish, Steps
  <1>6. CASE Timeout(x) BY <1>2, <1>6, QuietInv DEF Timeout, Steps
  <1>7. CASE Parsed(x) BY <1>2, <1>7, QuietInv DEF Parsed, Steps
  <1>8. CASE Release(x) /\ held[x] = <<>> BY <1>2, <1>8, QuietInv DEF Release, Idle, Steps
  <1> QED BY <1>3, <1>4, <1>5, <1>6, <1>7, <1>8

\* IngestInv is inductive.
LEMMA NextInv ==
    ASSUME Parameters, IngestInv, [Next]_vars
    PROVE  IngestInv'
  <1>1. CASE UNCHANGED vars
    <2>1. UNCHANGED <<inFlight, step, want, seen, kept, held>> BY <1>1 DEF vars
    <2>2. IngestTypes' /\ WithinBudget' BY <2>1 DEF IngestInv, IngestTypes, WithinBudget
    <2>3. \A s \in Sessions : SessionInv(s)' BY <2>1 DEF IngestInv, SessionInv, Matching, Charge
    <2> QED BY <2>2, <2>3 DEF IngestInv
  <1>2. CASE Next
    <2>1. PICK x \in Sessions :
             \/ Start(x) \/ TryReserve(x) \/ Parse(x) \/ Fail(x) \/ Timeout(x)
             \/ Parsed(x) \/ Publish(x) \/ Release(x)
             \/ \E size \in Sizes : RecordMessage(x, size)
      BY <1>2 DEF Next
    <2>2. CASE TryReserve(x) BY <2>2, TryReserveInv
    <2>3. CASE \E size \in Sizes : RecordMessage(x, size) BY <2>3, RecordInv
    <2>4. CASE Release(x) /\ held[x] # <<>> BY <2>4, ReleaseInv
    <2>5. CASE \/ Start(x) \/ Parse(x) \/ Fail(x) \/ Timeout(x) \/ Parsed(x) \/ Publish(x)
               \/ Release(x) /\ held[x] = <<>>
      BY <2>5, OtherStepInv
    <2> QED BY <2>1, <2>2, <2>3, <2>4, <2>5
  <1> QED BY <1>1, <1>2

-----------------------------------------------------------------------------
\* IngestInv is an invariant for every number of sessions, every limit, charge and size.
THEOREM IngestCorrect ==
    ASSUME Parameters PROVE Spec => []IngestInv
  <1>1. Init => IngestInv BY InitInv
  <1>2. IngestInv /\ [Next]_vars => IngestInv' BY NextInv
  <1> QED BY <1>1, <1>2, PTL DEF Spec

\* The counter is a u64 that never underflows, and a session at rest holds nothing.
THEOREM TypeCorrect ==
    ASSUME Parameters PROVE Spec => []TypeOK
  <1>1. IngestInv => TypeOK
    <2> SUFFICES ASSUME IngestInv PROVE TypeOK OBVIOUS
    <2>1. inFlight \in Nat /\ inFlight <= Limit BY CounterType DEF IngestInv, WithinBudget
    <2>2. inFlight \in 0 .. MaxInt BY <2>1 DEF Parameters
    <2> QED BY <2>2 DEF IngestInv, IngestTypes, SessionInv, Steps, TypeOK
  <1> QED BY <1>1, IngestCorrect, PTL

\* The reservations of all sessions, and of the parsers that outlive them, add up to
\* in_flight_bytes and stay within limit_bytes (TransferIngestBudget::try_reserve and the drop
\* of TransferIngestReservation).
THEOREM BudgetHolds ==
    ASSUME Parameters PROVE Spec => []WithinBudget
  <1>1. IngestInv => WithinBudget BY DEF IngestInv
  <1> QED BY <1>1, IngestCorrect, PTL

\* Every message in memory has a reservation of its own charge that has not been given back,
\* also while a parser works on after its session's timeout (GuardedTransfer).
THEOREM MemoryIsCharged ==
    ASSUME Parameters PROVE Spec => []RetainedIsCharged
  <1>1. IngestInv => RetainedIsCharged
    BY DEF IngestInv, SessionInv, Matching, RetainedIsCharged
  <1> QED BY <1>1, IngestCorrect, PTL
=============================================================================

------------------------------ MODULE RulesProofs ------------------------------
(***************************************************************************)
(* Proofs about the answers the system computes: for every link, every     *)
(* source a provider can be, and every text of instructions.  Where an     *)
(* answer is built by a loop, induction is over the turns of the loop; it  *)
(* is had from the well-foundedness of strict inclusion on finite sets.    *)
(***************************************************************************)
EXTENDS Rules, FiniteSetTheorems, WellFoundedInduction, TLAPS

-----------------------------------------------------------------------------
\* Induction over the naturals, for the members of a set.
LEMMA Induction ==
  ASSUME NEW B, 0 \in B, \A n \in Nat : n \in B => n + 1 \in B
  PROVE  Nat \subseteq B
<1> SUFFICES ASSUME NEW m \in Nat, m \notin B PROVE FALSE
  OBVIOUS
<1> DEFINE T == {X \in SUBSET Nat : \E k \in Nat : X = 0..k /\ k \notin B}
           R == StrictSubsetOrdering(Nat)
\* A smallest interval that ends outside of B.
<1>1. T \subseteq FiniteSubsetsOf(Nat) /\ T # {}
  <2>1. \A k \in Nat : IsFiniteSet(0..k)
    BY FS_Interval
  <2>2. 0..m \in T
    BY SMT
  <2> QED
    BY <2>1, <2>2 DEF FiniteSubsetsOf
<1>2. IsWellFoundedOn(R, FiniteSubsetsOf(Nat))
  BY FS_StrictSubsetOrderingWellFounded
<1> HIDE DEF R
<1>3. PICK X \in T : \A Y \in T : ~(<<Y, X>> \in R)
  BY <1>1, <1>2, WFMin
<1>4. PICK k \in Nat : X = 0..k /\ k \notin B
  BY <1>3
\* The one that ends before it is smaller.
<1>5. k # 0 /\ k - 1 \in Nat /\ k - 1 \notin B
  BY <1>4
<1>6. 0..(k-1) \in T
  BY <1>5
<1>7. <<0..(k-1), X>> \in R
  <2>1. 0..(k-1) \subseteq X /\ 0..(k-1) # X /\ X \subseteq Nat
    BY <1>4, <1>5
  <2> QED
    BY <2>1 DEF R, StrictSubsetOrdering
<1> QED
  BY <1>3, <1>6, <1>7

\* Induction over an interval.
LEMMA InductionUpto ==
  ASSUME NEW N \in Nat, NEW B, 0 \in B, \A n \in 1..N : n - 1 \in B => n \in B
  PROVE  0..N \subseteq B
<1> DEFINE C == {n \in Nat : n <= N => n \in B}
<1>1. 0 \in C
  OBVIOUS
<1>2. ASSUME NEW n \in Nat, n \in C PROVE n + 1 \in C
  <2> SUFFICES ASSUME n + 1 <= N PROVE n + 1 \in B
    OBVIOUS
  <2>1. n \in B /\ n + 1 \in 1..N /\ (n + 1) - 1 = n
    BY <1>2
  <2> QED
    BY <2>1
<1> HIDE DEF C
<1>3. Nat \subseteq C
  BY <1>1, <1>2, Induction
<1> QED
  BY <1>3 DEF C

\* Some naturals have a least one.
LEMMA Least ==
  ASSUME NEW S \in SUBSET Nat, S # {}
  PROVE  \E m \in S : \A k \in S : m <= k
<1> SUFFICES ASSUME \A m \in S : \E k \in S : k < m PROVE FALSE
  OBVIOUS
<1> DEFINE B == {n \in Nat : \A k \in 0..n : k \notin S}
<1>1. 0 \in B
  OBVIOUS
<1>2. \A n \in Nat : n \in B => n + 1 \in B
  OBVIOUS
<1> HIDE DEF B
<1>3. Nat \subseteq B
  BY <1>1, <1>2, Induction
<1>4. ASSUME NEW n \in Nat PROVE n \notin S
  <2>1. n \in B /\ n \in 0..n
    BY <1>3
  <2> QED
    BY <2>1 DEF B
<1> QED
  BY <1>4

\* Finitely many have a greatest one.
LEMMA Greatest ==
  ASSUME NEW S \in SUBSET Nat, S # {}, IsFiniteSet(S)
  PROVE  \E m \in S : \A k \in S : k <= m
<1> DEFINE N == Cardinality(S)
<1>1. N \in Nat /\ ExistsBijection(1..N, S)
  BY FS_CardinalityType
<1> HIDE DEF N
<1>2. PICK f \in [1..N -> S] : \A x \in S : \E i \in 1..N : f[i] = x
  BY <1>1 DEF ExistsBijection, Bijection, Surjection
<1> DEFINE Top(n, i) == i \in 1..n /\ \A k \in 1..n : f[k] <= f[i]
           B == {n \in Nat : n \in 1..N => \E i \in 1..N : Top(n, i)}
<1>3. 0 \in B
  OBVIOUS
<1>4. ASSUME NEW n \in Nat, n \in B PROVE n + 1 \in B
  <2> SUFFICES ASSUME n + 1 \in 1..N
               PROVE  \E i \in 1..N : Top(n + 1, i)
    OBVIOUS
  <2>1. \A k \in 1..N : f[k] \in Nat
    BY <1>2
  <2>2. ASSUME n = 0 PROVE Top(n + 1, 1) /\ 1 \in 1..N
    <3>1. \A k \in 1..(n+1) : k = 1
      BY <2>2
    <3>2. f[1] \in Nat /\ 1 \in 1..N
      BY <1>1, <2>1, <2>2
    <3> QED
      BY <2>2, <3>1, <3>2
  <2>3. ASSUME n # 0 PROVE \E i \in 1..N : Top(n + 1, i)
    <3>1. n \in 1..N
      BY <1>1, <2>3
    <3>2. PICK i \in 1..N : Top(n, i)
      BY <1>4, <3>1
    <3> HIDE DEF B
    <3>3. \A k \in 1..(n+1) : k \in 1..N /\ (k \in 1..n \/ k = n + 1)
      BY <1>1
    <3>4. n + 1 \in 1..(n+1) /\ i \in 1..(n+1)
      BY <3>2
    <3>5. f[i] \in Nat /\ f[n+1] \in Nat /\ \A k \in 1..n : k \in 1..N /\ f[k] \in Nat /\ f[k] <= f[i]
      BY <1>1, <2>1, <3>1, <3>2
    <3>6. f[n+1] <= f[i] => Top(n + 1, i)
      BY <3>3, <3>4, <3>5
    <3>7. f[i] < f[n+1] => Top(n + 1, n + 1)
      BY <3>3, <3>4, <3>5
    <3> QED
      BY <3>5, <3>6, <3>7
  <2> QED
    BY <2>2, <2>3
<1>5. N \in B
  <2> HIDE DEF B
  <2> QED
    BY <1>1, <1>3, <1>4, Induction
<1>6. N \in 1..N
  <2>1. PICK x \in S : TRUE
    OBVIOUS
  <2>2. PICK i \in 1..N : f[i] = x
    BY <1>2
  <2> QED
    BY <1>1
<1>7. PICK i \in 1..N : Top(N, i)
  BY <1>5, <1>6
<1> QED
  BY <1>2, <1>7

\* What each of N turns makes of a value in A, and the values that a gives turn by turn.
TurnsOn(A, N) == [1..N -> [A -> A]]

Runs(f, A, a, N, g) ==
  f \in [0..N -> A] /\ f[0] = a /\ \A n \in 1..N : f[n] = g[n][f[n-1]]

\* There are such values: a function may be defined by what it is at n - 1.
LEMMA Recursion ==
  ASSUME NEW A, NEW a \in A, NEW N \in Nat, NEW g \in TurnsOn(A, N)
  PROVE  \E f : Runs(f, A, a, N, g)
<1> USE DEF TurnsOn, Runs
<1> DEFINE Upto(m, f) == f[0] = a /\ \A n \in 1..m : f[n] = g[n][f[n-1]]
           B == {m \in Nat : m <= N => \E f \in [0..m -> A] : Upto(m, f)}
<1>1. 0 \in B
  <2>1. [n \in 0..0 |-> a] \in [0..0 -> A] /\ Upto(0, [n \in 0..0 |-> a])
    OBVIOUS
  <2> QED
    BY <2>1
<1>2. ASSUME NEW m \in Nat, m \in B PROVE m + 1 \in B
  <2> SUFFICES ASSUME m + 1 <= N
               PROVE  \E f \in [0..(m+1) -> A] : Upto(m + 1, f)
    OBVIOUS
  <2>1. PICK e \in [0..m -> A] : Upto(m, e)
    BY <1>2
  <2> DEFINE f == [n \in 0..(m+1) |-> IF n = m + 1 THEN g[m+1][e[m]] ELSE e[n]]
  <2>2. e[m] \in A /\ g[m+1] \in [A -> A]
    OBVIOUS
  <2>3. f \in [0..(m+1) -> A]
    BY <2>2
  <2>4. f[0] = a
    BY <2>1
  <2>5. ASSUME NEW n \in 1..(m+1) PROVE f[n] = g[n][f[n-1]]
    <3>1. n - 1 \in 0..m /\ f[n-1] = e[n-1]
      OBVIOUS
    <3>2. CASE n = m + 1
      BY <3>1, <3>2
    <3>3. CASE n # m + 1
      <4>1. n \in 1..m /\ f[n] = e[n]
        BY <3>3
      <4> QED
        BY <2>1, <3>1, <4>1
    <3> QED
      BY <3>2, <3>3
  <2> QED
    BY <2>3, <2>4, <2>5
<1> HIDE DEF B
<1>3. N \in B
  BY <1>1, <1>2, Induction
<1> QED
  BY <1>3 DEF B

\* A sequence with a value appended.
LEMMA Appended ==
  ASSUME NEW S, NEW s \in Seq(S), NEW e \in S
  PROVE  /\ Append(s, e) \in Seq(S)
         /\ Len(Append(s, e)) = Len(s) + 1
         /\ DOMAIN Append(s, e) = 1..(Len(s) + 1)
         /\ DOMAIN s = 1..Len(s) /\ Len(s) \in Nat
         /\ \A i \in DOMAIN s : Append(s, e)[i] = s[i]
         /\ Append(s, e)[Len(s) + 1] = e
OBVIOUS

-----------------------------------------------------------------------------
\* Cards of the campaigns that sources may list.
CardSet == [campaign : Campaigns, state : States]

\* What has been taken after a turn is what Take makes of what had been taken before.
LEMMA TurnsUnfold ==
  ASSUME NEW cards \in Seq(CardSet), NEW limit \in Nat
  PROVE  /\ Turns(cards, limit)[0] = <<>>
         /\ \A n \in 1..Len(cards) :
              Turns(cards, limit)[n] = Take(Turns(cards, limit)[n-1], cards[n], limit)
<1> DEFINE N == Len(cards)
           g == [n \in 1..N |-> [o \in Seq(CardSet) |-> Take(o, cards[n], limit)]]
           Is(out) == out = [n \in 0..N |-> IF n = 0 THEN <<>>
                                            ELSE Take(out[n-1], cards[n], limit)]
<1>1. g \in [1..N -> [Seq(CardSet) -> Seq(CardSet)]]
  <2>1. ASSUME NEW n \in 1..N, NEW o \in Seq(CardSet)
        PROVE  Take(o, cards[n], limit) \in Seq(CardSet)
    BY DEF Take
  <2> QED
    BY <2>1
<1>2. N \in Nat /\ <<>> \in Seq(CardSet)
  OBVIOUS
<1>3. PICK f : Runs(f, Seq(CardSet), <<>>, N, g)
  <2>1. g \in TurnsOn(Seq(CardSet), N)
    BY <1>1 DEF TurnsOn
  <2> HIDE DEF g, N
  <2> QED
    BY <1>2, <2>1, Recursion
<1>4. Is(f)
  <2>1. ASSUME NEW n \in 0..N, n # 0 PROVE f[n] = Take(f[n-1], cards[n], limit)
    <3>1. n \in 1..N /\ n - 1 \in 0..N
      BY <1>2, <2>1
    <3>2. f[n] = g[n][f[n-1]] /\ f[n-1] \in Seq(CardSet)
      BY <1>3, <3>1 DEF Runs
    <3> QED
      BY <3>1, <3>2
  <2> QED
    BY <1>3, <2>1 DEF Runs
<1>5. Is(Turns(cards, limit))
  <2>1. Turns(cards, limit) = CHOOSE out : Is(out)
    BY DEF Turns
  <2> QED
    BY <1>4, <2>1
<1>6. \A n \in 1..N : n \in 0..N /\ n # 0
  OBVIOUS
<1>7. 0 \in 0..N
  BY <1>2
<1> QED
  BY <1>5, <1>6, <1>7

\* After a turn the cards kept are those kept before, and the next one if it is in
\* one of the states.
LEMMA SiftUnfold ==
  ASSUME NEW cards \in Seq(CardSet), NEW states
  PROVE  \E kept :
           /\ Sift(cards, states) = kept[Len(cards)]
           /\ kept[0] = <<>>
           /\ \A n \in 1..Len(cards) :
                kept[n] = IF cards[n].state \in states THEN Append(kept[n-1], cards[n])
                          ELSE kept[n-1]
<1> DEFINE N == Len(cards)
           Step(o, n) == IF cards[n].state \in states THEN Append(o, cards[n]) ELSE o
           g == [n \in 1..N |-> [o \in Seq(CardSet) |-> Step(o, n)]]
           Is(kept) == kept = [n \in 0..N |-> IF n = 0 THEN <<>>
                                              ELSE IF cards[n].state \in states
                                                   THEN Append(kept[n-1], cards[n])
                                                   ELSE kept[n-1]]
<1>1. g \in [1..N -> [Seq(CardSet) -> Seq(CardSet)]]
  <2>1. ASSUME NEW n \in 1..N, NEW o \in Seq(CardSet) PROVE Step(o, n) \in Seq(CardSet)
    OBVIOUS
  <2> QED
    BY <2>1
<1>2. N \in Nat /\ <<>> \in Seq(CardSet)
  OBVIOUS
<1>3. PICK f : Runs(f, Seq(CardSet), <<>>, N, g)
  <2>1. g \in TurnsOn(Seq(CardSet), N)
    BY <1>1 DEF TurnsOn
  <2> HIDE DEF g, N
  <2> QED
    BY <1>2, <2>1, Recursion
<1>4. Is(f)
  <2>1. ASSUME NEW n \in 0..N, n # 0 PROVE f[n] = Step(f[n-1], n)
    <3>1. n \in 1..N /\ n - 1 \in 0..N
      BY <1>2, <2>1
    <3>2. f[n] = g[n][f[n-1]] /\ f[n-1] \in Seq(CardSet)
      BY <1>3, <3>1 DEF Runs
    <3> QED
      BY <3>1, <3>2
  <2> QED
    BY <1>3, <2>1 DEF Runs
<1>5. Is(CHOOSE kept : Is(kept))
  BY <1>4
<1>6. Sift(cards, states) = (CHOOSE kept : Is(kept))[N]
  BY DEF Sift
<1>7. PICK kept : Is(kept) /\ Sift(cards, states) = kept[N]
  BY <1>5, <1>6
<1>8. \A n \in 1..N : n \in 0..N /\ n # 0
  OBVIOUS
<1>9. 0 \in 0..N
  BY <1>2
<1>10. kept[0] = <<>>
  BY <1>7, <1>9
<1>11. \A n \in 1..N : kept[n] = Step(kept[n-1], n)
  BY <1>7, <1>8
<1> QED
  BY <1>7, <1>10, <1>11

\* Sifting keeps cards that are in one of the states, and keeps one if there is one.
LEMMA SiftKeeps ==
  ASSUME NEW cards \in Seq(CardSet), NEW states
  PROVE  LET kept == Sift(cards, states)
         IN /\ kept \in Seq(CardSet)
            /\ \A i \in DOMAIN kept : kept[i].state \in states
            /\ (\E i \in DOMAIN cards : cards[i].state \in states) => kept # <<>>
<1>1. PICK kept :
        /\ Sift(cards, states) = kept[Len(cards)]
        /\ kept[0] = <<>>
        /\ \A n \in 1..Len(cards) :
             kept[n] = IF cards[n].state \in states THEN Append(kept[n-1], cards[n])
                       ELSE kept[n-1]
  BY SiftUnfold
<1> DEFINE N == Len(cards)
           Kept(n, o) ==
             /\ o \in Seq(CardSet)
             /\ \A i \in DOMAIN o : o[i].state \in states
             /\ (\E i \in 1..n : cards[i].state \in states) => o # <<>>
           B == {n \in 0..N : Kept(n, kept[n])}
<1>2. N \in Nat /\ 0 \in 0..N
  OBVIOUS
<1>3. 0 \in B
  <2>1. <<>> \in Seq(CardSet) /\ DOMAIN <<>> = {} /\ 1..0 = {}
    OBVIOUS
  <2>2. Kept(0, <<>>)
    BY <2>1
  <2> QED
    BY <1>1, <1>2, <2>2
<1>4. ASSUME NEW n \in 1..N, n - 1 \in B PROVE n \in B
  <2> DEFINE o == kept[n-1]
  <2>1. Kept(n - 1, o) /\ n \in 0..N /\ n - 1 \in Nat
    BY <1>4
  <2>2. cards[n] \in CardSet
    OBVIOUS
  <2>3. kept[n] = IF cards[n].state \in states THEN Append(o, cards[n]) ELSE o
    BY <1>1
  <2> HIDE DEF o
  <2>4. \A i \in 1..n : i \in 1..(n-1) \/ i = n
    BY <2>1
  <2>5. ASSUME cards[n].state \in states PROVE Kept(n, kept[n])
    <3>1. kept[n] = Append(o, cards[n])
      BY <2>3, <2>5
    <3>2. /\ kept[n] \in Seq(CardSet) /\ kept[n] # <<>>
          /\ \A i \in DOMAIN kept[n] : (i \in DOMAIN o /\ kept[n][i] = o[i]) \/ kept[n][i] = cards[n]
      <4>1. o \in Seq(CardSet)
        BY <2>1
      <4> HIDE DEF Kept, B
      <4>2. /\ Append(o, cards[n]) \in Seq(CardSet)
            /\ Len(Append(o, cards[n])) = Len(o) + 1
            /\ DOMAIN Append(o, cards[n]) = 1..(Len(o) + 1)
            /\ DOMAIN o = 1..Len(o) /\ Len(o) \in Nat
            /\ \A i \in DOMAIN o : Append(o, cards[n])[i] = o[i]
            /\ Append(o, cards[n])[Len(o) + 1] = cards[n]
        BY <2>2, <4>1, Appended
      <4> QED
        BY <3>1, <4>2
    <3>3. \A i \in DOMAIN kept[n] : kept[n][i].state \in states
      BY <2>1, <2>5, <3>2
    <3> QED
      BY <3>2, <3>3
  <2>6. ASSUME cards[n].state \notin states PROVE Kept(n, kept[n])
    <3>1. kept[n] = o
      BY <2>3, <2>6
    <3> QED
      BY <2>1, <2>4, <2>6, <3>1
  <2> QED
    BY <2>1, <2>5, <2>6
<1> HIDE DEF B
<1>5. N \in B
  <2> HIDE DEF N
  <2>1. 0..N \subseteq B
    BY <1>2, <1>3, <1>4, InductionUpto
  <2> QED
    BY <1>2, <2>1
<1>6. Kept(N, Sift(cards, states))
  BY <1>1, <1>5 DEF B
<1> QED
  BY <1>6

\* A campaign that is listed has a place where it is listed first.
LEMMA FirstPlace ==
  ASSUME NEW cards \in Seq(CardSet), NEW c, NEW k \in DOMAIN cards, cards[k].campaign = c
  PROVE  /\ FirstAt(cards, c) \in DOMAIN cards
         /\ cards[FirstAt(cards, c)].campaign = c
         /\ FirstAt(cards, c) <= k
<1> DEFINE S == {i \in DOMAIN cards : cards[i].campaign = c}
           P(i) == cards[i].campaign = c /\ \A j \in DOMAIN cards : cards[j].campaign = c => i <= j
<1>1. PICK m \in S : \A j \in S : m <= j
  <2>1. S \in SUBSET Nat /\ S # {}
    OBVIOUS
  <2> HIDE DEF S
  <2> QED
    BY <2>1, Least
<1>2. m \in DOMAIN cards /\ P(m)
  BY <1>1
<1>3. FirstAt(cards, c) = CHOOSE i \in DOMAIN cards : P(i)
  BY DEF FirstAt
<1>4. FirstAt(cards, c) \in DOMAIN cards /\ P(FirstAt(cards, c))
  BY <1>2, <1>3
<1> QED
  BY <1>4

\* After n turns of the loop: what has been taken is among the first n cards, in the
\* order in which campaigns are first listed, and a campaign of these cards that has
\* not been taken came when the loop had taken enough.
Taken(cards, limit, n, o) ==
  /\ o \in Seq(CardSet)
  /\ \A i \in DOMAIN o : \E k \in 1..n : o[i] = cards[k]
  /\ \A i, j \in DOMAIN o :
       i < j => FirstAt(cards, o[i].campaign) < FirstAt(cards, o[j].campaign)
  /\ \A k \in 1..n :
       \/ \E i \in DOMAIN o : o[i].campaign = cards[k].campaign
       \/ /\ o # <<>> /\ Len(o) >= limit
          /\ FirstAt(cards, o[Len(o)].campaign) < FirstAt(cards, cards[k].campaign)
  /\ Len(o) <= 1 \/ Len(o) <= limit

\* A turn keeps this: the campaign it takes is one that is listed there first.
LEMMA TakeKeeps ==
  ASSUME NEW cards \in Seq(CardSet), NEW limit \in Nat, NEW n \in 1..Len(cards),
         NEW o, Taken(cards, limit, n - 1, o)
  PROVE  Taken(cards, limit, n, Take(o, cards[n], limit))
<1> DEFINE c == cards[n].campaign
           at == FirstAt(cards, c)
           full == o # <<>> /\ Len(o) >= limit
           has == \E i \in DOMAIN o : o[i].campaign = c
<1>1. n \in DOMAIN cards /\ n - 1 \in Nat /\ cards[n] \in CardSet /\ o \in Seq(CardSet)
  BY DEF Taken
<1>2. at \in 1..n /\ cards[at].campaign = c
  BY <1>1, FirstPlace
<1>3. \A i \in DOMAIN o :
        /\ FirstAt(cards, o[i].campaign) \in 1..(n-1)
        /\ \E k \in 1..(n-1) : o[i] = cards[k]
  <2> SUFFICES ASSUME NEW i \in DOMAIN o
               PROVE  /\ FirstAt(cards, o[i].campaign) \in 1..(n-1)
                      /\ \E k \in 1..(n-1) : o[i] = cards[k]
    OBVIOUS
  <2>1. PICK k \in 1..(n-1) : o[i] = cards[k]
    BY DEF Taken
  <2>2. k \in DOMAIN cards
    BY <1>1
  <2> QED
    BY <2>1, <2>2, FirstPlace
<1>4. \A k \in 1..n : k \in 1..(n-1) \/ k = n
  BY <1>1
<1>5. 1..(n-1) \subseteq 1..n
  BY <1>1
<1>6. at = n \/ at \in 1..(n-1)
  BY <1>1, <1>2
<1> HIDE DEF at, c
<1>7. at \in 1..(n-1) => has \/ (full /\ FirstAt(cards, o[Len(o)].campaign) < at)
  BY <1>2 DEF Taken, at
<1>8. o # <<>> => Len(o) \in DOMAIN o
  BY <1>1
<1>9. full => has \/ FirstAt(cards, o[Len(o)].campaign) < at
  BY <1>1, <1>3, <1>6, <1>7, <1>8
<1>10. ASSUME full \/ has PROVE Taken(cards, limit, n, Take(o, cards[n], limit))
  <2>1. Take(o, cards[n], limit) = o
    BY <1>10 DEF Take, c
  <2>2. \A k \in 1..n :
          \/ \E i \in DOMAIN o : o[i].campaign = cards[k].campaign
          \/ /\ o # <<>> /\ Len(o) >= limit
             /\ FirstAt(cards, o[Len(o)].campaign) < FirstAt(cards, cards[k].campaign)
    BY <1>4, <1>9, <1>10 DEF Taken, c, at
  <2>3. \A i \in DOMAIN o : \E k \in 1..n : o[i] = cards[k]
    BY <1>3, <1>5
  <2> QED
    BY <2>1, <2>2, <2>3 DEF Taken
<1>11. ASSUME ~full, ~has PROVE Taken(cards, limit, n, Take(o, cards[n], limit))
  <2> DEFINE p == Append(o, cards[n])
  <2>1. Take(o, cards[n], limit) = p
    BY <1>11 DEF Take, c
  <2>2. at = n
    BY <1>6, <1>7, <1>11
  <2>3. /\ p \in Seq(CardSet) /\ Len(p) = Len(o) + 1
        /\ DOMAIN p = 1..(Len(o) + 1) /\ DOMAIN o = 1..Len(o) /\ Len(o) \in Nat
        /\ \A i \in DOMAIN o : p[i] = o[i]
        /\ p[Len(o) + 1] = cards[n]
    BY <1>1, Appended
  <2> HIDE DEF p
  <2>4. \A i \in DOMAIN p : i \in DOMAIN o \/ i = Len(o) + 1
    BY <2>3
  <2>5. \A i \in DOMAIN p : \E k \in 1..n : p[i] = cards[k]
    BY <1>1, <1>3, <1>5, <2>3, <2>4
  <2>6. ASSUME NEW i \in DOMAIN p, NEW j \in DOMAIN p, i < j
        PROVE  FirstAt(cards, p[i].campaign) < FirstAt(cards, p[j].campaign)
    <3>1. i \in DOMAIN o
      BY <2>3, <2>6
    <3>2. CASE j \in DOMAIN o
      BY <2>3, <2>6, <3>1, <3>2 DEF Taken
    <3>3. CASE j = Len(o) + 1
      <4>1. FirstAt(cards, p[j].campaign) = n
        BY <2>2, <2>3, <3>3 DEF at, c
      <4>2. FirstAt(cards, p[i].campaign) \in 1..(n-1)
        BY <1>3, <2>3, <3>1
      <4> QED
        BY <1>1, <4>1, <4>2
    <3> QED
      BY <2>4, <3>2, <3>3
  <2>7. ASSUME NEW k \in 1..n PROVE \E i \in DOMAIN p : p[i].campaign = cards[k].campaign
    <3>1. CASE k = n
      <4>1. Len(o) + 1 \in DOMAIN p
        BY <2>3
      <4> QED
        BY <2>3, <3>1, <4>1
    <3>2. CASE k \in 1..(n-1)
      <4>1. PICK i \in DOMAIN o : o[i].campaign = cards[k].campaign
        BY <1>11, <3>2 DEF Taken
      <4> QED
        BY <2>3, <4>1
    <3> QED
      BY <1>4, <3>1, <3>2
  <2>8. Len(p) <= 1 \/ Len(p) <= limit
    BY <1>1, <1>11, <2>3
  <2> QED
    BY <2>1, <2>3, <2>5, <2>6, <2>7, <2>8 DEF Taken
<1> QED
  BY <1>10, <1>11

\* What a loop over cards lists, when it has gone through all of them.
LEMMA ListedTaken ==
  ASSUME NEW cards \in Seq(CardSet), NEW limit \in Nat
  PROVE  Taken(cards, limit, Len(cards), Listed(cards, limit))
<1> DEFINE N == Len(cards)
           out == Turns(cards, limit)
           B == {n \in 0..N : Taken(cards, limit, n, out[n])}
<1>1. N \in Nat /\ 0 \in 0..N
  OBVIOUS
<1>2. out[0] = <<>> /\ \A n \in 1..N : out[n] = Take(out[n-1], cards[n], limit)
  BY TurnsUnfold
<1> HIDE DEF out
<1>3. 0 \in B
  <2>1. <<>> \in Seq(CardSet) /\ DOMAIN <<>> = {} /\ Len(<<>>) = 0 /\ 1..0 = {}
    OBVIOUS
  <2>2. Taken(cards, limit, 0, <<>>)
    BY <2>1 DEF Taken
  <2> QED
    BY <1>1, <1>2, <2>2
<1>4. ASSUME NEW n \in 1..N, n - 1 \in B PROVE n \in B
  <2>1. Taken(cards, limit, n - 1, out[n-1]) /\ n \in 0..N
    BY <1>4
  <2>2. Taken(cards, limit, n, Take(out[n-1], cards[n], limit))
    BY <2>1, TakeKeeps
  <2> QED
    BY <1>2, <2>1, <2>2
<1> HIDE DEF B
<1>5. N \in B
  <2> HIDE DEF N
  <2>1. 0..N \subseteq B
    BY <1>1, <1>3, <1>4, InductionUpto
  <2> QED
    BY <1>1, <2>1
<1> QED
  BY <1>5 DEF B, out, Listed

\* The largest of a set of naturals is in it, and none is larger.
LEMMA LargestOf ==
  ASSUME NEW S \in SUBSET Nat, S # {}, IsFiniteSet(S)
  PROVE  Max(S) \in S /\ \A k \in S : k <= Max(S)
<1>1. PICK m \in S : \A k \in S : m >= k
  <2>1. PICK m \in S : \A k \in S : k <= m
    BY Greatest
  <2> QED
    BY <2>1
<1>2. Max(S) \in S /\ \A k \in S : Max(S) >= k
  BY <1>1 DEF Max
<1> QED
  BY <1>2

\* The same of the smallest.
LEMMA SmallestOf ==
  ASSUME NEW S \in SUBSET Nat, S # {}
  PROVE  Min(S) \in S /\ \A k \in S : Min(S) <= k
<1>1. PICK m \in S : \A k \in S : m <= k
  BY Least
<1> QED
  BY <1>1 DEF Min

-----------------------------------------------------------------------------
\* Questions are those the model asks.
THEOREM TypeCorrect == Spec => []TypeOK
<1>1. Init => TypeOK
  BY DEF Init, TypeOK
<1>2. TypeOK /\ [Next]_asked => TypeOK'
  <2> SUFFICES ASSUME TypeOK, [Next]_asked PROVE TypeOK'
    OBVIOUS
  <2>1. CASE UNCHANGED asked
    BY <2>1 DEF TypeOK
  <2>2. CASE Forget
    BY <2>2 DEF Forget, TypeOK
  <2>3. CASE AskLink
    <3>1. PICK l \in Links :
            \/ \E b \in Briefs : asked' = [about |-> "resolved", link |-> l, brief |-> b]
            \/ \E k \in {Kind(l), "none"} :
                 asked' = [about |-> "posted", link |-> l, kind |-> k]
      BY <2>3 DEF AskLink
    <3> QED
      BY <3>1 DEF TypeOK
  <2>4. CASE AskProvider
    BY <2>4 DEF AskProvider, TypeOK
  <2>5. CASE AskRules
    BY <2>5 DEF AskRules, TypeOK
  <2> QED
    BY <2>1, <2>2, <2>3, <2>4, <2>5 DEF Next, Ask
<1> QED
  BY <1>1, <1>2, PTL DEF Spec

\* The cards a discovery goes through are cards of the campaigns listed; as long as
\* the API has one that is open, they are those it converts.
LEMMA SourceCards ==
  ASSUME NEW api \in ApiSources, NEW rendered \in PageSources, NEW plain \in PageSources
  PROVE  LET source == CardsOf(api, rendered, plain)
         IN /\ source \in Seq(CardSet)
            /\ (\E i \in DOMAIN api.cards : api.cards[i].state = "open")
                 => \A i \in DOMAIN source : source[i].state # "closed"
<1>1. ASSUME NEW s, s \in SourcesOver(Campaigns)
      PROVE  s.cards \in Seq(CardSet) /\ (s.ok \/ s.cards = <<>>)
  <2>1. CASE s = Failed
    BY <2>1 DEF Failed
  <2>2. CASE s \in [ok : {TRUE}, cards : Seq(CardSet)]
    <3>1. s.ok = TRUE /\ s.cards \in Seq(CardSet)
      BY <2>2
    <3> QED
      BY <3>1
  <2> QED
    BY <1>1, <2>1, <2>2 DEF SourcesOver, CardSet
<1>2. /\ api \in SourcesOver(Campaigns) /\ rendered \in SourcesOver(Campaigns)
      /\ plain \in SourcesOver(Campaigns)
  BY RulesAssumption
<1>3. ApiCards(api) \in Seq(CardSet) /\ \A i \in DOMAIN ApiCards(api) :
                                          ApiCards(api)[i].state \in Converted
  BY <1>1, <1>2, SiftKeeps DEF ApiCards
<1>4. (\E i \in DOMAIN api.cards : api.cards[i].state = "open") => api.ok /\ ApiCards(api) # <<>>
  <2> SUFFICES ASSUME NEW i \in DOMAIN api.cards, api.cards[i].state = "open"
               PROVE  api.ok /\ ApiCards(api) # <<>>
    OBVIOUS
  <2>1. api.cards[i].state \in Converted
    BY DEF Converted
  <2>2. api.cards \in Seq(CardSet) /\ api.cards # <<>>
    BY <1>1, <1>2
  <2>3. ApiCards(api) # <<>>
    BY <2>1, <2>2, SiftKeeps DEF ApiCards
  <2> QED
    BY <1>1, <1>2, <2>2, <2>3
<1>5. PageCards(rendered) \in Seq(CardSet) /\ PageCards(plain) \in Seq(CardSet)
  BY <1>1, <1>2, SiftKeeps DEF PageCards
<1>6. CardsOf(api, rendered, plain) \in Seq(CardSet)
  BY <1>3, <1>5 DEF CardsOf, Fallback
<1>7. ASSUME \E i \in DOMAIN api.cards : api.cards[i].state = "open"
      PROVE  \A i \in DOMAIN CardsOf(api, rendered, plain) :
               CardsOf(api, rendered, plain)[i].state # "closed"
  <2>1. CardsOf(api, rendered, plain) = ApiCards(api)
    BY <1>4, <1>7 DEF CardsOf
  <2>2. \A i \in DOMAIN ApiCards(api) : ApiCards(api)[i].state # "closed"
    BY <1>3 DEF Converted
  <2> QED
    BY <2>1, <2>2
<1> QED
  BY <1>6, <1>7

\* Whatever the sources list and whatever the limit is, a discovery gives the
\* campaigns listed, each once, in the order in which they are first listed, without
\* a gap and up to the limit, and none that the API says is closed while it has an
\* open one.  By induction over the turns of the loop (Taken).
THEOREM DiscoveryIsFirstDistinctHolds == Spec => []DiscoveryIsFirstDistinct
<1>1. TypeOK => DiscoveryIsFirstDistinct
  <2> SUFFICES ASSUME TypeOK, asked.about = "listing" PROVE DiscoveryIsFirstDistinct
    BY DEF DiscoveryIsFirstDistinct
  <2>1. /\ asked.limit \in Limits /\ asked.api \in ApiSources
        /\ asked.rendered \in PageSources /\ asked.plain \in PageSources
    BY DEF TypeOK, Nothing
  <2>2. PICK limit \in Nat : limit = asked.limit
    BY <2>1, RulesAssumption
  <2>3. PICK api \in ApiSources, rendered \in PageSources, plain \in PageSources :
          api = asked.api /\ rendered = asked.rendered /\ plain = asked.plain
    BY <2>1
  <2> DEFINE source == CardsOf(api, rendered, plain)
             out == Discover(limit, api, rendered, plain)
             listed == {source[i].campaign : i \in DOMAIN source}
             open == \E i \in DOMAIN api.cards : api.cards[i].state = "open"
  <2>4. source \in Seq(CardSet) /\ (open => \A i \in DOMAIN source : source[i].state # "closed")
    BY SourceCards
  <2>5. Taken(source, limit, Len(source), out)
    BY <2>4, ListedTaken DEF Discover
  <2> HIDE DEF source, out, open
  <2>6. \A i, k \in DOMAIN out :
          i < k => FirstAt(source, out[i].campaign) < FirstAt(source, out[k].campaign)
    BY <2>5 DEF Taken
  <2>7. ASSUME NEW c \in listed
        PROVE  \/ \E i \in DOMAIN out : out[i].campaign = c
               \/ /\ out # <<>> /\ Len(out) >= limit
                  /\ FirstAt(source, out[Len(out)].campaign) < FirstAt(source, c)
    <3>1. PICK k \in 1..Len(source) : source[k].campaign = c
      BY <2>4, <2>7
    <3> QED
      BY <2>5, <3>1 DEF Taken
  <2>8. Len(out) <= Max({1, limit})
    <3>1. IsFiniteSet({1, limit})
      <4>1. IsFiniteSet({1} \cup {limit})
        BY FS_Singleton, FS_AddElement
      <4>2. {1} \cup {limit} = {1, limit}
        OBVIOUS
      <4> QED
        BY <4>1, <4>2
    <3>2. 1 <= Max({1, limit}) /\ limit <= Max({1, limit}) /\ Max({1, limit}) \in Nat
      BY <3>1, LargestOf
    <3>3. Len(out) \in Nat /\ (Len(out) <= 1 \/ Len(out) <= limit)
      BY <2>5 DEF Taken
    <3> QED
      BY <3>2, <3>3
  <2>9. open => \A i \in DOMAIN out : out[i].state # "closed"
    <3> SUFFICES ASSUME open, NEW i \in DOMAIN out PROVE out[i].state # "closed"
      OBVIOUS
    <3>1. PICK k \in 1..Len(source) : out[i] = source[k]
      BY <2>5 DEF Taken
    <3> QED
      BY <2>4, <3>1
  <2> QED
    BY <2>2, <2>3, <2>6, <2>7, <2>8, <2>9 DEF DiscoveryIsFirstDistinct, source, out, open
<1> QED
  BY <1>1, TypeCorrect, PTL

-----------------------------------------------------------------------------
\* The lengths of a text are finitely many numbers.
LEMMA DurationsFinite ==
  ASSUME NEW ms \in SUBSET Mentions
  PROVE  Durations(ms) \in SUBSET Nat /\ IsFiniteSet(Durations(ms))
<1> DEFINE low == [m \in ms |-> m.lo * m.unit]
           high == [m \in ms |-> m.hi * m.unit]
           Lows == {low[m] : m \in ms}
           Highs == {high[m] : m \in ms}
<1>1. IsFiniteSet(ms)
  BY RulesAssumption, FS_Subset
<1>2. low \in Surjection(ms, Lows) /\ high \in Surjection(ms, Highs)
  BY DEF Surjection
<1>3. IsFiniteSet(Lows) /\ IsFiniteSet(Highs)
  <2> HIDE DEF low, high, Lows, Highs
  <2> QED
    BY <1>1, <1>2, FS_Surjection
<1>4. Durations(ms) = Lows \cup Highs
  BY DEF Durations
<1>5. IsFiniteSet(Durations(ms))
  <2> HIDE DEF Lows, Highs
  <2> QED
    BY <1>3, <1>4, FS_Union
<1>6. ASSUME NEW m \in ms PROVE m.lo * m.unit \in Nat /\ m.hi * m.unit \in Nat
  <2>1. m.lo \in Nat /\ m.hi \in Nat /\ (m.unit = 1 \/ m.unit = 60)
    BY RulesAssumption
  <2> QED
    BY <2>1
<1> QED
  BY <1>5, <1>6 DEF Durations

\* A provider's window is not empty.
LEMMA DefaultWindow ==
  ASSUME NEW p
  PROVE  Defaults(p).min \in Nat /\ Defaults(p).max \in Nat /\ Defaults(p).min < Defaults(p).max
BY DEF Defaults, Default

\* The window holds every length that instructions mention, and its ends are the
\* shortest and the longest of them, but for the ten seconds it is given when it
\* would be empty; without a length it is the provider's.
LEMMA Window ==
  ASSUME NEW ms \in SUBSET Mentions, NEW text, text.mentions = ms, NEW p
  PROVE  LET spec == SpecOf(text, p)
             ds == Durations(ms)
         IN /\ spec.min \in Nat /\ spec.max \in Nat /\ spec.min < spec.max
            /\ ds # {} =>
                 /\ spec.min = Min(ds) /\ Min(ds) \in ds /\ Max(ds) \in ds
                 /\ \A s \in ds : Min(ds) <= s /\ s <= Max(ds)
                 /\ spec.max = IF Max(ds) = Min(ds) THEN Min(ds) + 10 ELSE Max(ds)
<1> DEFINE ds == Durations(ms)
           hints == Hints(text)
           d == Defaults(p)
<1>1. d.min \in Nat /\ d.max \in Nat /\ d.min < d.max
  BY DefaultWindow
<1>2. ds \in SUBSET Nat /\ IsFiniteSet(ds)
  BY DurationsFinite
<1>3. /\ hints.min = (IF ds = {} THEN NoLength ELSE Min(ds))
      /\ hints.max = (IF ds = {} THEN NoLength ELSE Max(ds))
  BY DEF Hints
<1> DEFINE min == Or(hints.min, NoLength, d.min)
           max == Or(hints.max, NoLength, d.max)
<1>4. SpecOf(text, p).min = min /\ SpecOf(text, p).max = (IF max <= min THEN min + 10 ELSE max)
  BY DEF SpecOf, Normalize
<1> HIDE DEF ds, hints, d
<1>5. CASE ds = {}
  <2>1. min = d.min /\ max = d.max
    BY <1>3, <1>5 DEF Or
  <2> QED
    BY <1>1, <1>4, <1>5, <2>1 DEF ds
<1>6. CASE ds # {}
  <2>1. Min(ds) \in ds /\ Max(ds) \in ds /\ \A s \in ds : Min(ds) <= s /\ s <= Max(ds)
    BY <1>2, <1>6, LargestOf, SmallestOf
  <2>2. Min(ds) \in Nat /\ Max(ds) \in Nat /\ Min(ds) <= Max(ds)
    BY <1>2, <2>1
  <2>3. min = Min(ds) /\ max = Max(ds)
    BY <1>3, <1>6, <2>2 DEF Or, NoLength
  <2> HIDE DEF min, max
  <2> QED
    BY <1>4, <2>1, <2>2, <2>3 DEF ds
<1> QED
  BY <1>5, <1>6

\* Whatever lengths instructions mention, the window of the specification is not
\* empty and holds them all, and a clip that validate_proposal lets through is within
\* a tenth of the shortest and the longest of them; the quality check measures the
\* format that is named.
THEOREM InstructionsRespectedHolds == Spec => []InstructionsRespected
<1>1. TypeOK => InstructionsRespected
  <2> SUFFICES ASSUME TypeOK, asked.about = "rules" PROVE InstructionsRespected
    BY DEF InstructionsRespected
  <2>1. /\ asked.text.mentions \in SUBSET Mentions
        /\ asked.text.format \in {"9:16", "1:1", "16:9", Unset}
    BY DEF TypeOK, Nothing
  <2>2. PICK text, p : text = asked.text /\ p = asked.provider
    OBVIOUS
  <2>3. PICK ms \in SUBSET Mentions : ms = text.mentions
    BY <2>1, <2>2
  <2> DEFINE spec == SpecOf(text, p)
             ds == Durations(ms)
             slack == IF Cardinality(ds) = 1 THEN 10 ELSE 0
  <2>4. /\ spec.min \in Nat /\ spec.max \in Nat /\ spec.min < spec.max
        /\ ds # {} =>
             /\ spec.min = Min(ds) /\ Min(ds) \in ds /\ Max(ds) \in ds
             /\ \A s \in ds : Min(ds) <= s /\ s <= Max(ds)
             /\ spec.max = IF Max(ds) = Min(ds) THEN Min(ds) + 10 ELSE Max(ds)
    BY <2>3, Window
  <2>5. ds \in SUBSET Nat /\ IsFiniteSet(ds)
    BY DurationsFinite
  <2>6. ds = UNION {{m.lo * m.unit, m.hi * m.unit} : m \in text.mentions}
    BY <2>3 DEF Durations
  <2>7. text.format # Unset => spec.qa = Frame(text.format)
    BY DEF SpecOf, Normalize, Hints, Or
  <2>8. ds # {} => spec.max <= Max(ds) + slack
    <3> SUFFICES ASSUME ds # {} PROVE spec.max <= Max(ds) + slack
      OBVIOUS
    <3>1. Min(ds) \in Nat /\ Max(ds) \in Nat
      BY <2>4, <2>5
    <3> HIDE DEF spec, ds
    <3>2. CASE Max(ds) = Min(ds)
      <4>1. ds = {Min(ds)}
        <5>1. ASSUME NEW s \in ds PROVE s = Min(ds)
          BY <2>4, <2>5, <3>1, <3>2
        <5> QED
          BY <2>4, <5>1
      <4>2. slack = 10
        BY <2>5, <4>1, FS_Singleton
      <4> QED
        BY <2>4, <3>1, <3>2, <4>2
    <3>3. CASE Max(ds) # Min(ds)
      BY <2>4, <3>1, <3>3
    <3> QED
      BY <3>2, <3>3
  <2> HIDE DEF spec, ds, slack
  <2>9. slack \in Nat
    BY DEF slack
  <2>10. ds \subseteq spec.min..spec.max
    <3> SUFFICES ASSUME NEW s \in ds PROVE s \in spec.min..spec.max
      OBVIOUS
    <3> QED
      BY <2>4, <2>5
  <2>11. ASSUME NEW n \in Lengths, ds # {}, Fits(n, spec)
         PROVE  /\ \E s \in ds : 10 * n >= 9 * s
                /\ \E s \in ds : 10 * n <= 11 * (s + slack)
    <3>1. n \in Nat /\ Min(ds) \in Nat /\ Max(ds) \in Nat
      BY <2>4, <2>5, <2>11, RulesAssumption
    <3>2. 10 * n >= 9 * Min(ds)
      BY <2>4, <2>11 DEF Fits
    <3>3. 10 * n <= 11 * (Max(ds) + slack)
      BY <2>4, <2>8, <2>9, <2>11, <3>1 DEF Fits
    <3> QED
      BY <2>4, <2>11, <3>2, <3>3
  <2> QED
    BY <2>2, <2>4, <2>6, <2>7, <2>10, <2>11 DEF InstructionsRespected, spec, slack
<1> QED
  BY <1>1, TypeCorrect, PTL

-----------------------------------------------------------------------------
\* The links there are, by site.
LEMMA LinkForms ==
  ASSUME NEW l \in Links
  PROVE  \/ l.site = "drive" /\ l.path \in {"file", "open", "uc"} /\ l.user = FALSE
         \/ l.site = "drive" /\ l.path \in {"folders", "filefolders"}
         \/ /\ l.site = "docs"
            /\ l.path \in {"document", "presentation", "forms", "drawings", "spreadsheets"}
         \/ l.site = "youtube" /\ l.path \in {"watch", "shorts", "profile"} /\ l.user = FALSE
         \/ l.site = "tiktok" /\ l.path \in {"video", "profile"} /\ l.user = FALSE
         \/ l.site = "instagram" /\ l.path \in {"post", "reel", "profile"} /\ l.user = FALSE
         \/ /\ l.site = "dropbox" /\ l.path \in {"file", "folder", "oldfolder", "pdf"}
            /\ l.user = FALSE
         \/ l.site = "mega" /\ l.path \in {"file", "folder"} /\ l.user = FALSE
         \/ l.site = "vimeo" /\ l.path = "file" /\ l.user = FALSE
         \/ l.site = "web" /\ l.path \in {"media", "pdf", "page"} /\ l.user = FALSE
<1>1. CASE l \in DriveLinks
  BY <1>1 DEF DriveLinks, Link
<1>2. CASE l \in DocsLinks
  BY <1>2 DEF DocsLinks, Link
<1>3. CASE \/ l \in Plain("youtube", {"watch", "shorts", "profile"})
           \/ l \in Plain("tiktok", {"video", "profile"})
           \/ l \in Plain("instagram", {"post", "reel", "profile"})
  BY <1>3 DEF Plain, Link
<1>4. CASE \/ l \in Plain("dropbox", {"file", "folder", "oldfolder", "pdf"})
           \/ l \in Plain("mega", {"file", "folder"}) \/ l \in Plain("vimeo", {"file"})
           \/ l \in Plain("web", {"media", "pdf", "page"})
  BY <1>4 DEF Plain, Link
<1> QED
  BY <1>1, <1>2, <1>3, <1>4 DEF Links

\* Links to a drive are the DriveLinks.
LEMMA DriveLink ==
  ASSUME NEW l \in Links, l.site = "drive"
  PROVE  l \in DriveLinks
<1>1. l \notin DocsLinks
  BY DEF DocsLinks, Link
<1>2. /\ l \notin Plain("youtube", {"watch", "shorts", "profile"})
      /\ l \notin Plain("tiktok", {"video", "profile"})
      /\ l \notin Plain("instagram", {"post", "reel", "profile"})
      /\ l \notin Plain("dropbox", {"file", "folder", "oldfolder", "pdf"})
      /\ l \notin Plain("mega", {"file", "folder"}) /\ l \notin Plain("vimeo", {"file"})
      /\ l \notin Plain("web", {"media", "pdf", "page"})
  BY DEF Plain, Link
<1> QED
  BY <1>1, <1>2 DEF Links

\* The row the resolver makes of a link as it is spelled becomes a job if its type,
\* its status, its kind, the filters and the constraint all let it.
LEMMA RowBecomesJob ==
  ASSUME NEW u, NEW answer,
         NEW row, row = [link |-> u, kind |-> Kind(u), type |-> Type(u),
                         skip |-> Type(u) \in {"document", "folder"},
                         status |-> IF IsBrief(u) /\ HasText(u, answer) THEN "downloaded"
                                    ELSE IF Type(u) \in {"document", "folder"} THEN "failed"
                                    ELSE "pending"]
  PROVE  BecomesJob(row) <=>
           /\ Type(u) \notin {"document", "folder"}
           /\ ~(IsBrief(u) /\ HasText(u, answer))
           /\ Kind(u) \notin FolderKinds
           /\ LooksLikeVideo(u) /\ ~LooksLikeNoVideo(u) /\ ~Refused(u)
<1> DEFINE brief == IsBrief(u) /\ HasText(u, answer)
<1>1. /\ row.link = u /\ row.kind = Kind(u) /\ row.type = Type(u)
      /\ row.skip <=> Type(u) \in {"document", "folder"}
      /\ row.status = (IF brief THEN "downloaded"
                       ELSE IF Type(u) \in {"document", "folder"} THEN "failed"
                       ELSE "pending")
  OBVIOUS
<1> HIDE DEF brief
<1>2. row.status = "pending" <=> Type(u) \notin {"document", "folder"} /\ ~brief
  BY <1>1
<1> QED
  BY <1>1, <1>2 DEF BecomesJob, Skippable, RealVideo, brief

\* Of a link that is stored as it is, the same.
LEMMA ResolvedBecomesJob ==
  ASSUME NEW l, NEW u, NEW answer, Canonical(l) = {u}
  PROVE  (\E row \in Resolved(l, answer) : BecomesJob(row)) <=>
           /\ Type(u) \notin {"document", "folder"}
           /\ ~(IsBrief(u) /\ HasText(u, answer))
           /\ Kind(u) \notin FolderKinds
           /\ LooksLikeVideo(u) /\ ~LooksLikeNoVideo(u) /\ ~Refused(u)
<1> DEFINE R == [link |-> u, kind |-> Kind(u), type |-> Type(u),
                 skip |-> Type(u) \in {"document", "folder"},
                 status |-> IF IsBrief(u) /\ HasText(u, answer) THEN "downloaded"
                            ELSE IF Type(u) \in {"document", "folder"} THEN "failed"
                            ELSE "pending"]
<1>1. Resolved(l, answer) = {R}
  BY DEF Resolved
<1>2. (\E row \in Resolved(l, answer) : BecomesJob(row)) <=> BecomesJob(R)
  <2> HIDE DEF R
  <2> QED
    BY <1>1
<1> QED
  BY <1>2, RowBecomesJob

\* A drive link as the resolver stores it: not at all, spelled for download, or as it
\* is.
LEMMA DriveCanonical ==
  ASSUME NEW l \in Links, l.site = "drive"
  PROVE  /\ l.path \in {"folders", "filefolders"} /\ l.tidy => Canonical(l) = {}
         /\ l.path = "file" /\ l.tidy =>
              \E u : u.site = "drive" /\ u.path = "uc" /\ u.user = l.user /\ Canonical(l) = {u}
         /\ ~l.tidy \/ l.path \in {"open", "uc"} => Canonical(l) = {l}
<1>1. l \in DriveLinks
  BY DriveLink
<1>2. ASSUME l.path = "file", l.tidy
      PROVE  \E u : u.site = "drive" /\ u.path = "uc" /\ u.user = l.user /\ Canonical(l) = {u}
  <2> DEFINE u == [l EXCEPT !.path = "uc"]
  <2>1. u.site = "drive" /\ u.path = "uc" /\ u.user = l.user
    BY <1>1 DEF DriveLinks, Link
  <2>2. Canonical(l) = {u}
    BY <1>2 DEF Canonical
  <2> QED
    BY <2>1, <2>2
<1>3. l.path \in {"folders", "filefolders"} /\ l.tidy => Canonical(l) = {}
  BY DEF Canonical
<1>4. ~l.tidy \/ l.path \in {"open", "uc"} => Canonical(l) = {l}
  BY DEF Canonical
<1> QED
  BY <1>2, <1>3, <1>4

\* Of every other site, a link is stored as it is.
LEMMA OtherCanonical ==
  ASSUME NEW l, l.site # "drive"
  PROVE  Canonical(l) = {l}
BY DEF Canonical

\* A resolved link becomes a download if it is one to a video all the tests know, and
\* only if it is a video, a folder in an unknown form, or a PDF on Dropbox that
\* nothing was read from.
LEMMA ResolvedFootage ==
  ASSUME NEW l \in Links, NEW answer
  PROVE  LET taken == \E row \in Resolved(l, answer) : BecomesJob(row)
         IN /\ Agreed(l) => taken
            /\ taken => \/ Footage(l) \/ UnknownFolder(l)
                        \/ l.site = "dropbox" /\ l.path = "pdf" /\ ~HasText(l, answer)
<1> DEFINE taken == \E row \in Resolved(l, answer) : BecomesJob(row)
           Goal == /\ Agreed(l) => taken
                   /\ taken => \/ Footage(l) \/ UnknownFolder(l)
                               \/ /\ l.site = "dropbox" /\ l.path = "pdf"
                                  /\ ~HasText(l, answer)
           Job(u) == /\ Type(u) \notin {"document", "folder"}
                     /\ ~(IsBrief(u) /\ HasText(u, answer))
                     /\ Kind(u) \notin FolderKinds
                     /\ LooksLikeVideo(u) /\ ~LooksLikeNoVideo(u) /\ ~Refused(u)
<1> SUFFICES Goal
  OBVIOUS
<1>1. ASSUME NEW u, Canonical(l) = {u} PROVE taken <=> Job(u)
  BY <1>1, ResolvedBecomesJob
<1>2. Canonical(l) = {} => ~taken
  BY DEF Resolved
<1> HIDE DEF taken
<1>3. l.site # "drive" => (taken <=> Job(l))
  BY <1>1, OtherCanonical
<1>4. CASE l.site = "drive" /\ l.path \in {"file", "open", "uc"} /\ l.user = FALSE
  <2>1. CASE l.path = "file" /\ l.tidy
    <3>1. PICK u : u.site = "drive" /\ u.path = "uc" /\ u.user = FALSE /\ Canonical(l) = {u}
      BY <1>4, <2>1, DriveCanonical
    <3>2. Kind(u) = "drive" /\ Type(u) = "video" /\ ~IsBrief(u)
      BY <3>1 DEF Kind, Type, IsBrief
    <3>3. Job(u)
      BY <3>1, <3>2 DEF FolderKinds, LooksLikeVideo, LooksLikeNoVideo, Refused
    <3>4. Footage(l)
      BY <1>4, <2>1 DEF Footage
    <3> QED
      BY <1>1, <1>4, <3>1, <3>3, <3>4
  <2>2. CASE ~(l.path = "file" /\ l.tidy)
    <3>1. ~l.tidy \/ l.path \in {"open", "uc"}
      BY <1>4, <2>2
    <3>2. taken <=> Job(l)
      BY <1>1, <1>4, <3>1, DriveCanonical
    <3>3. Kind(l) = "drive" /\ Type(l) = "video" /\ ~IsBrief(l)
      BY <1>4 DEF Kind, Type, IsBrief
    <3>4. Job(l) <=> l.path # "file"
      BY <1>4, <3>3 DEF FolderKinds, LooksLikeVideo, LooksLikeNoVideo, Refused
    <3>5. Footage(l) /\ (Agreed(l) => l.path # "file")
      BY <1>4, <2>2 DEF Footage, Agreed
    <3> QED
      BY <1>4, <3>2, <3>4, <3>5
  <2> QED
    BY <2>1, <2>2
<1>5. CASE l.site = "drive" /\ l.path \in {"folders", "filefolders"}
  <2>1. ~Agreed(l)
    BY <1>5 DEF Agreed, Footage
  <2>2. CASE l.tidy
    BY <1>2, <1>5, <2>1, <2>2, DriveCanonical
  <2>3. CASE ~l.tidy
    <3>1. taken <=> Job(l)
      BY <1>1, <1>5, <2>3, DriveCanonical
    <3>2. l.user => LooksLikeNoVideo(l)
      BY <1>5 DEF LooksLikeNoVideo
    <3>3. ~l.user => Kind(l) \in FolderKinds
      BY <1>5 DEF Kind, FolderKinds
    <3> QED
      BY <1>5, <2>1, <3>1, <3>2, <3>3
  <2> QED
    BY <2>2, <2>3
<1>6. CASE l.site = "docs" /\ l.path \in {"document", "presentation", "forms", "drawings", "spreadsheets"}
  <2>1. Type(l) = "document" /\ ~Agreed(l)
    BY <1>6 DEF Type, Kind, Agreed, Footage
  <2> QED
    BY <1>3, <1>6, <2>1
<1>7. CASE l.site = "youtube" /\ l.path \in {"watch", "shorts", "profile"} /\ l.user = FALSE
  <2>1. Kind(l) = "youtube" /\ Type(l) = "video" /\ ~IsBrief(l)
    BY <1>7 DEF Kind, Type, IsBrief
  <2>2. Job(l) <=> l.path # "profile"
    BY <1>7, <2>1 DEF FolderKinds, LooksLikeVideo, LooksLikeNoVideo, Refused
  <2>3. Footage(l) <=> l.path # "profile"
    BY <1>7 DEF Footage
  <2> QED
    BY <1>3, <1>7, <2>2, <2>3 DEF Agreed
<1>8. CASE l.site = "tiktok" /\ l.path \in {"video", "profile"} /\ l.user = FALSE
  <2>1. LooksLikeNoVideo(l) /\ ~Agreed(l)
    BY <1>8 DEF LooksLikeNoVideo, Agreed
  <2> QED
    BY <1>3, <1>8, <2>1
<1>9. CASE l.site = "instagram" /\ l.path \in {"post", "reel", "profile"} /\ l.user = FALSE
  <2>1. Kind(l) = "external" /\ Type(l) = "video" /\ ~IsBrief(l)
    BY <1>9 DEF Kind, Type, IsBrief
  <2>2. Job(l) <=> l.path # "profile"
    BY <1>9, <2>1 DEF FolderKinds, LooksLikeVideo, LooksLikeNoVideo, Refused
  <2>3. Footage(l) <=> l.path # "profile"
    BY <1>9 DEF Footage
  <2> QED
    BY <1>3, <1>9, <2>2, <2>3 DEF Agreed
<1>10. CASE /\ l.site = "dropbox" /\ l.path \in {"file", "folder", "oldfolder", "pdf"}
            /\ l.user = FALSE
  <2>1. CASE l.path = "pdf"
    <3>1. IsBrief(l) /\ ~Agreed(l)
      BY <1>10, <2>1 DEF IsBrief, Agreed, Footage
    <3> QED
      BY <1>3, <1>10, <2>1, <3>1
  <2>2. CASE l.path = "folder"
    <3>1. Kind(l) \in FolderKinds /\ ~Agreed(l)
      BY <1>10, <2>2 DEF Kind, FolderKinds, Agreed, Footage
    <3> QED
      BY <1>3, <1>10, <2>2, <3>1
  <2>3. CASE l.path = "oldfolder"
    <3>1. UnknownFolder(l) /\ ~Agreed(l)
      BY <1>10, <2>3 DEF UnknownFolder, Agreed, Footage
    <3> QED
      BY <3>1
  <2>4. CASE l.path = "file"
    <3>1. Kind(l) = "dropbox" /\ Type(l) = "video" /\ ~IsBrief(l)
      BY <1>10, <2>4 DEF Kind, Type, IsBrief
    <3>2. Job(l) /\ Footage(l)
      BY <1>10, <2>4, <3>1
         DEF FolderKinds, LooksLikeVideo, LooksLikeNoVideo, Refused, Footage
    <3> QED
      BY <1>3, <1>10, <2>4, <3>2
  <2> QED
    BY <1>10, <2>1, <2>2, <2>3, <2>4
<1>11. CASE l.site \in {"mega", "vimeo"} /\ l.path = "file" /\ l.user = FALSE
  <2>1. Kind(l) \in {"mega", "external"} /\ Type(l) = "video" /\ ~IsBrief(l)
    BY <1>11 DEF Kind, Type, IsBrief
  <2>2. Job(l) /\ Footage(l)
    BY <1>11, <2>1
       DEF FolderKinds, LooksLikeVideo, LooksLikeNoVideo, Refused, Footage
  <2> QED
    BY <1>3, <1>11, <2>2
<1>13. CASE l.site = "mega" /\ l.path = "folder"
  <2>1. UnknownFolder(l) /\ ~Agreed(l)
    BY <1>13 DEF UnknownFolder, Agreed, Footage
  <2> QED
    BY <2>1
<1>12. CASE l.site = "web" /\ l.path \in {"media", "pdf", "page"} /\ l.user = FALSE
  <2>1. LooksLikeVideo(l) <=> l.path = "media"
    BY <1>12 DEF LooksLikeVideo
  <2>2. Footage(l) <=> l.path = "media"
    BY <1>12 DEF Footage
  <2>3. l.path = "media" => Job(l)
    <3> SUFFICES ASSUME l.path = "media" PROVE Job(l)
      OBVIOUS
    <3>1. Kind(l) = "external" /\ Type(l) = "video" /\ ~IsBrief(l)
      BY <1>12 DEF Kind, Type, IsBrief
    <3> QED
      BY <1>12, <3>1 DEF FolderKinds, LooksLikeVideo, LooksLikeNoVideo, Refused
  <2> QED
    BY <1>3, <1>12, <2>1, <2>2, <2>3 DEF Agreed
<1> QED
  BY <1>4, <1>5, <1>6, <1>7, <1>8, <1>9, <1>10, <1>11, <1>12, <1>13, LinkForms

\* A link that is posted as a video does not become a download if it is a folder, but
\* for one in an unknown form and a filefolders link without its kind.
LEMMA PostedFootage ==
  ASSUME NEW l \in Links, NEW kind \in {Kind(l), "none"}, BecomesJob(Posted(l, kind))
  PROVE  ~Folder(l) \/ UnknownFolder(l) \/ (l.path = "filefolders" /\ kind = "none")
<1>1. kind \notin FolderKinds /\ ~LooksLikeNoVideo(l) /\ ~Refused(l)
  BY DEF BecomesJob, Skippable, Posted
<1>2. CASE l.path = "oldfolder"
  BY <1>2 DEF UnknownFolder
<1>3. CASE l.path = "folder"
  <2>1. l.site \in {"dropbox", "mega"}
    BY <1>3, LinkForms
  <2> QED
    BY <1>1, <1>3, <2>1 DEF Refused, Kind, UnknownFolder
<1>4. CASE l.path \in {"folders", "filefolders"}
  <2>1. l.site = "drive"
    BY <1>4, LinkForms
  <2>2. ~l.user /\ l.path = "filefolders"
    BY <1>1, <1>4, <2>1 DEF LooksLikeNoVideo
  <2>3. Kind(l) \in FolderKinds
    BY <2>1, <2>2 DEF Kind, FolderKinds
  <2> QED
    BY <1>1, <2>2, <2>3
<1> QED
  BY <1>2, <1>3, <1>4 DEF Folder

\* Whatever a brief answers, a resolved link becomes a download if the tests agree that
\* it is one to a video, and only if it is a video, a folder in an unknown form or an
\* unread PDF on Dropbox; and no folder posted as a video does, but for those forms
\* and a filefolders link without its kind.
THEOREM OnlyFootageIsDownloadedHolds == Spec => []OnlyFootageIsDownloaded
<1>1. TypeOK => OnlyFootageIsDownloaded
  <2> SUFFICES ASSUME TypeOK PROVE OnlyFootageIsDownloaded
    OBVIOUS
  <2>1. ASSUME asked.about = "resolved"
        PROVE  LET l == asked.link
                   taken == \E row \in Resolved(l, asked.brief) : BecomesJob(row)
               IN /\ Agreed(l) => taken
                  /\ taken => \/ Footage(l) \/ UnknownFolder(l)
                              \/ /\ l.site = "dropbox" /\ l.path = "pdf"
                                 /\ ~HasText(l, asked.brief)
    <3>1. asked.link \in Links
      BY <2>1 DEF TypeOK, Nothing
    <3> QED
      BY <3>1, ResolvedFootage
  <2>2. ASSUME asked.about = "posted", BecomesJob(Posted(asked.link, asked.kind))
        PROVE  \/ ~Folder(asked.link) \/ UnknownFolder(asked.link)
               \/ asked.link.path = "filefolders" /\ asked.kind = "none"
    <3>1. asked.link \in Links /\ asked.kind \in {Kind(asked.link), "none"}
      BY <2>2 DEF TypeOK, Nothing
    <3> QED
      BY <2>2, <3>1, PostedFootage
  <2> QED
    BY <2>1, <2>2 DEF OnlyFootageIsDownloaded
<1> QED
  BY <1>1, TypeCorrect, PTL
=============================================================================

------------------------- MODULE ModForkzstreamProofs -------------------------
(***************************************************************************)
(* Theorems about the module, for any number of calls, any data they give  *)
(* to the application and any number of commands.  First, what cutting a   *)
(* command into words and joining them again gives; then, what a command   *)
(* does to the calls.                                                      *)
(***************************************************************************)
EXTENDS ModForkzstream, NumberFacts, SequenceTheorems

-----------------------------------------------------------------------------
(* The rank of a number in a set.                                          *)
Rank(S, i) == Cardinality({j \in S : j <= i})

LEMMA RankType ==
  ASSUME NEW S \in SUBSET Nat, IsFiniteSet(S), NEW i \in Nat
  PROVE  /\ IsFiniteSet({j \in S : j <= i})
         /\ Rank(S, i) \in Nat /\ Rank(S, i) <= Cardinality(S)
<1>1. {j \in S : j <= i} \in SUBSET S
  OBVIOUS
<1>2. /\ IsFiniteSet({j \in S : j <= i})
      /\ Cardinality({j \in S : j <= i}) <= Cardinality(S)
  BY <1>1, FS_Subset, Zenon
<1> QED  BY <1>2, FS_CardinalityType DEF Rank

(* A greater member has a greater rank, so ranks tell members apart.       *)
LEMMA RankGrows ==
  ASSUME NEW S \in SUBSET Nat, IsFiniteSet(S), NEW i \in S, NEW m \in S, i < m
  PROVE  Rank(S, i) < Rank(S, m)
<1> DEFINE A == {j \in S : j <= i}
           B == {j \in S : j <= m}
<1>1. A \in SUBSET B /\ m \in B /\ m \notin A
  <2>1. \A j \in S : j <= i => j <= m
    OBVIOUS
  <2>2. A \subseteq B
    BY <2>1
  <2>3. m \in B /\ m \notin A
    OBVIOUS
  <2> QED  BY <2>2, <2>3
<1>2. IsFiniteSet(B) /\ Rank(S, i) \in Nat /\ Rank(S, m) \in Nat
  BY RankType
<1> HIDE DEF A, B
<1>3. Cardinality(A) <= Cardinality(B) /\ Cardinality(A) # Cardinality(B)
  BY <1>1, <1>2, FS_Subset
<1> QED  BY <1>2, <1>3 DEF Rank, A, B

(* Every rank up to the cardinality is that of a member.                   *)
LEMMA RankExists ==
  ASSUME NEW S \in SUBSET Nat, IsFiniteSet(S), NEW k \in 1..Cardinality(S)
  PROVE  \E i \in S : Rank(S, i) = k
<1> DEFINE n == Cardinality(S)
           K == {r \in 1..n : \E i \in S : Rank(S, i) = r}
<1>0. n \in Nat
  BY FS_CardinalityType
<1>1. 1 \in K
  <2>1. S # {}
    BY <1>0, FS_EmptySet
  <2>2. PICK m \in S : \A j \in S : m <= j
    BY <2>1, LeastNumber
  <2>3. {j \in S : j <= m} = {m}
    <3>1. \A j \in S : j <= m <=> j = m
      BY <2>2
    <3> QED  BY <3>1
  <2>4. Rank(S, m) = 1
    BY <2>3, FS_Singleton DEF Rank
  <2> QED  BY <1>0, <2>4
<1>2. ASSUME NEW r \in 1..n, r \in K, r < n PROVE r + 1 \in K
  <2>1. PICK i \in S : Rank(S, i) = r
    BY <1>2
  <2> DEFINE A == {j \in S : j <= i}
             U == {j \in S : j > i}
  <2>2. U # {}
    <3>1. U = {} => A = S
      <4>1. \A j \in S : j > i \/ j <= i
        OBVIOUS
      <4> QED  BY <4>1
    <3> HIDE DEF A, U
    <3> QED  BY <1>2, <2>1, <3>1 DEF Rank, A
  <2>3. PICK m \in U : \A j \in U : m <= j
    <3>1. U \in SUBSET Nat
      OBVIOUS
    <3> HIDE DEF U
    <3> QED  BY <2>2, <3>1, LeastNumber
  <2>4. {j \in S : j <= m} = A \cup {m} /\ m \notin A /\ m \in S
    <3>1. m \in S /\ m > i /\ \A j \in S : j > i => m <= j
      BY <2>3
    <3>2. \A j \in S : j <= m <=> j <= i \/ j = m
      BY <3>1
    <3>3. ~(m <= i)
      BY <3>1
    <3> QED  BY <3>1, <3>2, <3>3
  <2>5. IsFiniteSet(A) /\ Cardinality(A) = r
    BY <2>1, RankType DEF Rank
  <2> HIDE DEF A
  <2>6. Cardinality(A \cup {m}) = r + 1
    BY <2>4, <2>5, FS_AddElement
  <2>7. Rank(S, m) = r + 1
    BY <2>4, <2>6 DEF Rank
  <2> QED  BY <1>0, <1>2, <2>4, <2>7
<1> HIDE DEF K
<1>3. 1..n \subseteq K
  BY <1>0, <1>1, <1>2, SetInduction
<1> QED  BY <1>3 DEF K

(* The members of a set in their order.                                    *)
LEMMA NthFacts ==
  ASSUME NEW S \in SUBSET Nat, IsFiniteSet(S)
  PROVE  /\ \A k \in 1..Cardinality(S) : Nth(S, k) \in S
         /\ \A k, l \in 1..Cardinality(S) : k < l => Nth(S, k) < Nth(S, l)
         /\ \A k \in 1..Cardinality(S), i \in S :
              k < Cardinality(S) => i <= Nth(S, k) \/ i >= Nth(S, k + 1)
<1> DEFINE n == Cardinality(S)
<1>0. n \in Nat
  BY FS_CardinalityType
<1>1. ASSUME NEW k \in 1..n PROVE Nth(S, k) \in S /\ Rank(S, Nth(S, k)) = k
  <2>1. \E i \in S : Cardinality({j \in S : j <= i}) = k
    BY RankExists DEF Rank
  <2> QED  BY <2>1 DEF Nth, Rank
<1>2. \A i, m \in S : Rank(S, i) < Rank(S, m) => i < m
  <2>1. ASSUME NEW i \in S, NEW m \in S, Rank(S, i) < Rank(S, m) PROVE i < m
    <3>1. Rank(S, i) \in Nat /\ Rank(S, m) \in Nat
      BY RankType
    <3>2. m < i => Rank(S, m) < Rank(S, i)
      BY RankGrows
    <3> QED  BY <2>1, <3>1, <3>2
  <2> QED  BY <2>1
<1>3. ASSUME NEW k \in 1..n, NEW i \in S, k < n
      PROVE  i <= Nth(S, k) \/ i >= Nth(S, k + 1)
  <2>1. /\ Nth(S, k) \in S /\ Rank(S, Nth(S, k)) = k
        /\ Nth(S, k + 1) \in S /\ Rank(S, Nth(S, k + 1)) = k + 1
    <3>1. k + 1 \in 1..n
      BY <1>0, <1>3
    <3> QED  BY <1>1, <3>1
  <2>2. Rank(S, i) \in Nat
    BY RankType
  <2>3. Nth(S, k) < i => k < Rank(S, i)
    BY <2>1, RankGrows
  <2>4. i < Nth(S, k + 1) => Rank(S, i) < k + 1
    BY <2>1, RankGrows
  <2>5. ~(k < Rank(S, i) /\ Rank(S, i) < k + 1)
    BY <1>0, <2>2
  <2>6. i \in Nat /\ Nth(S, k) \in Nat /\ Nth(S, k + 1) \in Nat
    BY <2>1
  <2> QED  BY <2>3, <2>4, <2>5, <2>6
<1>4. ASSUME NEW k \in 1..n, NEW l \in 1..n, k < l
      PROVE  Nth(S, k) < Nth(S, l)
  <2>1. /\ Nth(S, k) \in S /\ Rank(S, Nth(S, k)) = k
        /\ Nth(S, l) \in S /\ Rank(S, Nth(S, l)) = l
    BY <1>1
  <2> QED  BY <1>2, <1>4, <2>1
<1> QED  BY <1>1, <1>3, <1>4

-----------------------------------------------------------------------------
(* From a token that is no blank on there is an end of its word.           *)
LEMMA EndFromFacts ==
  ASSUME NEW T, NEW data \in Seq(T), NEW i \in 1..Len(data), data[i] # Blank
  PROVE  /\ EndFrom(data, i) \in i..Len(data)
         /\ \A m \in i..EndFrom(data, i) : data[m] # Blank
         /\ \/ EndFrom(data, i) = Len(data)
            \/ data[EndFrom(data, i) + 1] = Blank
<1> DEFINE U == {j \in i..Len(data) : j = Len(data) \/ data[j + 1] = Blank}
<1>1. Len(data) \in U /\ U \in SUBSET Nat
  OBVIOUS
<1>2. PICK j \in U : \A k \in U : j <= k
  <2> HIDE DEF U
  <2> QED  BY <1>1, LeastNumber
<1>3. ASSUME NEW m \in i..j, data[m] = Blank PROVE FALSE
  <2>1. m - 1 \in i..Len(data) /\ (m - 1) + 1 = m /\ m - 1 < j
    BY <1>2, <1>3
  <2>2. m - 1 \in U /\ j \in Int /\ m \in Int
    BY <1>1, <1>2, <1>3, <2>1
  <2> HIDE DEF U
  <2>3. j <= m - 1
    BY <1>2, <2>2
  <2> QED  BY <2>1, <2>2, <2>3
<1>4. \E k \in i..Len(data) :
        /\ \A m \in i..k : data[m] # Blank
        /\ k = Len(data) \/ data[k + 1] = Blank
  BY <1>2, <1>3
<1> QED  BY <1>4 DEF EndFrom

LEMMA StartsFinite ==
  ASSUME NEW T, NEW data \in Seq(T)
  PROVE  /\ Starts(data) \in SUBSET Nat /\ IsFiniteSet(Starts(data))
         /\ Cardinality(Starts(data)) \in Nat
<1>1. Starts(data) \in SUBSET (1..Len(data)) /\ Len(data) \in Int
  BY DEF Starts
<1>2. IsFiniteSet(1..Len(data))
  BY <1>1, FS_Interval
<1>3. IsFiniteSet(Starts(data))
  BY <1>1, <1>2, FS_Subset
<1> QED  BY <1>1, <1>3, FS_CardinalityType

(* Where the words are: each is free of blanks, and between two of them    *)
(* there is nothing else.                                                  *)
LEMMA WordPlaces ==
  ASSUME NEW T, NEW data \in Seq(T)
  PROVE  LET n == Cardinality(Starts(data)) IN
         /\ n \in Nat
         /\ \A k, l \in 1..n : k < l => WordStart(data, k) < WordStart(data, l)
         /\ \A k \in 1..n :
              /\ WordStart(data, k) \in 1..Len(data)
              /\ WordEnd(data, k) \in WordStart(data, k)..Len(data)
              /\ \A m \in WordStart(data, k)..WordEnd(data, k) :
                   data[m] # Blank
         /\ \A k \in 1..n : k < n =>
              /\ WordEnd(data, k) + 1 < WordStart(data, k + 1)
              /\ \A m \in WordEnd(data, k) + 1..WordStart(data, k + 1) - 1 :
                   data[m] = Blank
<1> DEFINE S == Starts(data)
           n == Cardinality(S)
           b(k) == WordStart(data, k)
           e(k) == WordEnd(data, k)
<1>1. S \in SUBSET Nat /\ IsFiniteSet(S) /\ n \in Nat
  BY StartsFinite
<1>2. /\ \A k \in 1..n : b(k) \in S
      /\ \A k, l \in 1..n : k < l => b(k) < b(l)
      /\ \A k \in 1..n, i \in S : k < n => i <= b(k) \/ i >= b(k + 1)
  <2> HIDE DEF S
  <2> QED  BY <1>1, NthFacts DEF WordStart, S
<1>3. /\ Len(data) \in Nat
      /\ \A i \in S : /\ i \in 1..Len(data) /\ data[i] # Blank
                      /\ i = 1 \/ data[i - 1] = Blank
  BY DEF Starts
<1>4. ASSUME NEW k \in 1..n
      PROVE  /\ b(k) \in 1..Len(data) /\ e(k) \in b(k)..Len(data)
             /\ \A m \in b(k)..e(k) : data[m] # Blank
             /\ e(k) = Len(data) \/ data[e(k) + 1] = Blank
  <2>1. b(k) \in 1..Len(data) /\ data[b(k)] # Blank
    BY <1>2, <1>3
  <2> QED  BY <2>1, EndFromFacts DEF WordEnd
<1>5. ASSUME NEW k \in 1..n, k < n
      PROVE  /\ e(k) + 1 < b(k + 1)
             /\ \A m \in e(k) + 1..b(k + 1) - 1 : data[m] = Blank
  <2>1. k + 1 \in 1..n /\ k < k + 1
    BY <1>1, <1>5
  <2> DEFINE i == b(k)
             j == e(k)
             l == b(k + 1)
  <2>2. /\ i \in 1..Len(data) /\ j \in i..Len(data) /\ l \in 1..Len(data)
        /\ \A m \in i..j : data[m] # Blank
        /\ j = Len(data) \/ data[j + 1] = Blank
        /\ i < l /\ data[l - 1] = Blank /\ data[l] # Blank
    BY <1>2, <1>3, <1>4, <2>1
  <2>3. \A m \in S : m <= i \/ m >= l
    BY <1>2, <1>5
  <2> HIDE DEF i, j, l
  <2>4. j + 1 < l
    <3>1. l - 1 \notin i..j /\ l \notin i..j
      BY <2>2
    <3> QED  BY <1>3, <2>2, <3>1
  <2>5. ASSUME NEW m \in j + 1..l - 1, data[m] # Blank PROVE FALSE
    <3> DEFINE U == {x \in j + 1..l - 1 : data[x] # Blank}
    <3>1. m \in U /\ U \in SUBSET Nat
      BY <2>2, <2>5
    <3>2. PICK x \in U : \A y \in U : x <= y
      <4> HIDE DEF U
      <4> QED  BY <3>1, LeastNumber
    <3>3. data[j + 1] = Blank
      BY <1>3, <2>2, <2>4
    <3>4. x \in j + 2..l - 1 /\ data[x] # Blank
      <4>1. x \in j + 1..l - 1 /\ data[x] # Blank /\ x # j + 1
        BY <3>2, <3>3
      <4> QED  BY <2>2, <4>1
    <3>5. data[x - 1] = Blank
      <4>1. x - 1 \in j + 1..l - 1 /\ ~(x <= x - 1)
        BY <2>2, <3>4
      <4> QED  BY <3>2, <4>1
    <3>6. x \in Starts(data)
      BY <1>3, <2>2, <3>4, <3>5 DEF Starts
    <3> QED  BY <2>2, <2>3, <3>4, <3>6
  <2> QED  BY <2>4, <2>5 DEF j, l
<1> QED  BY <1>1, <1>2, <1>4, <1>5

(* No word is empty.                                                       *)
LEMMA WordsAreWords ==
  ASSUME NEW T, NEW data \in Seq(T)
  PROVE  /\ Words(data) \in Seq(Seq(T))
         /\ Len(Words(data)) = Cardinality(Starts(data))
         /\ \A k \in 1..Len(Words(data)) :
              /\ Words(data)[k]
                   = SubSeq(data, WordStart(data, k), WordEnd(data, k))
              /\ Words(data)[k] # <<>>
<1> DEFINE n == Cardinality(Starts(data))
           word(k) == SubSeq(data, WordStart(data, k), WordEnd(data, k))
<1>1. n \in Nat
  BY StartsFinite
<1>2. ASSUME NEW k \in 1..n PROVE word(k) \in Seq(T) /\ word(k) # <<>>
  <2> DEFINE b == WordStart(data, k)
             e == WordEnd(data, k)
  <2>1. b \in 1..Len(data) /\ e \in b..Len(data)
    BY WordPlaces
  <2> HIDE DEF b, e
  <2>2. SubSeq(data, b, e) \in Seq(T) /\ Len(SubSeq(data, b, e)) = e - b + 1
    BY <2>1
  <2>3. Len(SubSeq(data, b, e)) # 0
    BY <2>1, <2>2
  <2>4. SubSeq(data, b, e) # <<>>
    BY <2>3, EmptySeq
  <2> QED  BY <2>2, <2>4 DEF b, e
<1> HIDE DEF n, word
<1>3. Words(data) = [k \in 1..n |-> word(k)]
  BY DEF Words, n, word
<1>4. [k \in 1..n |-> word(k)] \in [1..n -> Seq(T)]
  BY <1>2
<1>5. Words(data) \in Seq(Seq(T)) /\ Len(Words(data)) = n
  BY <1>1, <1>3, <1>4, SeqDef, LenProperties
<1>6. \A k \in 1..n : Words(data)[k] = word(k)
  BY <1>3
<1> QED  BY <1>2, <1>5, <1>6 DEF n, word

-----------------------------------------------------------------------------
(* cat_last_n after its i-th turn: the text before, the word, and a blank  *)
(* unless the word is the last.                                            *)
LEMMA CatText ==
  ASSUME NEW T, Blank \in T, NEW argv \in Seq(Seq(T)), NEW n \in Nat
  PROVE  \E text \in [0..Len(argv) -> Seq(T)] :
           /\ CatLastN(argv, n) = text[Len(argv)]
           /\ \A i \in 0..Len(argv) :
                text[i] = IF i <= n THEN <<>>
                          ELSE text[i - 1] \o argv[i]
                                 \o (IF i < Len(argv) THEN <<Blank>> ELSE <<>>)
<1> DEFINE L == Len(argv)
           Sep(i) == IF i < L THEN <<Blank>> ELSE <<>>
           Cat(f, i) == IF i <= n THEN <<>> ELSE f[i - 1] \o argv[i] \o Sep(i)
           K == {m \in 0..L : \E f \in [0..m -> Seq(T)] :
                                \A i \in 0..m : f[i] = Cat(f, i)}
<1>1. L \in Nat /\ \A i \in 1..L : argv[i] \in Seq(T)
  OBVIOUS
<1>2. \A i : Sep(i) \in Seq(T)
  OBVIOUS
<1> HIDE DEF L, Sep
<1>3. 0 \in K
  <2> DEFINE f == [i \in 0..0 |-> <<>>]
  <2>1. f \in [0..0 -> Seq(T)] /\ \A i \in 0..0 : f[i] = Cat(f, i)
    BY EmptySeq
  <2> HIDE DEF f, Cat
  <2> QED  BY <1>1, <2>1
<1>4. ASSUME NEW m \in 0..L, m \in K, m < L PROVE m + 1 \in K
  <2>1. PICK f \in [0..m -> Seq(T)] : \A i \in 0..m : f[i] = Cat(f, i)
    BY <1>4
  <2> DEFINE g == [i \in 0..m + 1 |-> IF i <= m THEN f[i] ELSE Cat(f, i)]
  <2>2. Cat(f, m + 1) \in Seq(T)
    <3>1. f[m] \in Seq(T) /\ argv[m + 1] \in Seq(T) /\ (m + 1) - 1 = m
      BY <1>1, <1>4, <2>1
    <3>2. f[m] \o argv[m + 1] \o Sep(m + 1) \in Seq(T)
      BY <1>2, <3>1, ConcatProperties
    <3> QED  BY <3>1, <3>2, EmptySeq
  <2>3. g \in [0..m + 1 -> Seq(T)]
    <3>1. \A i \in 0..m + 1 : i <= m => i \in 0..m
      BY <1>4
    <3>2. \A i \in 0..m + 1 : ~(i <= m) => i = m + 1
      BY <1>4
    <3> HIDE DEF Cat
    <3> QED  BY <2>1, <2>2, <3>1, <3>2
  <2>4. \A i \in 0..m : g[i] = f[i]
    BY <1>4
  <2>5. g[m + 1] = Cat(f, m + 1)
    BY <1>4
  <2>6. \A i \in 0..m + 1 : g[i] = Cat(g, i)
    <3>1. ASSUME NEW i \in 0..m PROVE g[i] = Cat(g, i)
      <4>1. g[i] = Cat(f, i)
        <5> HIDE DEF g, Cat
        <5> QED  BY <2>1, <2>4
      <4>2. ~(i <= n) => i - 1 \in 0..m
        BY <1>4, <3>1
      <4>3. ~(i <= n) => g[i - 1] = f[i - 1]
        BY <2>4, <4>2
      <4> HIDE DEF g
      <4> QED  BY <4>1, <4>3
    <3>2. g[m + 1] = Cat(g, m + 1)
      <4>1. (m + 1) - 1 = m /\ g[m] = f[m]
        BY <1>4, <2>4
      <4> HIDE DEF g
      <4> QED  BY <2>5, <4>1
    <3>3. \A i \in 0..m + 1 : i \in 0..m \/ i = m + 1
      BY <1>4
    <3> HIDE DEF g, Cat
    <3> QED  BY <3>1, <3>2, <3>3
  <2> HIDE DEF g, Cat
  <2>7. m + 1 \in 0..L
    BY <1>1, <1>4
  <2> QED  BY <2>3, <2>6, <2>7
<1>5. L \in K
  <2> HIDE DEF K
  <2>1. 0..L \subseteq K
    BY <1>1, <1>3, <1>4, SetInduction
  <2> QED  BY <1>1, <2>1
<1>6. PICK f \in [0..L -> Seq(T)] : \A i \in 0..L : f[i] = Cat(f, i)
  BY <1>5
<1> DEFINE text == CHOOSE g : g = [i \in 0..L |-> Cat(g, i)]
<1>7. f = [i \in 0..L |-> Cat(f, i)]
  BY <1>6
<1>8. text = [i \in 0..L |-> Cat(text, i)]
  BY <1>7
<1>9. CatLastN(argv, n) = text[L]
  BY DEF CatLastN, L, Sep
<1> DEFINE J == {i \in 0..L : text[i] \in Seq(T)}
<1>10. 0 \in J
  <2>1. text[0] = <<>>
    <3> HIDE DEF text
    <3> QED  BY <1>1, <1>8
  <2>2. text[0] \in Seq(T)
    BY <2>1, EmptySeq
  <2> HIDE DEF text
  <2> QED  BY <1>1, <2>2
<1>11. ASSUME NEW i \in 0..L, i \in J, i < L PROVE i + 1 \in J
  <2> HIDE DEF text
  <2>1. /\ text[i] \in Seq(T) /\ argv[i + 1] \in Seq(T)
        /\ i + 1 \in 0..L /\ (i + 1) - 1 = i
    BY <1>1, <1>11
  <2>2. text[i] \o argv[i + 1] \o Sep(i + 1) \in Seq(T)
    BY <1>2, <2>1, ConcatProperties
  <2>3. text[i + 1] \in Seq(T)
    BY <1>8, <2>1, <2>2, EmptySeq
  <2> QED  BY <2>1, <2>3
<1>12. 0..L \subseteq J
  <2> HIDE DEF J
  <2> QED  BY <1>1, <1>10, <1>11, SetInduction
<1>13. text \in [0..L -> Seq(T)] /\ \A i \in 0..L : text[i] = Cat(text, i)
  <2> HIDE DEF text
  <2>1. text \in [0..L -> Seq(T)]
    <3>1. \A i \in 0..L : text[i] \in Seq(T)
      BY <1>12
    <3> HIDE DEF Cat
    <3> QED  BY <1>8, <3>1
  <2> QED  BY <1>8, <2>1
<1> HIDE DEF text
<1> QED  BY <1>9, <1>13 DEF L, Sep

(* The tokens of a part of a sequence.                                     *)
LEMMA PartOfSequence ==
  ASSUME NEW T, NEW s \in Seq(T), NEW b \in 1..Len(s), NEW e \in b..Len(s)
  PROVE  LET part == SubSeq(s, b, e) IN
         /\ part \in Seq(T) /\ Len(part) = e - b + 1
         /\ \A i \in 1..e - b + 1 : part[i] = s[b + i - 1]
         /\ Range(part) = {s[m] : m \in b..e}
<1> DEFINE part == SubSeq(s, b, e)
<1>1. /\ part \in Seq(T) /\ Len(part) = e - b + 1
      /\ \A i \in 1..e - b + 1 : part[i] = s[b + i - 1]
  <2>1. \A i \in b..e : s[i] \in T
    OBVIOUS
  <2>2. b \in Int /\ e \in Int /\ b <= e
    OBVIOUS
  <2> QED  BY <2>1, <2>2, SubSeqProperties
<1> HIDE DEF part
<1>2. Range(part) = {part[i] : i \in 1..e - b + 1}
  BY <1>1, RangeEquality
<1>3. ASSUME NEW m \in b..e PROVE \E i \in 1..e - b + 1 : part[i] = s[m]
  <2>1. m - b + 1 \in 1..e - b + 1 /\ b + (m - b + 1) - 1 = m
    OBVIOUS
  <2>2. part[m - b + 1] = s[b + (m - b + 1) - 1]
    BY <1>1, <2>1
  <2> QED  BY <2>1, <2>2
<1>4. ASSUME NEW i \in 1..e - b + 1 PROVE \E m \in b..e : part[i] = s[m]
  <2>1. b + i - 1 \in b..e
    OBVIOUS
  <2> QED  BY <1>1, <2>1
<1>5. Range(part) = {s[m] : m \in b..e}
  <2>1. ASSUME NEW x \in Range(part) PROVE x \in {s[m] : m \in b..e}
    BY <1>2, <1>4
  <2>2. ASSUME NEW m \in b..e PROVE s[m] \in Range(part)
    BY <1>2, <1>3
  <2> QED  BY <2>1, <2>2
<1> QED  BY <1>1, <1>5 DEF part

Blanks(s) == \A k \in 1..Len(s) : s[k] = Blank

(* One turn of cat_last_n: behind a text goes a word, then blanks or none. *)
LEMMA OneTurn ==
  ASSUME NEW T, NEW t \in Seq(T), NEW w \in Seq(T), w # <<>>,
         NEW s \in Seq(T), Blanks(s)
  PROVE  LET r == t \o w \o s IN
         /\ r # <<>>
         /\ r[1] = IF t = <<>> THEN w[1] ELSE t[1]
         /\ Range(r) \ {Blank} = (Range(t) \cup Range(w)) \ {Blank}
         /\ s = <<>> => r[Len(r)] = w[Len(w)]
<1> DEFINE u == t \o w
           r == u \o s
<1>1. s \in Seq(T) /\ Len(t) \in Nat /\ Len(w) \in Nat /\ Len(w) > 0
  <2>1. Len(w) # 0
    BY EmptySeq
  <2> QED  BY <2>1
<1>2. /\ u \in Seq(T) /\ Len(u) = Len(t) + Len(w)
      /\ \A i \in 1..Len(t) + Len(w) :
           u[i] = IF i <= Len(t) THEN t[i] ELSE w[i - Len(t)]
  BY ConcatProperties
<1> HIDE DEF u
<1>3. /\ r \in Seq(T) /\ Len(r) = Len(u) + Len(s)
      /\ \A i \in 1..Len(u) + Len(s) :
           r[i] = IF i <= Len(u) THEN u[i] ELSE s[i - Len(u)]
  <2>1. s \in Seq(T) /\ u \in Seq(T)
    BY <1>1, <1>2
  <2> QED  BY <2>1, ConcatProperties
<1>4. Range(r) = Range(t) \cup Range(w) \cup Range(s)
  <2>1. Range(u) = Range(t) \cup Range(w)
    BY RangeConcatenation DEF u
  <2>2. Range(r) = Range(u) \cup Range(s)
    BY <1>1, <1>2, RangeConcatenation
  <2> QED  BY <2>1, <2>2
<1>5. \A x \in Range(s) : x = Blank
  BY <1>1, RangeEquality DEF Blanks
<1> HIDE DEF r
<1>6. Len(s) \in Nat /\ r # <<>>
  <2>1. Len(s) \in Nat /\ Len(r) # 0
    BY <1>1, <1>2, <1>3
  <2> QED  BY <1>3, <2>1, EmptySeq
<1>7. r[1] = IF t = <<>> THEN w[1] ELSE t[1]
  <2>1. r[1] = u[1] /\ u[1] = IF 1 <= Len(t) THEN t[1] ELSE w[1 - Len(t)]
    <3>1. 1 \in 1..Len(t) + Len(w) /\ 1 \in 1..Len(u) + Len(s) /\ 1 <= Len(u)
      BY <1>1, <1>2, <1>6
    <3> QED  BY <1>2, <1>3, <3>1
  <2>2. t = <<>> => Len(t) = 0
    OBVIOUS
  <2>3. t # <<>> => 1 <= Len(t)
    <3>1. t # <<>> => Len(t) # 0
      BY EmptySeq
    <3> QED  BY <1>1, <3>1
  <2> QED  BY <2>1, <2>2, <2>3
<1>8. Range(r) \ {Blank} = (Range(t) \cup Range(w)) \ {Blank}
  BY <1>4, <1>5
<1>9. ASSUME s = <<>> PROVE r[Len(r)] = w[Len(w)]
  <2>1. r = u
    BY <1>2, <1>9, ConcatEmptySeq DEF r
  <2>2. u[Len(t) + Len(w)] = w[(Len(t) + Len(w)) - Len(t)]
    <3> DEFINE k == Len(t) + Len(w)
    <3>1. k \in 1..k /\ ~(k <= Len(t))
      BY <1>1
    <3> QED  BY <1>2, <3>1
  <2>3. (Len(t) + Len(w)) - Len(t) = Len(w)
    BY <1>1
  <2> QED  BY <1>2, <2>1, <2>2, <2>3
<1> QED  BY <1>6, <1>7, <1>8, <1>9 DEF r, u

(* What a text says when its blanks are disregarded.                       *)
SameTokens(s, t) ==
  /\ s = <<>> <=> t = <<>>
  /\ s # <<>> => s[1] = t[1] /\ s[Len(s)] = t[Len(t)]
  /\ Range(s) \ {Blank} = Range(t) \ {Blank}

(* Cutting data into words and joining them from the fifth on gives the    *)
(* tokens that were written, and exactly the text that was written if no   *)
(* two blanks stand beside each other.                                     *)
LEMMA CommandText ==
  ASSUME NEW T, Blank \in T, NEW data \in Seq(T)
  PROVE  LET text == CatLastN(Words(data), 4) IN
         /\ SameTokens(text, Written(data))
         /\ SingleBlanks(Written(data)) => text = Written(data)
<1> DEFINE n == Cardinality(Starts(data))
           W == Words(data)
           b(k) == WordStart(data, k)
           e(k) == WordEnd(data, k)
           Sep(i) == IF i < n THEN <<Blank>> ELSE <<>>
<1>1. /\ n \in Nat /\ Len(data) \in Nat
      /\ \A k, l \in 1..n : k < l => b(k) < b(l)
      /\ \A k \in 1..n : b(k) \in 1..Len(data) /\ e(k) \in b(k)..Len(data)
      /\ \A k \in 1..n : \A m \in b(k)..e(k) : data[m] # Blank
      /\ \A k \in 1..n : k < n =>
           /\ e(k) + 1 < b(k + 1)
           /\ \A m \in e(k) + 1..b(k + 1) - 1 : data[m] = Blank
  BY WordPlaces
<1>2. /\ W \in Seq(Seq(T)) /\ Len(W) = n
      /\ \A k \in 1..n : W[k] = SubSeq(data, b(k), e(k))
  BY WordsAreWords
<1> HIDE DEF W, n, b, e
<1>3. PICK text \in [0..n -> Seq(T)] :
        /\ CatLastN(W, 4) = text[n]
        /\ \A i \in 0..n :
             text[i] = IF i <= 4 THEN <<>> ELSE text[i - 1] \o W[i] \o Sep(i)
  <2>1. \E text \in [0..Len(W) -> Seq(T)] :
          /\ CatLastN(W, 4) = text[Len(W)]
          /\ \A i \in 0..Len(W) :
               text[i] = IF i <= 4 THEN <<>>
                         ELSE text[i - 1] \o W[i]
                                \o (IF i < Len(W) THEN <<Blank>> ELSE <<>>)
    <3>1. 4 \in Nat
      OBVIOUS
    <3> HIDE DEF Sep
    <3> QED  BY <1>2, <3>1, CatText
  <2> QED  BY <1>2, <2>1
<1> HIDE DEF Sep
<1>4. CASE n < 5
  <2>1. text[n] = <<>>
    <3>1. n \in 0..n /\ n <= 4
      BY <1>1, <1>4
    <3> QED  BY <1>3, <3>1
  <2>2. Written(data) = <<>>
    BY <1>4 DEF Written, n
  <2> QED  BY <1>3, <2>1, <2>2 DEF SameTokens, W
<1>5. CASE n >= 5
  <2> DEFINE first == b(5)
             upto(i) == IF i = 4 THEN first - 1 ELSE e(i)
             next(i) == IF i = n THEN e(n) ELSE b(i + 1) - 1
             single == SingleBlanks(Written(data))
             Done(i) ==
               /\ i > 4 => text[i] # <<>> /\ text[i][1] = data[first]
               /\ i > 4 /\ i = n => text[i][Len(text[i])] = data[e(n)]
               /\ Range(text[i]) \ {Blank}
                    = {data[m] : m \in first..upto(i)} \ {Blank}
               /\ single => text[i] = SubSeq(data, first, next(i))
             K == {i \in 4..n : Done(i)}
  <2>1. /\ first \in 1..Len(data) /\ Len(data) \in Nat
        /\ e(n) \in b(n)..Len(data) /\ b(n) \in 1..Len(data)
        /\ \A k \in 5..n : first <= b(k)
    <3>1. 5 \in 1..n /\ n \in 1..n /\ \A k \in 5..n : k \in 1..n
      BY <1>1, <1>5
    <3>2. ASSUME NEW k \in 5..n PROVE first <= b(k)
      <4>1. k = 5 \/ 5 < k
        BY <1>1
      <4>2. b(5) \in 1..Len(data) /\ b(k) \in 1..Len(data)
        BY <1>1, <3>1
      <4>3. 5 < k => b(5) < b(k)
        BY <1>1, <3>1
      <4> QED  BY <4>1, <4>2, <4>3
    <3> QED  BY <1>1, <3>1, <3>2
  <2>2. Written(data) = SubSeq(data, first, e(n)) /\ first \in 1..e(n)
    <3>1. ~(n < 5)
      BY <1>1, <1>5
    <3>2. Written(data) = SubSeq(data, first, e(n))
      BY <3>1 DEF Written, n, b, e
    <3>3. n \in 5..n
      BY <1>1, <1>5
    <3>4. first <= b(n)
      BY <2>1, <3>3
    <3> HIDE DEF first
    <3> QED  BY <2>1, <3>2, <3>4
  <2>3. 4 \in K
    <3>1. 4 \in 0..n /\ 4 \in 4..n /\ 4 # n
      BY <1>1, <1>5
    <3>2. text[4] = <<>>
      <4>1. \A i \in 0..n : i <= 4 => text[i] = <<>>
        BY <1>3
      <4> QED  BY <3>1, <4>1
    <3>3. Range(text[4]) = {}
      BY <3>2 DEF Range
    <3>4. first..upto(4) = {}
      <4>1. \A m \in first..first - 1 : FALSE
        BY <2>1
      <4> QED  BY <4>1
    <3>5. SubSeq(data, first, next(4)) = <<>>
      <4>1. next(4) = first - 1
        BY <3>1
      <4> HIDE DEF first, next
      <4>2. first > next(4) /\ first \in Int /\ next(4) \in Int
        BY <2>1, <4>1
      <4> QED  BY <4>2, SubSeqEmpty
    <3>6. {data[m] : m \in first..upto(4)} = {}
      <4> HIDE DEF first, upto
      <4> QED  BY <3>4
    <3> HIDE DEF first, next, upto, single
    <3>7. Done(4)
      <4>1. Range(text[4]) \ {Blank}
              = {data[m] : m \in first..upto(4)} \ {Blank}
        BY <3>3, <3>6
      <4>2. text[4] = SubSeq(data, first, next(4))
        BY <3>2, <3>5
      <4> QED  BY <4>1, <4>2
    <3> HIDE DEF Done
    <3> QED  BY <3>1, <3>7
  <2>4. ASSUME NEW i \in 4..n, i \in K, i < n PROVE i + 1 \in K
    <3> DEFINE w == W[i + 1]
               t == text[i]
               from == b(i + 1)
               to == e(i + 1)
    <3>1. /\ i + 1 \in 1..n /\ i + 1 \in 5..n /\ i + 1 \in 0..n
          /\ ~(i + 1 <= 4) /\ (i + 1) - 1 = i /\ i \in 0..n
          /\ i + 1 > 4 /\ i + 1 # 4 /\ i # n
      BY <1>1, <2>4
    <3>2. /\ from \in 1..Len(data) /\ to \in from..Len(data)
          /\ first <= from /\ first \in 1..Len(data) /\ Len(data) \in Nat
          /\ \A m \in from..to : data[m] # Blank
      <4> HIDE DEF first
      <4> QED  BY <1>1, <2>1, <3>1
    <3>3. w = SubSeq(data, from, to)
      BY <1>2, <3>1
    <3>4. t \in Seq(T) /\ Done(i)
      BY <1>3, <2>4, <3>1
    <3>5. text[i + 1] = t \o w \o Sep(i + 1)
      BY <1>3, <3>1
    <3>6. Sep(i + 1) \in {<<>>, <<Blank>>} /\ (i + 1 = n => Sep(i + 1) = <<>>)
      BY <3>1 DEF Sep
    <3> HIDE DEF w, from, to
    <3>7. /\ w \in Seq(T) /\ w # <<>> /\ w[1] = data[from]
          /\ w[Len(w)] = data[to]
          /\ Range(w) = {data[m] : m \in from..to}
      <4>1. /\ w \in Seq(T) /\ Len(w) = to - from + 1
            /\ \A k \in 1..to - from + 1 : w[k] = data[from + k - 1]
            /\ Range(w) = {data[m] : m \in from..to}
        BY <3>2, <3>3, PartOfSequence
      <4>2. /\ 1 \in 1..to - from + 1 /\ from + 1 - 1 = from
            /\ to - from + 1 \in 1..to - from + 1
            /\ from + (to - from + 1) - 1 = to
            /\ to - from + 1 # 0
        BY <3>2
      <4>3. w[1] = data[from + 1 - 1]
        BY <4>1, <4>2
      <4>4. w[Len(w)] = data[from + (to - from + 1) - 1]
        BY <4>1, <4>2
      <4>5. w # <<>>
        BY <4>1, <4>2, EmptySeq
      <4> QED  BY <4>1, <4>2, <4>3, <4>4, <4>5
    <3> HIDE DEF t
    <3> DEFINE r == t \o w \o Sep(i + 1)
    <3>8. /\ r # <<>>
          /\ r[1] = IF t = <<>> THEN w[1] ELSE t[1]
          /\ Range(r) \ {Blank} = (Range(t) \cup Range(w)) \ {Blank}
          /\ Sep(i + 1) = <<>> => r[Len(r)] = w[Len(w)]
      <4>1. t \in Seq(T) /\ w \in Seq(T)
        BY <3>4, <3>7
      <4> DEFINE s == Sep(i + 1)
      <4>2. s \in Seq(T) /\ Blanks(s) /\ w # <<>>
        <5>1. <<>> \in Seq(T) /\ \A k \in 1..Len(<<>>) : <<>>[k] = Blank
          BY EmptySeq
        <5>2. /\ <<Blank>> \in Seq(T)
              /\ \A k \in 1..Len(<<Blank>>) : <<Blank>>[k] = Blank
          OBVIOUS
        <5>3. s = <<>> \/ s = <<Blank>>
          BY <3>6 DEF s
        <5>4. s \in Seq(T) /\ \A k \in 1..Len(s) : s[k] = Blank
          <6>1. CASE s = <<>>
            BY <5>1, <6>1, Zenon
          <6>2. CASE s = <<Blank>>
            BY <5>2, <6>2, Zenon
          <6> QED  BY <5>3, <6>1, <6>2
        <5> QED  BY <3>7, <5>4 DEF Blanks
      <4> HIDE DEF s
      <4>3. t \o w \o s # <<>>
        BY <4>1, <4>2, OneTurn
      <4>4. (t \o w \o s)[1] = IF t = <<>> THEN w[1] ELSE t[1]
        BY <4>1, <4>2, OneTurn
      <4>5. Range(t \o w \o s) \ {Blank} = (Range(t) \cup Range(w)) \ {Blank}
        BY <4>1, <4>2, OneTurn
      <4>6. s = <<>> => (t \o w \o s)[Len(t \o w \o s)] = w[Len(w)]
        BY <4>1, <4>2, OneTurn
      <4> QED  BY <4>3, <4>4, <4>5, <4>6 DEF s
    <3> HIDE DEF r
    <3>9. r[1] = data[first]
      <4>1. CASE i = 4
        <5>1. \A k \in 0..n : k <= 4 => text[k] = <<>>
          BY <1>3
        <5>2. t = <<>>
          BY <3>1, <4>1, <5>1 DEF t
        <5>3. from = first
          BY <4>1 DEF from
        <5> QED  BY <3>7, <3>8, <5>2, <5>3
      <4>2. CASE i > 4
        BY <3>4, <3>8, <4>2 DEF t
      <4> QED  BY <2>4, <4>1, <4>2
    <3>10. i + 1 = n => r[Len(r)] = data[e(n)]
      <4>1. i + 1 = n => to = e(n)
        BY DEF to
      <4> QED  BY <3>6, <3>7, <3>8, <4>1
    <3>11. Range(r) \ {Blank} = {data[m] : m \in first..to} \ {Blank}
      <4> DEFINE done == upto(i)
      <4>1. Range(t) \ {Blank} = {data[m] : m \in first..done} \ {Blank}
        BY <3>4 DEF t
      <4>2. /\ done \in Int /\ done <= to
            /\ \A m \in done + 1..from - 1 : data[m] = Blank
        <5>1. CASE i = 4
          <6>1. from = first /\ done = first - 1
            BY <5>1 DEF from
          <6> HIDE DEF first, done
          <6> QED  BY <3>2, <6>1
        <5>2. CASE i > 4
          <6>1. i \in 1..n /\ i < n /\ done = e(i)
            BY <2>4, <3>1, <5>2
          <6>2. /\ e(i) + 1 < from /\ e(i) \in b(i)..Len(data)
                /\ b(i) \in 1..Len(data)
                /\ \A m \in e(i) + 1..from - 1 : data[m] = Blank
            BY <1>1, <6>1 DEF from
          <6> HIDE DEF done, first
          <6> QED  BY <3>2, <6>1, <6>2
        <5> QED  BY <2>4, <5>1, <5>2
      <4> HIDE DEF first, done
      <4>3. \A m \in first..done : m \in first..to
        BY <3>2, <4>2
      <4>4. \A m \in from..to : m \in first..to
        BY <3>2
      <4>5. \A m \in first..to :
              m \in first..done \/ m \in from..to \/ m \in done + 1..from - 1
        BY <3>2, <4>2
      <4>6. ASSUME NEW x, x # Blank
            PROVE  x \in Range(r) <=> \E m \in first..to : x = data[m]
        <5>1. x \in Range(r) <=> x \in Range(t) \/ x \in Range(w)
          BY <3>8, <4>6
        <5>2. x \in Range(t) <=> \E m \in first..done : x = data[m]
          BY <4>1, <4>6
        <5>3. x \in Range(w) <=> \E m \in from..to : x = data[m]
          BY <3>7
        <5>4. \A m \in done + 1..from - 1 : x # data[m]
          BY <4>2, <4>6
        <5> QED  BY <4>3, <4>4, <4>5, <5>1, <5>2, <5>3, <5>4, Zenon
      <4>7. \A x : x \in Range(r) \ {Blank}
                     <=> x \in {data[m] : m \in first..to} \ {Blank}
        BY <4>6
      <4> QED  BY <4>7
    <3>12. ASSUME single PROVE r = SubSeq(data, first, next(i + 1))
      <4>1. t = SubSeq(data, first, from - 1)
        BY <3>1, <3>4, <3>12 DEF t, from
      <4>2. t \o w = SubSeq(data, first, to)
        <5>1. /\ first \in 1..Len(data) + 1 /\ from - 1 \in first - 1..Len(data)
              /\ to \in from - 1..Len(data) /\ (from - 1) + 1 = from
          <6> HIDE DEF first
          <6> QED  BY <3>2
        <5> HIDE DEF first
        <5>2. SubSeq(data, first, from - 1) \o SubSeq(data, (from - 1) + 1, to)
                = SubSeq(data, first, to)
          BY <5>1, ConcatAdjacentSubSeq
        <5> QED  BY <3>3, <4>1, <5>1, <5>2
      <4>3. SubSeq(data, first, to) \in Seq(T)
        <5> HIDE DEF first
        <5> QED  BY <3>2, PartOfSequence
      <4>4. CASE i + 1 = n
        <5>1. next(i + 1) = to
          BY <4>4 DEF to
        <5>2. r = (t \o w) \o <<>>
          BY <3>6, <4>4 DEF r
        <5> HIDE DEF first, next
        <5> QED  BY <4>2, <4>3, <5>1, <5>2, ConcatEmptySeq
      <4>5. CASE i + 1 # n
        <5>1. i + 1 < n /\ Sep(i + 1) = <<Blank>>
          BY <1>1, <3>1, <4>5 DEF Sep
        <5> DEFINE after == b(i + 2)
        <5>2. /\ i + 2 \in 1..n /\ (i + 1) + 1 = i + 2
              /\ after \in 1..Len(data) /\ after <= e(n) /\ next(i + 1) = after - 1
          <6>1. i + 2 \in 1..n /\ (i + 1) + 1 = i + 2 /\ n \in 1..n
            BY <1>1, <3>1, <5>1
          <6>2. /\ after \in 1..Len(data) /\ b(n) \in 1..Len(data)
                /\ e(n) \in b(n)..Len(data) /\ (i + 2 < n => after < b(n))
            BY <1>1, <6>1
          <6>3. next(i + 1) = after - 1
            BY <4>5, <6>1
          <6>4. i + 2 = n \/ i + 2 < n
            BY <6>1
          <6>5. i + 2 = n => after = b(n)
            OBVIOUS
          <6> HIDE DEF after, next
          <6> QED  BY <1>1, <6>1, <6>2, <6>3, <6>4, <6>5
        <5>3. /\ to + 1 < after
              /\ \A m \in to + 1..after - 1 : data[m] = Blank
          BY <1>1, <3>1, <5>1, <5>2 DEF to
        <5> HIDE DEF after, first, next
        <5>4. after = to + 2
          <6> DEFINE part == SubSeq(data, first, e(n))
                     at == to + 2 - first
          <6>1. /\ first \in 1..Len(data) /\ e(n) \in first..Len(data)
                /\ e(n) \in Int
            BY <2>1, <2>2
          <6>2. /\ Len(part) = e(n) - first + 1
                /\ \A k \in 1..e(n) - first + 1 : part[k] = data[first + k - 1]
            BY <6>1, PartOfSequence
          <6>3. ASSUME after # to + 2 PROVE FALSE
            <7>1. /\ to + 1 \in to + 1..after - 1 /\ to + 2 \in to + 1..after - 1
                  /\ at \in 1..(e(n) - first + 1) - 1
                  /\ at \in 1..e(n) - first + 1 /\ at + 1 \in 1..e(n) - first + 1
                  /\ first + at - 1 = to + 1 /\ first + (at + 1) - 1 = to + 2
              BY <3>2, <5>2, <5>3, <6>1, <6>3
            <7> HIDE DEF part, at
            <7>2. data[to + 1] = Blank /\ data[to + 2] = Blank
              BY <5>3, <7>1
            <7>3. part[at] = data[first + at - 1]
              BY <6>2, <7>1
            <7>4. part[at + 1] = data[first + (at + 1) - 1]
              BY <6>2, <7>1
            <7>5. ~(part[at] = Blank /\ part[at + 1] = Blank)
              <8>1. SingleBlanks(part)
                BY <2>2, <3>12 DEF single, part
              <8> QED  BY <6>2, <7>1, <8>1 DEF SingleBlanks
            <7> QED  BY <7>1, <7>2, <7>3, <7>4, <7>5
          <6> QED  BY <6>3
        <5>5. /\ to + 1 \in first..Len(data) /\ (to + 1) - 1 = to
              /\ data[to + 1] = Blank /\ next(i + 1) = to + 1
          <6>1. to + 1 \in to + 1..after - 1
            BY <3>2, <5>2, <5>3
          <6> QED  BY <3>2, <5>2, <5>3, <5>4, <6>1
        <5>6. SubSeq(data, first, to + 1)
                = SubSeq(data, first, (to + 1) - 1) \o <<data[to + 1]>>
          BY <3>2, <5>5, SubSeqRecursiveSecond
        <5>7. r = (t \o w) \o <<Blank>>
          BY <5>1 DEF r
        <5> QED  BY <4>2, <5>5, <5>6, <5>7
      <4> QED  BY <4>4, <4>5
    <3>13. upto(i + 1) = to
      BY <3>1 DEF to
    <3> HIDE DEF first, upto, next, single
    <3>14. Done(i + 1)
      <4>1. text[i + 1] = r
        BY <3>5 DEF r
      <4>2. i + 1 > 4 => text[i + 1] # <<>> /\ text[i + 1][1] = data[first]
        BY <3>8, <3>9, <4>1
      <4>3. i + 1 > 4 /\ i + 1 = n
              => text[i + 1][Len(text[i + 1])] = data[e(n)]
        BY <3>10, <4>1
      <4>4. Range(text[i + 1]) \ {Blank}
              = {data[m] : m \in first..upto(i + 1)} \ {Blank}
        BY <3>11, <3>13, <4>1
      <4>5. single => text[i + 1] = SubSeq(data, first, next(i + 1))
        BY <3>12, <4>1
      <4> QED  BY <4>2, <4>3, <4>4, <4>5
    <3>15. i + 1 \in 4..n
      BY <1>1, <3>1
    <3> HIDE DEF Done
    <3> QED  BY <3>14, <3>15
  <2>5. Done(n)
    <3> HIDE DEF Done, K
    <3>1. n \in 4..n /\ 4 \in Nat
      BY <1>1, <1>5
    <3>2. 4..n \subseteq K
      BY <1>1, <2>3, <2>4, <3>1, SetInduction
    <3>3. n \in K
      BY <3>1, <3>2
    <3> QED  BY <3>3 DEF K
  <2>6. /\ Written(data) \in Seq(T) /\ Written(data) # <<>>
        /\ Written(data)[1] = data[first]
        /\ Written(data)[Len(Written(data))] = data[e(n)]
        /\ Range(Written(data)) = {data[m] : m \in first..e(n)}
    <3> DEFINE end == e(n)
               part == SubSeq(data, first, end)
    <3>1. first \in 1..Len(data) /\ end \in first..Len(data)
      <4> HIDE DEF first
      <4> QED  BY <2>1, <2>2
    <3> HIDE DEF first, end
    <3>2. /\ part \in Seq(T) /\ Len(part) = end - first + 1
          /\ \A i \in 1..end - first + 1 : part[i] = data[first + i - 1]
          /\ Range(part) = {data[m] : m \in first..end}
      BY <3>1, PartOfSequence
    <3>3. /\ 1 \in 1..end - first + 1 /\ first + 1 - 1 = first
          /\ end - first + 1 \in 1..end - first + 1
          /\ first + (end - first + 1) - 1 = end
          /\ end - first + 1 # 0
      BY <3>1
    <3> HIDE DEF part
    <3>4. part # <<>> /\ part[1] = data[first] /\ part[Len(part)] = data[end]
      <4>1. part[1] = data[first + 1 - 1]
        BY <3>2, <3>3
      <4>2. part[Len(part)] = data[first + (end - first + 1) - 1]
        BY <3>2, <3>3
      <4>3. part # <<>>
        BY <3>2, <3>3, EmptySeq
      <4> QED  BY <3>3, <4>1, <4>2, <4>3
    <3>5. Written(data) = part
      BY <2>2 DEF part, end
    <3> QED  BY <3>2, <3>4, <3>5 DEF end
  <2>7. n > 4 /\ upto(n) = e(n) /\ next(n) = e(n)
    BY <1>1, <1>5
  <2> HIDE DEF first, upto, next, single
  <2>8. SameTokens(text[n], Written(data))
    BY <2>5, <2>6, <2>7 DEF SameTokens
  <2>9. single => text[n] = Written(data)
    BY <2>2, <2>5, <2>7
  <2> QED  BY <1>3, <2>8, <2>9 DEF single, W
<1> QED  BY <1>1, <1>4, <1>5

(* Whether a text has the keys does not depend on its blanks.              *)
LEMMA KeysDespiteBlanks ==
  ASSUME NEW s, NEW t, SameTokens(s, t)
  PROVE  Has(s, HandlerKeys) <=> Has(t, HandlerKeys)
<1>1. Blank \notin HandlerKeys /\ "url" \in HandlerKeys
  BY DEF Blank, HandlerKeys, StreamKeys
<1>2. ToSet(s) = Range(s) /\ ToSet(t) = Range(t)
  BY DEF ToSet, Range
<1>3. CASE s = <<>> \/ s[1] # "{"
  <2>1. t = <<>> \/ t[1] # "{"
    BY <1>3 DEF SameTokens
  <2> QED  BY <1>3, <2>1 DEF Has, KeysOf
<1>4. CASE /\ ~(s = <<>> \/ s[1] # "{")
           /\ s[Len(s)] # "}"
  <2>1. ~(t = <<>> \/ t[1] # "{") /\ t[Len(t)] # "}"
    BY <1>4 DEF SameTokens
  <2> QED  BY <1>4, <2>1 DEF Has, KeysOf
<1>5. CASE /\ ~(s = <<>> \/ s[1] # "{")
           /\ s[Len(s)] = "}"
  <2>1. ~(t = <<>> \/ t[1] # "{") /\ t[Len(t)] = "}"
    BY <1>5 DEF SameTokens
  <2>2. KeysOf(s) = Range(s) /\ KeysOf(t) = Range(t)
    BY <1>2, <1>5, <2>1 DEF KeysOf
  <2>3. \A k \in HandlerKeys : k \in Range(s) <=> k \in Range(t)
    <3>1. Range(s) \ {Blank} = Range(t) \ {Blank}
      BY <1>5 DEF SameTokens
    <3> QED  BY <1>1, <3>1
  <2> QED  BY <2>2, <2>3 DEF Has
<1> QED  BY <1>3, <1>4, <1>5

-----------------------------------------------------------------------------
(* The histories, which TypeOK says nothing about.                         *)
AskedOK ==
  asked \in [Calls -> Seq(STRING)] /\ params = [c \in Calls |-> params[c]]

IInv == TypeOK /\ AskedOK

CommandStep(c) ==
  \E data \in Data(c) :
    \/ NoCommand(c, data) \/ Refused(c, data) \/ Stop(c, data)
    \/ StartLost(c, data) \/ StartShort(c, data) \/ StartStream(c, data)

(* A created stream changes nothing but the handler and the fault.         *)
LEMMA StreamOutcome ==
  ASSUME NEW c \in Calls, NEW type, NEW text, TypeOK, fault = "no",
         CreateStream(c, type, text)
  PROVE  /\ Handler' \in [Calls -> {"none", "idle", "connected", "rejected"}]
         /\ fault' \in {"no", "start through null", "client replaced"}
         /\ fault' # "no" => type # <<"ws">>
<1> DEFINE h == HandlerOf(c, type)
<1>1. /\ h \in {"none", "idle", "connected", "rejected"}
      /\ type = <<"ws">> => h = "idle"
  BY DEF HandlerOf, TypeOK
<1>2. CASE Handler' = [Handler EXCEPT ![c] = h] /\ UNCHANGED fault
  BY <1>1, <1>2 DEF TypeOK
<1>3. CASE h = "none" /\ fault' = "start through null" /\ UNCHANGED Handler
  BY <1>1, <1>3 DEF TypeOK
<1>4. CASE h = "connected" /\ fault' = "client replaced" /\ UNCHANGED Handler
  BY <1>1, <1>4 DEF TypeOK
<1>5. CASE /\ \E outcome \in {"connected", "rejected"} :
               Handler' = [Handler EXCEPT ![c] = outcome]
           /\ UNCHANGED fault
  BY <1>5 DEF TypeOK
<1> QED  BY <1>2, <1>3, <1>4, <1>5 DEF CreateStream

LEMMA InsertTable ==
  ASSUME NEW key, NEW c \in Calls
  PROVE  LET t == Insert(key, c) IN
         /\ DOMAIN t = {key} \cup DOMAIN session_table
         /\ t[key] = c
         /\ \A k \in DOMAIN session_table : k # key => t[k] = session_table[k]
  BY DEF Insert

(* What every command does to the variables it never looks at again.       *)
LEMMA ExecutesOK ==
  ASSUME NEW c \in Calls, NEW data \in Data(c), IInv, Executes(c, data)
  PROVE  /\ data \in Seq(STRING) /\ asked' \in [Calls -> Seq(STRING)]
         /\ asked' = [d \in Calls |-> IF d = c THEN data ELSE asked[d]]
         /\ loaded' \in BOOLEAN /\ commands' \in 0..MaxCommands
         /\ call' = call
<1>1. commands' \in 0..MaxCommands
  BY CommandsAssumption DEF Executes, IInv, TypeOK
<1>2. data \in Seq(STRING)
  BY DataAssumption
<1>3. asked' = [d \in Calls |-> IF d = c THEN data ELSE asked[d]]
  BY DEF Executes, IInv, AskedOK
<1>4. asked' \in [Calls -> Seq(STRING)]
  BY <1>2, <1>3 DEF IInv, AskedOK
<1> QED  BY <1>1, <1>2, <1>3, <1>4 DEF Executes, IInv, TypeOK

LEMMA TypeStep == ASSUME IInv, [Next]_vars PROVE IInv'
<1>1. CASE UNCHANGED vars
  BY <1>1 DEF IInv, AskedOK, vars, session, TypeOK
<1>2. CASE Load
  <2>1. DOMAIN session_table' = {}
    BY <1>2 DEF Load
  <2> QED  BY <1>2, <2>1 DEF Load, session, IInv, TypeOK, AskedOK
<1>3. CASE Shutdown
  BY <1>3 DEF Shutdown, session, IInv, TypeOK, AskedOK
<1>4. ASSUME NEW c \in Calls, HangupEvent(c) \/ CloseBug(c) PROVE IInv'
  <2>1. UNCHANGED <<loaded, session_table, asked, last, params, commands,
                    fault>>
    BY <1>4 DEF HangupEvent, CloseBug
  <2>2. call' \in [Calls -> {"up", "hung", "gone"}]
    BY <1>4 DEF HangupEvent, CloseBug, IInv, TypeOK
  <2>3. UNCHANGED session \/ \E d \in Calls : Cleanup(d)
    BY <1>4 DEF HangupEvent, CloseBug, IInv, TypeOK
  <2>4. CASE UNCHANGED session
    BY <2>1, <2>2, <2>4 DEF session, IInv, TypeOK, AskedOK
  <2>5. ASSUME NEW d \in Calls, Cleanup(d) PROVE IInv'
    BY <2>1, <2>2, <2>5 DEF Cleanup, IInv, TypeOK, AskedOK
  <2> QED  BY <2>3, <2>4, <2>5
<1>5. ASSUME NEW c \in Calls, NEW data \in Data(c),
             NoCommand(c, data) \/ Refused(c, data) \/ Stop(c, data)
      PROVE  IInv'
  <2>1. Executes(c, data)
    BY <1>5 DEF NoCommand, Refused, Stop
  <2>2. /\ AskedOK' /\ loaded' \in BOOLEAN /\ commands' \in 0..MaxCommands
        /\ call' = call /\ session_table' = session_table
    <3>1. params' = params
      BY <1>5 DEF NoCommand, Refused, Stop
    <3> QED  BY <1>5, <2>1, <3>1, ExecutesOK
             DEF NoCommand, Refused, Stop, IInv, AskedOK
  <2>3. CASE NoCommand(c, data)
    BY <2>2, <2>3 DEF NoCommand, session, IInv, TypeOK
  <2>4. CASE Refused(c, data)
    BY <2>2, <2>4 DEF Refused, session, IInv, TypeOK
  <2>5. CASE Stop(c, data)
    BY <2>2, <2>5 DEF Stop, Cleanup, IInv, TypeOK
  <2> QED  BY <1>5, <2>3, <2>4, <2>5
<1>6. ASSUME NEW c \in Calls, NEW data \in Data(c),
             \/ StartLost(c, data) \/ StartShort(c, data)
             \/ StartStream(c, data)
      PROVE  IInv'
  <2> USE DEF IInv
  <2> DEFINE key == parse_command_line(Words(data)).key
  <2>1. /\ Executes(c, data) /\ InitSession(c)
        /\ session_table' = Insert(key, c)
    BY <1>6 DEF StartLost, StartShort, StartStream
  <2>2. \A k \in DOMAIN session_table' : session_table'[k] \in Calls
    <3> HIDE DEF key
    <3>1. \A k \in DOMAIN session_table : session_table[k] \in Calls
      BY DEF TypeOK
    <3> QED  BY <2>1, <3>1 DEF Insert
  <2>3. /\ loaded' \in BOOLEAN /\ commands' \in 0..MaxCommands
        /\ call' \in [Calls -> {"up", "hung", "gone"}]
        /\ sth' \in [Calls -> BOOLEAN] /\ bug' \in [Calls -> BOOLEAN]
        /\ pTTsStreamer' \in [Calls -> BOOLEAN]
        /\ \A d \in Calls : pTTsStreamer[d] => pTTsStreamer'[d]
        /\ \A d \in Calls : pTTsStreamer'[d] => sth'[d]
    BY <2>1, ExecutesOK DEF InitSession, TypeOK
  <2>7. AskedOK'
    <3>1. params' = [d \in Calls |-> params'[d]]
      BY <1>6 DEF AskedOK, StartLost, StartShort, StartStream
    <3> QED  BY <2>1, <3>1, ExecutesOK DEF AskedOK
  <2>4. CASE StartLost(c, data)
    BY <2>2, <2>3, <2>4, <2>7 DEF StartLost, TypeOK
  <2>5. CASE StartShort(c, data)
    BY <2>2, <2>3, <2>5, <2>7 DEF StartShort, TypeOK
  <2>6. CASE StartStream(c, data)
    <3>1. /\ Handler' \in [Calls -> {"none", "idle", "connected", "rejected"}]
          /\ fault' \in {"no", "start through null", "client replaced"}
      BY <2>1, <2>6, StreamOutcome DEF StartStream, Executes
    <3>2. /\ play_thread' \in [Calls -> BOOLEAN]
          /\ \A d \in Calls : play_thread'[d] => pTTsStreamer'[d]
      BY <2>3, <2>6 DEF StartStream, TypeOK
    <3> QED  BY <2>2, <2>3, <2>7, <3>1, <3>2 DEF TypeOK
  <2> QED  BY <1>6, <2>4, <2>5, <2>6
<1> QED  BY <1>1, <1>2, <1>3, <1>4, <1>5, <1>6 DEF Next

LEMMA TypeInit == Init => IInv
<1> SUFFICES ASSUME Init PROVE IInv
  OBVIOUS
<1>1. DOMAIN session_table = {} /\ commands \in 0..MaxCommands
  BY CommandsAssumption DEF Init
<1>2. TypeOK
  BY <1>1 DEF Init, TypeOK
<1>3. AskedOK
  BY EmptySeq DEF Init, AskedOK
<1> QED  BY <1>2, <1>3 DEF IInv

LEMMA InvHolds == Spec => []IInv
  BY TypeInit, TypeStep, PTL DEF Spec

(* The variables of the module keep their types; no playing thread is      *)
(* without a streamer (tts_session_cleanup drops both), no streamer        *)
(* without a handle.                                                       *)
THEOREM TypeCorrect == Spec => []TypeOK
<1>1. IInv => TypeOK
  BY DEF IInv
<1> QED  BY <1>1, InvHolds, PTL

-----------------------------------------------------------------------------
(* What the table has under a uuid is that call.                           *)
TableIsOwn ==
  \A d \in Calls : <<d>> \in DOMAIN session_table => session_table[<<d>>] = d

LEMMA TableHolds == ASSUME KeysAreOwn PROVE Spec => []TableIsOwn
<1>1. Init => TableIsOwn
  BY DEF Init, TableIsOwn
<1>2. ASSUME IInv, TableIsOwn, [Next]_vars PROVE TableIsOwn'
  <2>1. CASE UNCHANGED session_table
    BY <1>2, <2>1 DEF TableIsOwn
  <2>2. CASE Load
    BY <2>2 DEF Load, TableIsOwn
  <2>3. ASSUME NEW c \in Calls, NEW data \in Data(c),
               session_table' = Insert(parse_command_line(Words(data)).key, c)
        PROVE  TableIsOwn'
    <3> DEFINE key == parse_command_line(Words(data)).key
    <3>1. \A d \in Calls : key = <<d>> => d = c
      BY KeysAreOwn DEF KeysAreOwn
    <3> HIDE DEF key
    <3>2. /\ session_table' = Insert(key, c)
          /\ \A k \in DOMAIN session_table : session_table[k] \in Calls
      BY <1>2, <2>3 DEF IInv, TypeOK, key
    <3>3. /\ DOMAIN session_table' = {key} \cup DOMAIN session_table
          /\ session_table'[key] = c
          /\ \A k \in DOMAIN session_table :
               k # key => session_table'[k] = session_table[k]
      BY <3>2, InsertTable
    <3> QED  BY <1>2, <3>1, <3>3 DEF TableIsOwn
  <2>4. ASSUME NEW c \in Calls, HangupEvent(c) \/ CloseBug(c)
        PROVE  UNCHANGED session_table
    BY <2>4 DEF HangupEvent, CloseBug
  <2>5. ASSUME NEW c \in Calls, NEW data \in Data(c),
               NoCommand(c, data) \/ Refused(c, data) \/ Stop(c, data)
        PROVE  UNCHANGED session_table
    BY <2>5 DEF NoCommand, Refused, Stop
  <2>6. ASSUME NEW c \in Calls, NEW data \in Data(c),
               \/ StartLost(c, data) \/ StartShort(c, data)
               \/ StartStream(c, data)
        PROVE  session_table' = Insert(parse_command_line(Words(data)).key, c)
    BY <2>6 DEF StartLost, StartShort, StartStream
  <2>7. Shutdown \/ UNCHANGED vars => UNCHANGED session_table
    BY DEF Shutdown, vars
  <2> QED  BY <1>2, <2>1, <2>2, <2>3, <2>4, <2>5, <2>6, <2>7 DEF Next
<1> QED  BY <1>1, <1>2, InvHolds, PTL DEF Spec

(* Where a call that hung up still has its streamer, the hangup event did  *)
(* not find it in the table (switch_event_callback), and when its session  *)
(* is gone, it never had the media bug whose CLOSE cleans up; for any      *)
(* number of calls and any commands, if nobody uses the uuid of another as *)
(* a key: nobody enters a call in the table after its hangup.              *)
THEOREM OutlivesUnseen == ASSUME KeysAreOwn PROVE Spec => []OutlivesOnlyUnseen
<1>1. Init => OutlivesOnlyUnseen
  BY DEF Init, OutlivesOnlyUnseen
<1>2. ASSUME IInv, TableIsOwn, OutlivesOnlyUnseen, [Next]_vars
      PROVE  OutlivesOnlyUnseen'
  <2> USE DEF IInv, TypeOK, OutlivesOnlyUnseen
  <2>1. CASE UNCHANGED vars
    BY <1>2, <2>1 DEF vars, session
  <2>2. CASE Load \/ Shutdown
    <3>1. \A c \in Calls : <<c>> \in DOMAIN session_table'
                             => <<c>> \in DOMAIN session_table
      BY <2>2 DEF Load, Shutdown
    <3> QED  BY <1>2, <2>2, <3>1 DEF Load, Shutdown, session
  <2>3. ASSUME NEW c \in Calls, HangupEvent(c)
        PROVE  OutlivesOnlyUnseen'
    <3>1. \A d \in Calls : d # c => call'[d] = call[d]
      BY <1>2, <2>3 DEF HangupEvent
    <3>2. CASE <<c>> \in DOMAIN session_table
      <4>1. Cleanup(c) /\ UNCHANGED session_table
        BY <1>2, <2>3, <3>2 DEF HangupEvent, TableIsOwn
      <4> QED  BY <1>2, <3>1, <4>1 DEF Cleanup
    <3>3. CASE <<c>> \notin DOMAIN session_table
      <4>1. /\ UNCHANGED <<session, session_table>>
            /\ call' = [call EXCEPT ![c] = "hung"]
        BY <2>3, <3>3 DEF HangupEvent
      <4> QED  BY <1>2, <3>1, <3>3, <4>1 DEF session
    <3> QED  BY <3>2, <3>3
  <2>4. ASSUME NEW c \in Calls, CloseBug(c)
        PROVE  OutlivesOnlyUnseen'
    <3>1. CASE bug[c]
      BY <1>2, <2>4, <3>1 DEF CloseBug, Cleanup
    <3>2. CASE ~bug[c]
      BY <1>2, <2>4, <3>2 DEF CloseBug, session
    <3> QED  BY <3>1, <3>2
  <2>5. ASSUME NEW c \in Calls, NEW data \in Data(c),
               NoCommand(c, data) \/ Refused(c, data) \/ Stop(c, data)
        PROVE  OutlivesOnlyUnseen'
    BY <1>2, <2>5
    DEF NoCommand, Refused, Stop, Executes, Cleanup, session
  <2>6. ASSUME NEW c \in Calls, NEW data \in Data(c),
               \/ StartLost(c, data) \/ StartShort(c, data)
               \/ StartStream(c, data)
        PROVE  OutlivesOnlyUnseen'
    <3> DEFINE key == parse_command_line(Words(data)).key
    <3>1. /\ Executes(c, data) /\ InitSession(c)
          /\ session_table' = Insert(key, c)
      BY <2>6 DEF StartLost, StartShort, StartStream
    <3>2. \A d \in Calls : key = <<d>> => d = c
      BY KeysAreOwn DEF KeysAreOwn
    <3> HIDE DEF key
    <3>3. \A d \in Calls :
            d # c => /\ pTTsStreamer'[d] = pTTsStreamer[d]
                     /\ bug'[d] = bug[d]
      BY <1>2, <3>1 DEF InitSession
    <3>4. call' = call /\ call[c] = "up"
      BY <3>1 DEF Executes
    <3>5. DOMAIN session_table' = {key} \cup DOMAIN session_table
      BY <3>1, InsertTable
    <3> QED  BY <1>2, <3>2, <3>3, <3>4, <3>5
  <2> QED  BY <1>2, <2>1, <2>2, <2>3, <2>4, <2>5, <2>6 DEF Next
<1> QED  BY <1>1, <1>2, InvHolds, TableHolds, PTL DEF Spec

(* A hangup ends the stream of no other call (switch_event_callback), for  *)
(* any number of calls, if nobody uses the uuid of another as a key.       *)
THEOREM OthersAreSpared == ASSUME KeysAreOwn PROVE Spec => HangupSparesOthers
<1> DEFINE Spared ==
      \A c, d \in Calls :
        call[c] = "up" /\ call'[c] = "hung" /\ d # c
          => /\ pTTsStreamer'[d] = pTTsStreamer[d]
             /\ Handler'[d] = Handler[d]
<1>1. ASSUME IInv, TableIsOwn, [Next]_vars PROVE Spared \/ UNCHANGED vars
  <2> USE DEF IInv, TypeOK
  <2>1. ASSUME UNCHANGED call PROVE Spared
    BY <1>1, <2>1
  <2>2. ASSUME NEW c \in Calls, HangupEvent(c) PROVE Spared
    <3>1. \A d \in Calls : d # c => call'[d] = call[d]
      BY <1>1, <2>2 DEF HangupEvent
    <3>2. CASE <<c>> \in DOMAIN session_table
      <4>1. session_table[<<c>>] = c
        BY <1>1, <3>2 DEF TableIsOwn
      <4>2. Cleanup(c)
        BY <2>2, <3>2, <4>1 DEF HangupEvent
      <4> QED  BY <1>1, <3>1, <4>2 DEF Cleanup
    <3>3. CASE <<c>> \notin DOMAIN session_table
      BY <1>1, <2>2, <3>3 DEF HangupEvent, session
    <3> QED  BY <3>2, <3>3
  <2>3. ASSUME NEW c \in Calls, CloseBug(c) PROVE Spared
    BY <1>1, <2>3 DEF CloseBug
  <2>4. Load \/ Shutdown => UNCHANGED call
    BY DEF Load, Shutdown
  <2>5. ASSUME NEW c \in Calls, CommandStep(c) PROVE UNCHANGED call
    BY <2>5 DEF CommandStep, NoCommand, Refused, Stop, StartLost, StartShort,
                StartStream, Executes
  <2> QED  BY <1>1, <2>1, <2>2, <2>3, <2>4, <2>5 DEF Next, CommandStep
<1>2. ASSUME IInv, TableIsOwn, [Next]_vars PROVE [Spared]_vars
  BY <1>1, <1>2
<1> QED  BY <1>2, InvHolds, TableHolds, PTL DEF Spec, HangupSparesOthers

-----------------------------------------------------------------------------
LEMMA ArgIsWord ==
  ASSUME NEW argv, NEW i \in Nat, Len(argv) \in Nat,
         \A j \in 1..Len(argv) : argv[j] # <<>>
  PROVE  /\ Arg(argv, i) = Null => Len(argv) <= i
         /\ i < Len(argv) => Arg(argv, i) = argv[i + 1]
<1>1. CASE i < Len(argv)
  <2>1. Arg(argv, i) = argv[i + 1] /\ i + 1 \in 1..Len(argv)
    BY <1>1 DEF Arg
  <2> QED  BY <1>1, <2>1 DEF Null
<1>2. CASE ~(i < Len(argv))
  BY <1>2
<1> QED  BY <1>1, <1>2

(* The null pointers among the arguments of a command are the words that   *)
(* are not there.                                                          *)
LEMMA ArgsOfData ==
  ASSUME NEW c \in Calls, NEW data \in Data(c)
  PROVE  LET argv == Words(data) IN
         /\ Len(argv) \in Nat
         /\ Arg(argv, 1) = Null => Len(argv) <= 1
         /\ Arg(argv, 2) = Null => Len(argv) <= 2
         /\ Arg(argv, 3) = Null => Len(argv) <= 3
         /\ 1 < Len(argv) => Arg(argv, 1) = argv[2]
         /\ 3 < Len(argv) => Arg(argv, 3) = argv[4]
<1> DEFINE argv == Words(data)
<1>1. data \in Seq(STRING)
  BY DataAssumption
<1>2. argv \in Seq(Seq(STRING)) /\ \A j \in 1..Len(argv) : argv[j] # <<>>
  BY <1>1, WordsAreWords
<1> HIDE DEF argv
<1>3. Len(argv) \in Nat
  BY <1>2
<1>4. ASSUME NEW i \in Nat
      PROVE  /\ Arg(argv, i) = Null => Len(argv) <= i
             /\ i < Len(argv) => Arg(argv, i) = argv[i + 1]
  BY <1>2, <1>3, ArgIsWord
<1> QED  BY <1>3, <1>4 DEF argv

(* A command that meets a null pointer or an uninitialised client is a     *)
(* broken one.                                                             *)
LEMMA FaultStep ==
  ASSUME NEW c \in Calls, NEW data \in Data(c), IInv,
         \/ NoCommand(c, data) \/ StartShort(c, data) \/ StartStream(c, data),
         fault' # "no"
  PROVE  Broken(data) /\ last' = data
<1> DEFINE argv == Words(data)
<1>0. /\ Len(argv) \in Nat
      /\ Arg(argv, 1) = Null => Len(argv) <= 1
      /\ Arg(argv, 2) = Null => Len(argv) <= 2
      /\ Arg(argv, 3) = Null => Len(argv) <= 3
      /\ 1 < Len(argv) => Arg(argv, 1) = argv[2]
      /\ 3 < Len(argv) => Arg(argv, 3) = argv[4]
      /\ Len(argv) <= 1 => Arg(argv, 1) = Null
  <2>1. Len(argv) <= 1 => Arg(argv, 1) = Null
    BY ArgsOfData DEF Arg, Null
  <2> QED  BY <2>1, ArgsOfData
<1>1. Executes(c, data)
  BY DEF NoCommand, StartShort, StartStream
<1>2. last' = data /\ fault = "no"
  BY <1>1 DEF Executes
<1>3. CASE NoCommand(c, data)
  <2>1. Arg(argv, 1) = Null /\ data # <<>>
    BY <1>3 DEF NoCommand, parse_command_line
  <2> HIDE DEF argv
  <2>2. Len(argv) < 2
    BY <1>0, <2>1
  <2> QED  BY <1>2, <2>1, <2>2 DEF Broken, argv
<1>4. ASSUME Arg(argv, 1) = <<"start">>,
             \/ Arg(argv, 2) = Null \/ Arg(argv, 3) # <<"ws">>
      PROVE  Broken(data)
  <2> HIDE DEF argv
  <2>1. Len(argv) >= 2 /\ argv[2] = <<"start">>
    <3>1. Arg(argv, 1) # Null
      BY <1>4 DEF Null
    <3> QED  BY <1>0, <1>4, <3>1
  <2>2. Len(argv) < 4 \/ argv[4] # <<"ws">>
    BY <1>0, <1>4
  <2> QED  BY <2>1, <2>2 DEF Broken, argv
<1>5. CASE StartShort(c, data)
  <2>1. /\ Arg(argv, 1) = <<"start">>
        /\ Arg(argv, 2) = Null \/ Arg(argv, 3) = Null
    BY <1>5 DEF StartShort, NullArgument, parse_command_line
  <2>2. Null # <<"ws">>
    BY DEF Null
  <2> QED  BY <1>2, <1>4, <2>1, <2>2
<1>6. CASE StartStream(c, data)
  <2>1. /\ Arg(argv, 1) = <<"start">>
        /\ CreateStream(c, Arg(argv, 3), CatLastN(argv, 4))
    BY <1>6 DEF StartStream, parse_command_line
  <2>2. Arg(argv, 3) # <<"ws">>
    BY <1>2, <2>1, StreamOutcome DEF IInv
  <2> QED  BY <1>2, <1>4, <2>1, <2>2
<1> QED  BY <1>3, <1>5, <1>6

(* When the execution of a command ends the process, that command had      *)
(* words missing or an unknown type (forkzstream_start, create_stream),    *)
(* for any data and in any order on any number of calls.                   *)
THEOREM BadCommandsOnly == Spec => []FaultIsBadCommand
<1>1. Init => FaultIsBadCommand
  BY DEF Init, FaultIsBadCommand
<1>2. ASSUME IInv, FaultIsBadCommand, [Next]_vars PROVE FaultIsBadCommand'
  <2>1. ASSUME UNCHANGED fault, fault = "no" PROVE FaultIsBadCommand'
    BY <2>1 DEF FaultIsBadCommand
  <2>2. CASE UNCHANGED vars
    BY <1>2, <2>2 DEF vars, FaultIsBadCommand
  <2>3. CASE Load \/ Shutdown
    BY <2>1, <2>3 DEF Load, Shutdown
  <2>4. ASSUME NEW c \in Calls, HangupEvent(c) \/ CloseBug(c)
        PROVE  FaultIsBadCommand'
    BY <2>1, <2>4 DEF HangupEvent, CloseBug
  <2>5. ASSUME NEW c \in Calls, NEW data \in Data(c),
               \/ Refused(c, data) \/ Stop(c, data) \/ StartLost(c, data)
        PROVE  FaultIsBadCommand'
    BY <2>1, <2>5 DEF Refused, Stop, StartLost, Executes
  <2>6. ASSUME NEW c \in Calls, NEW data \in Data(c),
               \/ NoCommand(c, data) \/ StartShort(c, data)
               \/ StartStream(c, data)
        PROVE  FaultIsBadCommand'
    <3>1. fault' # "no" => Broken(data) /\ last' = data
      BY <1>2, <2>6, FaultStep
    <3>2. fault' # "no" => Broken(last')
      BY <3>1
    <3> QED  BY <3>2 DEF FaultIsBadCommand, Broken
  <2> QED  BY <1>2, <2>2, <2>3, <2>4, <2>5, <2>6 DEF Next
<1> QED  BY <1>1, <1>2, InvHolds, PTL DEF Spec

-----------------------------------------------------------------------------
(* A call with a complete start behind it was given the parameters of that *)
(* start, and its handler tried to connect if they had all the keys.       *)
StartedAs(data, text, h) ==
  /\ text = CatLastN(Words(data), 4)
  /\ Words(data)[4] = <<"ws">> =>
       (h \in {"connected", "rejected"} <=> Has(text, HandlerKeys))

TextInv ==
  \A c \in Calls : Started(c) => StartedAs(asked[c], params[c], Handler[c])

CompleteStart(data) ==
  Len(Words(data)) >= 4 /\ Words(data)[2] = <<"start">>

(* A command that is no complete start leaves none behind.                 *)
LEMMA NoStart ==
  ASSUME NEW c \in Calls, NEW data \in Data(c),
         \/ NoCommand(c, data) \/ Refused(c, data) \/ Stop(c, data)
         \/ StartShort(c, data)
  PROVE  ~CompleteStart(data)
<1> DEFINE argv == Words(data)
           command == Arg(argv, 1)
<1> SUFFICES ASSUME Len(argv) >= 4, argv[2] = <<"start">> PROVE FALSE
  BY DEF CompleteStart
<1>1. /\ command = <<"start">> /\ command # Null
      /\ Arg(argv, 2) # Null /\ Arg(argv, 3) # Null
  <2>1. /\ Len(argv) \in Nat
        /\ Arg(argv, 1) = Null => Len(argv) <= 1
        /\ Arg(argv, 2) = Null => Len(argv) <= 2
        /\ Arg(argv, 3) = Null => Len(argv) <= 3
        /\ 1 < Len(argv) => Arg(argv, 1) = argv[2]
    BY ArgsOfData
  <2> HIDE DEF argv
  <2> QED  BY <2>1
<1>2. data # <<>>
  <2>1. data \in Seq(STRING)
    BY DataAssumption
  <2>2. data = <<>> => Starts(data) = {}
    BY DEF Starts
  <2>3. data = <<>> => Len(argv) = 0
    BY <2>1, <2>2, WordsAreWords, FS_EmptySet
  <2> HIDE DEF argv
  <2> QED  BY <2>3
<1> HIDE DEF argv
<1>3. CASE NoCommand(c, data)
  BY <1>1, <1>3 DEF NoCommand, parse_command_line, argv
<1>4. CASE Refused(c, data)
  BY <1>1, <1>2, <1>4 DEF Refused, parse_command_line, argv
<1>5. CASE Stop(c, data)
  <2>1. command = <<"stop">>
    BY <1>5 DEF Stop, parse_command_line, argv
  <2> QED  BY <1>1, <2>1
<1>6. CASE StartShort(c, data)
  BY <1>1, <1>6 DEF StartShort, NullArgument, parse_command_line, argv
<1> QED  BY <1>3, <1>4, <1>5, <1>6

(* What create_stream leaves behind a complete start.                      *)
LEMMA StreamAsAsked ==
  ASSUME NEW c \in Calls, NEW data \in Data(c), IInv, StartStream(c, data),
         CompleteStart(data)
  PROVE  StartedAs(data, params'[c], Handler'[c])
<1> DEFINE argv == Words(data)
           type == Arg(argv, 3)
           text == CatLastN(argv, 4)
<1>1. params' = [params EXCEPT ![c] = text] /\ CreateStream(c, type, text)
  BY DEF StartStream, parse_command_line
<1>2. type = argv[4]
  <2>1. Len(argv) \in Nat /\ (3 < Len(argv) => Arg(argv, 3) = argv[4])
    BY ArgsOfData
  <2>2. Len(argv) >= 4
    BY DEF CompleteStart
  <2> HIDE DEF argv
  <2> QED  BY <2>1, <2>2
<1>3. params'[c] = text
  <2> HIDE DEF text
  <2> QED  BY <1>1 DEF IInv, AskedOK
<1> HIDE DEF type, text
<1>4. ASSUME type = <<"ws">>
      PROVE  Handler'[c] \in {"connected", "rejected"} <=> Has(text, HandlerKeys)
  <2>1. HandlerOf(c, type) = "idle"
    BY <1>4 DEF HandlerOf
  <2>2. Has(text, HandlerKeys) => Has(text, StreamKeys)
    BY DEF Has, HandlerKeys
  <2>3. CASE ~Has(text, HandlerKeys)
    <3>1. Handler' = [Handler EXCEPT ![c] = "idle"]
      BY <1>1, <2>1, <2>3 DEF CreateStream
    <3> QED  BY <2>3, <3>1 DEF IInv, TypeOK
  <2>4. CASE Has(text, HandlerKeys)
    <3>1. \E outcome \in {"connected", "rejected"} :
            Handler' = [Handler EXCEPT ![c] = outcome]
      BY <1>1, <2>1, <2>2, <2>4 DEF CreateStream
    <3> QED  BY <2>4, <3>1 DEF IInv, TypeOK
  <2> QED  BY <2>3, <2>4
<1> QED  BY <1>2, <1>3, <1>4 DEF StartedAs, text

LEMMA TextHolds == Spec => []TextInv
<1>1. Init => TextInv
  BY DEF Init, TextInv, Started
<1>2. ASSUME IInv, TextInv, [Next]_vars PROVE TextInv'
  <2>1. ASSUME UNCHANGED <<session, asked, params>> PROVE TextInv'
    BY <1>2, <2>1 DEF session, TextInv, Started
  <2>2. CASE Load \/ Shutdown \/ UNCHANGED vars
    BY <2>1, <2>2 DEF Load, Shutdown, vars
  <2>3. ASSUME NEW c \in Calls, Cleanup(c), UNCHANGED <<asked, params>>
        PROVE  TextInv'
    BY <1>2, <2>3 DEF Cleanup, TextInv, Started, IInv, TypeOK
  <2>4. ASSUME NEW c \in Calls, HangupEvent(c) \/ CloseBug(c) PROVE TextInv'
    <3>1. \/ Cleanup(c) \/ UNCHANGED session
          \/ /\ <<c>> \in DOMAIN session_table
             /\ Cleanup(session_table[<<c>>])
      BY <2>4 DEF HangupEvent, CloseBug
    <3>2. UNCHANGED <<asked, params>>
      BY <2>4 DEF HangupEvent, CloseBug
    <3>3. <<c>> \in DOMAIN session_table => session_table[<<c>>] \in Calls
      BY <1>2 DEF IInv, TypeOK
    <3> QED  BY <2>1, <2>3, <3>1, <3>2, <3>3
  <2>5. ASSUME NEW c \in Calls, NEW data \in Data(c), CommandStep(c),
               Executes(c, data),
               \A d \in Calls : d # c =>
                 /\ pTTsStreamer'[d] = pTTsStreamer[d]
                 /\ Handler'[d] = Handler[d] /\ params'[d] = params[d],
               pTTsStreamer'[c] /\ CompleteStart(data)
                 => StartedAs(data, params'[c], Handler'[c])
        PROVE  TextInv'
    <3>1. \A d \in Calls : asked'[d] = IF d = c THEN data ELSE asked[d]
      BY <1>2, <2>5, ExecutesOK
    <3>2. ASSUME NEW d \in Calls, Started(d)'
          PROVE  StartedAs(asked'[d], params'[d], Handler'[d])
      <4>1. CASE d = c
        <5>1. asked'[c] = data
          BY <3>1
        <5>2. pTTsStreamer'[c] /\ CompleteStart(data)
          BY <3>2, <4>1, <5>1 DEF Started, CompleteStart
        <5> QED  BY <2>5, <4>1, <5>1, <5>2
      <4>2. CASE d # c
        <5>1. /\ pTTsStreamer'[d] = pTTsStreamer[d] /\ asked'[d] = asked[d]
              /\ Handler'[d] = Handler[d] /\ params'[d] = params[d]
          BY <2>5, <3>1, <4>2
        <5>2. Started(d)
          BY <3>2, <5>1 DEF Started
        <5> QED  BY <1>2, <5>1, <5>2 DEF TextInv
      <4> QED  BY <4>1, <4>2
    <3> QED  BY <3>2 DEF TextInv
  <2>6. ASSUME NEW c \in Calls, NEW data \in Data(c),
               \/ NoCommand(c, data) \/ Refused(c, data) \/ Stop(c, data)
               \/ StartShort(c, data)
        PROVE  TextInv'
    <3>1. ~CompleteStart(data)
      BY <2>6, NoStart
    <3>2. Executes(c, data)
      BY <2>6 DEF NoCommand, Refused, Stop, StartShort
    <3>3. ASSUME NEW d \in Calls, d # c
          PROVE  /\ pTTsStreamer'[d] = pTTsStreamer[d]
                 /\ Handler'[d] = Handler[d] /\ params'[d] = params[d]
      BY <1>2, <2>6, <3>3
      DEF NoCommand, Refused, Stop, StartShort, Cleanup, InitSession, session,
          IInv, TypeOK, AskedOK
    <3>4. CommandStep(c)
      BY <2>6 DEF CommandStep
    <3> QED  BY <2>5, <3>1, <3>2, <3>3, <3>4
  <2>7. ASSUME NEW c \in Calls, NEW data \in Data(c), StartLost(c, data)
        PROVE  TextInv'
    <3>1. Executes(c, data) /\ ~pTTsStreamer'[c] /\ CommandStep(c)
      BY <2>7 DEF StartLost, CommandStep
    <3>2. ASSUME NEW d \in Calls, d # c
          PROVE  /\ pTTsStreamer'[d] = pTTsStreamer[d]
                 /\ Handler'[d] = Handler[d] /\ params'[d] = params[d]
      BY <1>2, <2>7, <3>2 DEF StartLost, InitSession, IInv, TypeOK
    <3> QED  BY <2>5, <3>1, <3>2
  <2>8. ASSUME NEW c \in Calls, NEW data \in Data(c), StartStream(c, data)
        PROVE  TextInv'
    <3>1. Executes(c, data) /\ CommandStep(c) /\ InitSession(c)
      BY <2>8 DEF StartStream, CommandStep
    <3>2. CompleteStart(data) => StartedAs(data, params'[c], Handler'[c])
      BY <1>2, <2>8, StreamAsAsked
    <3>3. ASSUME NEW d \in Calls, d # c
          PROVE  /\ pTTsStreamer'[d] = pTTsStreamer[d]
                 /\ Handler'[d] = Handler[d] /\ params'[d] = params[d]
      <4>1. pTTsStreamer'[d] = pTTsStreamer[d]
        BY <1>2, <3>1, <3>3 DEF InitSession, IInv, TypeOK
      <4>2. params'[d] = params[d]
        BY <1>2, <2>8, <3>3 DEF StartStream, IInv, AskedOK
      <4>3. \/ UNCHANGED Handler
            \/ \E h : Handler' = [Handler EXCEPT ![c] = h]
        BY <2>8 DEF StartStream, CreateStream
      <4>4. Handler'[d] = Handler[d]
        BY <1>2, <3>3, <4>3 DEF IInv, TypeOK
      <4> QED  BY <4>1, <4>2, <4>4
    <3> QED  BY <2>5, <3>1, <3>2, <3>3
  <2> QED  BY <1>2, <2>2, <2>4, <2>6, <2>7, <2>8 DEF Next
<1> QED  BY <1>1, <1>2, InvHolds, PTL DEF Spec

(* Whatever text follows the fourth word, splitting the command and        *)
(* joining the words again (parse_command_line, cat_last_n) gives          *)
(* create_stream that text, if its blanks are single.                      *)
THEOREM ParamsArrive == Spec => []ParamsAsWritten
<1>1. ASSUME IInv, TextInv PROVE ParamsAsWritten
  <2>1. ASSUME NEW c \in Calls, Started(c), SingleBlanks(Written(asked[c]))
        PROVE  params[c] = Written(asked[c])
    <3> DEFINE T == STRING \cup {Blank}
    <3>1. asked[c] \in Seq(T) /\ Blank \in T
      <4>1. asked[c] \in Seq(STRING)
        BY <1>1 DEF IInv, AskedOK
      <4> QED  BY <4>1
    <3> HIDE DEF T
    <3>2. params[c] = CatLastN(Words(asked[c]), 4)
      BY <1>1, <2>1 DEF TextInv, StartedAs
    <3> QED  BY <2>1, <3>1, <3>2, CommandText
  <2> QED  BY <2>1 DEF ParamsAsWritten
<1> QED  BY <1>1, InvHolds, TextHolds, PTL

(* However the blanks stand, a start of type ws tries to connect exactly   *)
(* when the text it was given has every key that create_stream and         *)
(* startHandler read, on any number of calls and after any commands.       *)
THEOREM CompleteConnects == Spec => []ConnectsWhenComplete
<1>1. ASSUME IInv, TextInv PROVE ConnectsWhenComplete
  <2>1. ASSUME NEW c \in Calls, Started(c), Words(asked[c])[4] = <<"ws">>
        PROVE  Handler[c] \in {"connected", "rejected"}
                 <=> Has(Written(asked[c]), HandlerKeys)
    <3> DEFINE text == CatLastN(Words(asked[c]), 4)
    <3> DEFINE T == STRING \cup {Blank}
    <3>1. asked[c] \in Seq(T) /\ Blank \in T
      <4>1. asked[c] \in Seq(STRING)
        BY <1>1 DEF IInv, AskedOK
      <4> QED  BY <4>1
    <3> HIDE DEF T
    <3>2. /\ params[c] = text
          /\ Handler[c] \in {"connected", "rejected"}
               <=> Has(params[c], HandlerKeys)
      BY <1>1, <2>1 DEF TextInv, StartedAs
    <3>3. SameTokens(text, Written(asked[c]))
      BY <3>1, CommandText
    <3>4. Has(text, HandlerKeys) <=> Has(Written(asked[c]), HandlerKeys)
      BY <3>3, KeysDespiteBlanks
    <3> QED  BY <3>2, <3>4
  <2> QED  BY <2>1 DEF ConnectsWhenComplete
<1> QED  BY <1>1, InvHolds, TextHolds, PTL
=============================================================================

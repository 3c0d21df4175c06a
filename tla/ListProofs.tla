----------------------------- MODULE ListProofs -----------------------------
(***************************************************************************)
(* Facts about the lists of Lists: what they weigh, what is left of them,  *)
(* and what a loop removes from their front.  They are proved by induction *)
(* on the length of a list.                                                *)
(***************************************************************************)
EXTENDS Lists, WellFoundedInduction, SequenceTheorems, TLAPS

(* Every set of naturals that has a member has a least one: the relation < *)
(* on Nat is well-founded.                                                 *)
LEMMA LeastNumber ==
  ASSUME NEW T, T \subseteq Nat, T # {}
  PROVE  \E n \in T : \A m \in T : n <= m
<1>1. PICK n \in T : \A m \in T : ~ (<<m, n>> \in OpToRel(<, Nat))
  BY WFMin, NatLessThanWellFounded, Zenon
<1>2. \A m \in T : ~ (<<m, n>> \in {ss \in Nat \X Nat : ss[1] < ss[2]})
  BY <1>1, Zenon DEF OpToRel
<1>3. ASSUME NEW m \in T PROVE n <= m
  <2>1. m \in Nat /\ n \in Nat
    OBVIOUS
  <2>2. m < n => <<m, n>> \in {ss \in Nat \X Nat : ss[1] < ss[2]}
    BY <2>1, Zenon
  <2>3. ~(m < n)
    BY <2>2, <1>2, Zenon
  <2> QED BY <2>1, <2>3
<1> QED
  BY <1>3

(* Induction over the naturals, stated of the set of the numbers that have *)
(* the property.  The library's own theorem takes the property as an       *)
(* operator, which the provers here cannot instantiate.                    *)
LEMMA Induction ==
  ASSUME NEW S, 0 \in S, \A n \in Nat : n \in S => n + 1 \in S
  PROVE  Nat \subseteq S
<1> SUFFICES ASSUME Nat \ S # {} PROVE FALSE
  OBVIOUS
<1>1. PICK n \in Nat \ S : \A m \in Nat \ S : n <= m
  <2>1. Nat \ S \subseteq Nat
    OBVIOUS
  <2> QED BY <2>1, LeastNumber
<1>2. n # 0 /\ n - 1 \in Nat /\ n - 1 \in S
  BY <1>1
<1> QED
  BY <1>1, <1>2

(* Induction over lists: a set that has the empty list and, with a list,   *)
(* each of its extensions by one element has all lists.                    *)
LEMMA ListInduction ==
  ASSUME NEW T, NEW S, <<>> \in S,
         \A s \in Seq(T), e \in T : s \in S => Append(s, e) \in S
  PROVE  Seq(T) \subseteq S
<1> DEFINE N == {n \in Nat : \A s \in Seq(T) : Len(s) = n => s \in S}
<1>1. 0 \in N
  <2>1. \A s \in Seq(T) : Len(s) = 0 => s = <<>>
    BY EmptySeq
  <2> QED BY <2>1
<1>2. ASSUME NEW n \in Nat, n \in N PROVE n + 1 \in N
  <2> SUFFICES ASSUME NEW s \in Seq(T), Len(s) = n + 1 PROVE s \in S
    OBVIOUS
  <2>1. PICK t \in Seq(T), e \in T : s = Append(t, e)
    BY SequenceEmptyOrAppend, EmptySeq
  <2>2. Len(t) = n
    BY <2>1, AppendProperties, LenProperties
  <2> QED BY <2>1, <2>2, <1>2
<1>3. Nat \subseteq N
  <2> HIDE DEF N
  <2> QED BY <1>1, <1>2, Induction
<1> QED
  BY <1>3, LenProperties

(* A function that is built up by the steps step[1], ..., step[n].         *)
Steps(f, base, step, n) ==
  f[0] = base /\ \A i \in 1..n : f[i] = step[i][f[i - 1]]

(* A function on 0..N can be defined step by step.                         *)
LEMMA Recursion ==
  ASSUME NEW T, NEW base \in T, NEW N \in Nat, NEW step \in [1..N -> [T -> T]]
  PROVE  \E f \in [0..N -> T] : Steps(f, base, step, N)
<1> USE DEF Steps
<1> DEFINE P(n, f) == Steps(f, base, step, n)
           S == {n \in Nat : n <= N => \E f \in [0..n -> T] : P(n, f)}
<1>1. 0 \in S
  <2>1. [i \in 0..0 |-> base] \in [0..0 -> T] /\ P(0, [i \in 0..0 |-> base])
    OBVIOUS
  <2> QED BY <2>1
<1>2. ASSUME NEW n \in Nat, n \in S PROVE n + 1 \in S
  <2> SUFFICES ASSUME n + 1 <= N PROVE \E f \in [0..(n+1) -> T] : P(n+1, f)
    OBVIOUS
  <2>1. PICK f \in [0..n -> T] : P(n, f)
    BY <1>2
  <2> DEFINE g == [i \in 0..(n+1) |-> IF i = n+1 THEN step[n+1][f[n]] ELSE f[i]]
  <2>2. step[n+1][f[n]] \in T
    OBVIOUS
  <2>3. g \in [0..(n+1) -> T]
    BY <2>2
  <2>4. P(n+1, g)
    BY <2>1, <2>3
  <2> QED BY <2>3, <2>4
<1>3. N \in S
  <2> HIDE DEF S
  <2> QED BY <1>1, <1>2, Induction
<1> QED
  BY <1>3

(* The function in the definition of Total,                                *)
IsSum(f, w, s) ==
  f = [i \in 0..Len(s) |-> IF i = 0 THEN 0 ELSE f[i - 1] + w[s[i]]]

(* What the recursive definition of Total says of each place.              *)
LEMMA SumSteps ==
  ASSUME NEW f, NEW w, NEW s, Len(s) \in Nat, IsSum(f, w, s)
  PROVE  f[0] = 0 /\ \A i \in 1..Len(s) : f[i] = f[i - 1] + w[s[i]]
<1>1. \A i \in 0..Len(s) : f[i] = IF i = 0 THEN 0 ELSE f[i - 1] + w[s[i]]
  BY Zenon DEF IsSum
<1> QED
  BY <1>1

(* The function that Total chooses exists.                                 *)
LEMMA SumExists ==
  ASSUME NEW T, NEW w \in [T -> Nat], NEW s \in Seq(T)
  PROVE  \E f \in [0..Len(s) -> Nat] : IsSum(f, w, s)
<1> DEFINE step == [i \in 1..Len(s) |-> [n \in Nat |-> n + w[s[i]]]]
<1>1. Len(s) \in Nat /\ \A i \in 1..Len(s) : w[s[i]] \in Nat
  BY LenProperties, ElementOfSeq
<1>2. step \in [1..Len(s) -> [Nat -> Nat]]
  BY <1>1
<1>3. PICK f \in [0..Len(s) -> Nat] :
        Steps(f, 0, step, Len(s))
  <2> HIDE DEF step
  <2>1. 0 \in Nat
    OBVIOUS
  <2>2. Len(s) \in Nat
    BY <1>1
  <2> QED BY <1>2, <2>1, <2>2, Recursion, Zenon
<1>4. ASSUME NEW i \in 1..Len(s) PROVE f[i] = f[i - 1] + w[s[i]]
  <2>0. Len(s) \in Nat
    BY <1>1
  <2>3. i - 1 \in 0..Len(s)
    BY <2>0
  <2>1. f[i - 1] \in Nat
    BY <2>3
  <2>2. step[i] = [n \in Nat |-> n + w[s[i]]]
    OBVIOUS
  <2> QED BY <1>3, <2>1, <2>2 DEF Steps
<1>5. IsSum(f, w, s)
  BY <1>1, <1>3, <1>4 DEF IsSum, Steps
<1> QED
  BY <1>5

(* and any function like it gives the same sum.                            *)
LEMMA TotalIsSum ==
  ASSUME NEW T, NEW w \in [T -> Nat], NEW s \in Seq(T),
         NEW f, IsSum(f, w, s)
  PROVE  Total(w, s) = f[Len(s)]
<1> DEFINE g == CHOOSE g : IsSum(g, w, s)
           S == {n \in Nat : n <= Len(s) => g[n] = f[n]}
<1>1. IsSum(g, w, s)
  OBVIOUS
<1>2. Total(w, s) = g[Len(s)]
  BY DEF Total, IsSum
<1> HIDE DEF g
<1>3. Len(s) \in Nat
  BY LenProperties
<1>4. 0 \in S
  BY <1>1, <1>3 DEF IsSum
<1>5. ASSUME NEW n \in Nat, n \in S PROVE n + 1 \in S
  BY <1>1, <1>3, <1>5 DEF IsSum
<1>6. Len(s) \in S
  <2> HIDE DEF S
  <2> QED BY <1>3, <1>4, <1>5, Induction
<1> QED
  BY <1>2, <1>3, <1>6

(* The sum of natural weights is a natural number.                         *)
LEMMA TotalType ==
  ASSUME NEW T, NEW w \in [T -> Nat], NEW s \in Seq(T)
  PROVE  Total(w, s) \in Nat
BY SumExists, TotalIsSum, LenProperties

(* An empty list weighs nothing.                                           *)
LEMMA TotalEmpty ==
  ASSUME NEW T, NEW w \in [T -> Nat]
  PROVE  Total(w, <<>>) = 0
<1>1. <<>> \in Seq(T) /\ Len(<<>>) = 0
  BY EmptySeq
<1>2. PICK f \in [0..Len(<<>>) -> Nat] : IsSum(f, w, <<>>)
  BY <1>1, SumExists
<1>3. f[0] = 0
  BY <1>1, <1>2 DEF IsSum
<1> QED
  BY <1>1, <1>2, <1>3, TotalIsSum

(* A list that is longer by one element weighs more by that element,       *)
LEMMA TotalOneMore ==
  ASSUME NEW T, NEW w \in [T -> Nat], NEW s \in Seq(T), NEW t \in Seq(T),
         Len(t) = Len(s) + 1, \A i \in 1..Len(s) : t[i] = s[i]
  PROVE  Total(w, t) = Total(w, s) + w[t[Len(t)]]
<1>1. Len(s) \in Nat /\ Len(t) \in Nat
  BY LenProperties
<1>2. PICK f \in [0..Len(t) -> Nat] : IsSum(f, w, t)
  BY SumExists
<1>3. f[0] = 0 /\ \A i \in 1..Len(t) : f[i] = f[i - 1] + w[t[i]]
  BY <1>1, <1>2, SumSteps
<1>4. Total(w, t) = f[Len(t)]
  BY <1>2, TotalIsSum
<1> DEFINE g == [i \in 0..Len(s) |-> f[i]]
<1>5. ASSUME NEW i \in 0..Len(s)
      PROVE  g[i] = IF i = 0 THEN 0 ELSE g[i - 1] + w[s[i]]
  <2>1. CASE i = 0
    BY <1>3, <2>1
  <2>2. CASE i # 0
    <3>1. i \in 1..Len(s) /\ i \in 1..Len(t) /\ i - 1 \in 0..Len(s)
      BY <1>1, <2>2
    <3> QED BY <1>3, <2>2, <3>1
  <2> QED BY <2>1, <2>2
<1>6. IsSum(g, w, s)
  BY <1>5 DEF IsSum
<1>7. Total(w, s) = g[Len(s)]
  <2> HIDE DEF g
  <2> QED BY <1>6, TotalIsSum
<1>8. Len(t) \in 1..Len(t) /\ Len(t) - 1 = Len(s) /\ Len(s) \in 0..Len(s)
  BY <1>1
<1> QED
  BY <1>3, <1>4, <1>7, <1>8

(* in other words, Append adds the weight of what it appends.              *)
LEMMA TotalAppend ==
  ASSUME NEW T, NEW w \in [T -> Nat], NEW s \in Seq(T), NEW e \in T
  PROVE  Total(w, Append(s, e)) = Total(w, s) + w[e]
<1>1. /\ Append(s, e) \in Seq(T)
      /\ Len(Append(s, e)) = Len(s) + 1
      /\ \A i \in 1..Len(s) : Append(s, e)[i] = s[i]
      /\ Append(s, e)[Len(s) + 1] = e
  BY AppendProperties
<1>2. PICK t : t = Append(s, e)
  OBVIOUS
<1>3. Total(w, t) = Total(w, s) + w[t[Len(t)]]
  BY <1>1, <1>2, TotalOneMore, Zenon
<1>4. t[Len(t)] = e
  BY <1>1, <1>2, Zenon
<1> QED
  BY <1>2, <1>3, <1>4, Zenon

(* The function in the definition of Without,                              *)
IsRest(f, s, S) ==
  f = [i \in 0..Len(s) |->
         IF i = 0 THEN <<>>
         ELSE IF s[i] \in S THEN f[i - 1]
         ELSE Append(f[i - 1], s[i])]

(* and one place of it.                                                    *)
RestStep(f, s, S, i) ==
  f[i] = IF s[i] \in S THEN f[i - 1] ELSE Append(f[i - 1], s[i])

(* The same for Without: its equations, place by place,                    *)
LEMMA RestSteps ==
  ASSUME NEW f, NEW s, NEW S, Len(s) \in Nat, IsRest(f, s, S)
  PROVE  f[0] = <<>> /\ \A i \in 1..Len(s) : RestStep(f, s, S, i)
<1>1. \A i \in 0..Len(s) :
        f[i] = IF i = 0 THEN <<>>
               ELSE IF s[i] \in S THEN f[i - 1]
               ELSE Append(f[i - 1], s[i])
  BY Zenon DEF IsRest
<1> QED
  BY <1>1 DEF RestStep

(* and back.                                                               *)
LEMMA StepsRest ==
  ASSUME NEW f, NEW s, NEW S, Len(s) \in Nat, f = [i \in 0..Len(s) |-> f[i]],
         f[0] = <<>>, \A i \in 1..Len(s) : RestStep(f, s, S, i)
  PROVE  IsRest(f, s, S)
<1>1. ASSUME NEW i \in 0..Len(s)
      PROVE  f[i] = IF i = 0 THEN <<>>
                    ELSE IF s[i] \in S THEN f[i - 1]
                    ELSE Append(f[i - 1], s[i])
  <2>1. i # 0 => i \in 1..Len(s)
    OBVIOUS
  <2>2. CASE i = 0
    BY <2>2
  <2>3. CASE i # 0
    BY <2>1, <2>3 DEF RestStep
  <2> QED BY <2>2, <2>3
<1> QED
  BY <1>1, Zenon DEF IsRest

(* The function that Without chooses exists,                               *)
LEMMA RestExists ==
  ASSUME NEW T, NEW s \in Seq(T), NEW S
  PROVE  \E f \in [0..Len(s) -> Seq(T)] : IsRest(f, s, S)
<1> DEFINE step == [i \in 1..Len(s) |->
                     [q \in Seq(T) |-> IF s[i] \in S THEN q ELSE Append(q, s[i])]]
<1>1. Len(s) \in Nat
  BY LenProperties
<1>2. \A i \in 1..Len(s), q \in Seq(T) : Append(q, s[i]) \in Seq(T)
  BY ElementOfSeq, AppendProperties
<1>3. step \in [1..Len(s) -> [Seq(T) -> Seq(T)]]
  BY <1>2
<1>4. PICK f \in [0..Len(s) -> Seq(T)] : Steps(f, <<>>, step, Len(s))
  <2> HIDE DEF step
  <2>1. <<>> \in Seq(T)
    BY EmptySeq
  <2> QED BY <1>1, <1>3, <2>1, Recursion, Zenon
<1>5. ASSUME NEW i \in 1..Len(s) PROVE RestStep(f, s, S, i)
  <2>1. i - 1 \in 0..Len(s)
    BY <1>1
  <2>2. f[i - 1] \in Seq(T)
    BY <2>1
  <2>3. step[i] = [q \in Seq(T) |-> IF s[i] \in S THEN q ELSE Append(q, s[i])]
    BY Zenon
  <2>4. f[i] = step[i][f[i - 1]]
    BY <1>4, Zenon DEF Steps
  <2>5. f[i] = IF s[i] \in S THEN f[i - 1] ELSE Append(f[i - 1], s[i])
    BY <2>2, <2>3, <2>4, Zenon
  <2> QED BY <2>5, Zenon DEF RestStep
<1>6. f[0] = <<>>
  BY <1>4, Zenon DEF Steps
<1>7. f = [i \in 0..Len(s) |-> f[i]]
  BY Zenon
<1>8. IsRest(f, s, S)
  BY <1>1, <1>5, <1>6, <1>7, StepsRest, Zenon
<1> QED
  BY <1>8

(* and any function like it gives the same list.                           *)
LEMMA WithoutIsRest ==
  ASSUME NEW T, NEW s \in Seq(T), NEW S, NEW f, IsRest(f, s, S)
  PROVE  Without(s, S) = f[Len(s)]
<1> DEFINE g == CHOOSE g : IsRest(g, s, S)
           N == {n \in Nat : n <= Len(s) => g[n] = f[n]}
<1>1. IsRest(g, s, S)
  OBVIOUS
<1>2. Without(s, S) = g[Len(s)]
  BY Zenon DEF Without, IsRest
<1> HIDE DEF g
<1>3. Len(s) \in Nat
  BY LenProperties
<1>4. /\ f[0] = <<>> /\ \A i \in 1..Len(s) : RestStep(f, s, S, i)
      /\ g[0] = <<>> /\ \A i \in 1..Len(s) : RestStep(g, s, S, i)
  BY <1>1, <1>3, RestSteps
<1>5. 0 \in N
  BY <1>4
<1>6. ASSUME NEW n \in Nat, n \in N PROVE n + 1 \in N
  <2> SUFFICES ASSUME n + 1 <= Len(s) PROVE g[n + 1] = f[n + 1]
    OBVIOUS
  <2>1. n + 1 \in 1..Len(s) /\ n + 1 - 1 = n /\ g[n] = f[n]
    BY <1>3, <1>6
  <2>2. RestStep(f, s, S, n + 1) /\ RestStep(g, s, S, n + 1)
    BY <1>4, <2>1
  <2> QED BY <2>1, <2>2 DEF RestStep
<1>7. Len(s) \in N
  <2> HIDE DEF N
  <2> QED BY <1>3, <1>5, <1>6, Induction
<1> QED
  BY <1>2, <1>3, <1>7

(* What is left is a list of the same kind.                                *)
LEMMA WithoutType ==
  ASSUME NEW T, NEW s \in Seq(T), NEW S
  PROVE  Without(s, S) \in Seq(T)
<1>1. PICK f \in [0..Len(s) -> Seq(T)] : IsRest(f, s, S)
  BY RestExists
<1>2. Len(s) \in 0..Len(s)
  BY LenProperties
<1>3. Without(s, S) = f[Len(s)]
  BY <1>1, WithoutIsRest
<1> QED
  BY <1>2, <1>3

(* Nothing is left of nothing.                                             *)
LEMMA WithoutEmpty ==
  ASSUME NEW S
  PROVE  Without(<<>>, S) = <<>>
<1>1. <<>> \in Seq({}) /\ Len(<<>>) = 0
  BY EmptySeq
<1>2. PICK f \in [0..Len(<<>>) -> Seq({})] : IsRest(f, <<>>, S)
  BY <1>1, RestExists
<1>3. f[0] = <<>>
  BY <1>1, <1>2, RestSteps
<1>4. Without(<<>>, S) = f[Len(<<>>)]
  BY <1>1, <1>2, WithoutIsRest, Zenon
<1> QED
  BY <1>1, <1>3, <1>4

(* One element more is left, or it is one of those to go,                  *)
LEMMA WithoutOneMore ==
  ASSUME NEW T, NEW s \in Seq(T), NEW t \in Seq(T), NEW S,
         Len(t) = Len(s) + 1, \A i \in 1..Len(s) : t[i] = s[i]
  PROVE  Without(t, S) = IF t[Len(t)] \in S THEN Without(s, S)
                         ELSE Append(Without(s, S), t[Len(t)])
<1>1. Len(s) \in Nat /\ Len(t) \in Nat
  BY LenProperties
<1>2. PICK f \in [0..Len(t) -> Seq(T)] : IsRest(f, t, S)
  BY RestExists
<1>3. f[0] = <<>> /\ \A i \in 1..Len(t) : RestStep(f, t, S, i)
  BY <1>1, <1>2, RestSteps
<1>4. Without(t, S) = f[Len(t)]
  BY <1>2, WithoutIsRest
<1> DEFINE g == [i \in 0..Len(s) |-> f[i]]
<1>5. ASSUME NEW i \in 1..Len(s) PROVE RestStep(g, s, S, i)
  <2>1. i \in 1..Len(t) /\ i \in 0..Len(s) /\ i - 1 \in 0..Len(s)
    BY <1>1
  <2>2. RestStep(f, t, S, i) /\ t[i] = s[i]
    BY <1>3, <2>1
  <2> QED BY <2>1, <2>2 DEF RestStep
<1>6. g[0] = <<>> /\ g = [i \in 0..Len(s) |-> g[i]]
  BY <1>1, <1>3
<1>7. IsRest(g, s, S) /\ g[Len(s)] = f[Len(s)]
  <2>1. g[Len(s)] = f[Len(s)]
    BY <1>1
  <2> HIDE DEF g
  <2> QED BY <1>1, <1>5, <1>6, <2>1, StepsRest
<1>8. Without(s, S) = f[Len(s)]
  <2> HIDE DEF g
  <2> QED BY <1>7, WithoutIsRest
<1>9. Len(t) \in 1..Len(t) /\ Len(t) - 1 = Len(s)
  BY <1>1
<1>10. RestStep(f, t, S, Len(t))
  BY <1>3, <1>9
<1> QED
  BY <1>4, <1>8, <1>9, <1>10 DEF RestStep

(* in other words, Without either drops what was appended or appends it.   *)
LEMMA WithoutAppend ==
  ASSUME NEW T, NEW s \in Seq(T), NEW e \in T, NEW S
  PROVE  Without(Append(s, e), S) =
           IF e \in S THEN Without(s, S) ELSE Append(Without(s, S), e)
<1>1. /\ Append(s, e) \in Seq(T)
      /\ Len(Append(s, e)) = Len(s) + 1
      /\ \A i \in 1..Len(s) : Append(s, e)[i] = s[i]
      /\ Append(s, e)[Len(s) + 1] = e
  BY AppendProperties
<1>2. PICK t : t = Append(s, e)
  OBVIOUS
<1>3. Without(t, S) = IF t[Len(t)] \in S THEN Without(s, S)
                      ELSE Append(Without(s, S), t[Len(t)])
  BY <1>1, <1>2, WithoutOneMore, Zenon
<1>4. t[Len(t)] = e
  BY <1>1, <1>2, Zenon
<1> QED
  BY <1>2, <1>3, <1>4, Zenon

(* What Append does to the places and the elements of a list.              *)
LEMMA AppendElems ==
  ASSUME NEW T, NEW s \in Seq(T), NEW e \in T
  PROVE  /\ Append(s, e) \in Seq(T)
         /\ DOMAIN Append(s, e) = 1..(Len(s) + 1)
         /\ DOMAIN s = 1..Len(s)
         /\ Len(s) \in Nat
         /\ Len(Append(s, e)) = Len(s) + 1
         /\ \A i \in 1..Len(s) : Append(s, e)[i] = s[i]
         /\ Append(s, e)[Len(s) + 1] = e
         /\ Elems(Append(s, e)) = Elems(s) \cup {e}
<1>1. /\ Append(s, e) \in Seq(T)
      /\ DOMAIN Append(s, e) = 1..(Len(s) + 1)
      /\ DOMAIN s = 1..Len(s)
      /\ Len(s) \in Nat
      /\ Len(Append(s, e)) = Len(s) + 1
      /\ \A i \in 1..Len(s) : Append(s, e)[i] = s[i]
      /\ Append(s, e)[Len(s) + 1] = e
  BY AppendProperties, LenProperties
<1>2. PICK t : t = Append(s, e)
  OBVIOUS
<1>3. /\ DOMAIN t = 1..(Len(s) + 1)
      /\ \A i \in 1..Len(s) : t[i] = s[i]
      /\ t[Len(s) + 1] = e
  BY <1>1, <1>2, Zenon
<1>4. Elems(t) = Elems(s) \cup {e}
  <2>1. ASSUME NEW x \in Elems(t) PROVE x \in Elems(s) \cup {e}
    <3>1. PICK i \in 1..(Len(s) + 1) : x = t[i]
      BY <1>3 DEF Elems
    <3>2. i \in 1..Len(s) \/ i = Len(s) + 1
      BY <1>1
    <3> QED BY <1>1, <1>3, <3>1, <3>2 DEF Elems
  <2>2. ASSUME NEW x \in Elems(s) PROVE x \in Elems(t)
    <3>1. PICK i \in 1..Len(s) : x = s[i]
      BY <1>1 DEF Elems
    <3>2. i \in 1..(Len(s) + 1)
      BY <1>1
    <3> QED BY <1>3, <3>1, <3>2 DEF Elems
  <2>3. e \in Elems(t)
    <3>1. Len(s) + 1 \in 1..(Len(s) + 1)
      BY <1>1
    <3> QED BY <1>3, <3>1 DEF Elems
  <2> QED BY <2>1, <2>2, <2>3
<1> QED
  BY <1>1, <1>2, <1>4, Zenon

(* The empty list has no elements.                                         *)
LEMMA EmptyElems == Elems(<<>>) = {}
BY DEF Elems

(* Exactly the elements of S are gone.                                     *)
LEMMA WithoutElems ==
  ASSUME NEW T, NEW s \in Seq(T), NEW S
  PROVE  Elems(Without(s, S)) = Elems(s) \ S
<1> DEFINE P(q) == Elems(Without(q, S)) = Elems(q) \ S
           Q == {q \in Seq(T) : P(q)}
<1>1. <<>> \in Q
  BY WithoutEmpty, EmptyElems, EmptySeq
<1>2. ASSUME NEW q \in Seq(T), NEW e \in T, q \in Q PROVE Append(q, e) \in Q
  <2>1. Append(q, e) \in Seq(T) /\ Elems(Append(q, e)) = Elems(q) \cup {e}
    BY AppendElems
  <2>2. Without(q, S) \in Seq(T)
    BY WithoutType
  <2>3. Elems(Append(Without(q, S), e)) = Elems(Without(q, S)) \cup {e}
    BY <2>2, AppendElems
  <2>4. Elems(Without(Append(q, e), S)) = Elems(Append(q, e)) \ S
    <3>1. CASE e \in S
      BY <1>2, <2>1, <3>1, WithoutAppend
    <3>2. CASE e \notin S
      <4>1. Without(Append(q, e), S) = Append(Without(q, S), e)
        BY <3>2, WithoutAppend
      <4>2. Elems(Without(Append(q, e), S)) = Elems(Without(q, S)) \cup {e}
        BY <2>3, <4>1, Zenon
      <4> QED BY <1>2, <2>1, <3>2, <4>2
    <3> QED BY <3>1, <3>2
  <2> QED BY <2>1, <2>4
<1>3. Seq(T) \subseteq Q
  <2> HIDE DEF Q
  <2> QED BY <1>1, <1>2, ListInduction
<1> QED
  BY <1>3

(* Nothing changes when there is nothing to remove.                        *)
LEMMA WithoutNone ==
  ASSUME NEW T, NEW s \in Seq(T), NEW S, Elems(s) \cap S = {}
  PROVE  Without(s, S) = s
<1> DEFINE P(q) == Elems(q) \cap S = {} => Without(q, S) = q
           Q == {q \in Seq(T) : P(q)}
<1>1. <<>> \in Q
  BY WithoutEmpty, EmptySeq
<1>2. ASSUME NEW q \in Seq(T), NEW e \in T, q \in Q PROVE Append(q, e) \in Q
  <2>1. Append(q, e) \in Seq(T) /\ Elems(Append(q, e)) = Elems(q) \cup {e}
    BY AppendElems
  <2>2. ASSUME Elems(Append(q, e)) \cap S = {}
        PROVE  Without(Append(q, e), S) = Append(q, e)
    <3>1. e \notin S /\ Without(q, S) = q
      BY <1>2, <2>1, <2>2
    <3> QED BY <3>1, WithoutAppend
  <2> QED BY <2>1, <2>2
<1>3. Seq(T) \subseteq Q
  <2> HIDE DEF Q
  <2> QED BY <1>1, <1>2, ListInduction
<1> QED
  BY <1>3

(* The list p is s with places left out.                                   *)
Embeds(h, p, s) ==
  /\ h \in [1..Len(p) -> 1..Len(s)]
  /\ \A i, j \in 1..Len(p) : h[i] = h[j] => i = j
  /\ \A i \in 1..Len(p) : p[i] = s[h[i]]

(* What is left has its places in the list, no two the same: Without       *)
(* duplicates nothing.                                                     *)
LEMMA WithoutEmbeds ==
  ASSUME NEW T, NEW s \in Seq(T), NEW S
  PROVE  \E h : Embeds(h, Without(s, S), s)
<1> DEFINE P(q) == \E h : Embeds(h, Without(q, S), q)
           Q == {q \in Seq(T) : P(q)}
<1>1. <<>> \in Q
  <2>1. Embeds(<<>>, <<>>, <<>>)
    BY DEF Embeds
  <2> QED BY <2>1, WithoutEmpty, EmptySeq
<1>2. ASSUME NEW q \in Seq(T), NEW e \in T, q \in Q PROVE Append(q, e) \in Q
  <2>1. PICK h : Embeds(h, Without(q, S), q)
    BY <1>2
  <2>2. PICK p \in Seq(T) : p = Without(q, S)
    BY WithoutType
  <2>3. PICK t \in Seq(T) : t = Append(q, e)
    BY AppendElems
  <2>4. /\ Len(t) = Len(q) + 1 /\ Len(q) \in Nat
        /\ \A i \in 1..Len(q) : t[i] = q[i]
        /\ t[Len(q) + 1] = e
    <3>1. /\ Len(Append(q, e)) = Len(q) + 1 /\ Len(q) \in Nat
          /\ \A i \in 1..Len(q) : Append(q, e)[i] = q[i]
          /\ Append(q, e)[Len(q) + 1] = e
      BY AppendElems
    <3> QED BY <2>3, <3>1, Zenon
  <2>5. CASE e \in S
    <3>1. Without(t, S) = p
      BY <2>2, <2>3, <2>5, WithoutAppend
    <3>2. Embeds(h, p, q)
      BY <2>1, <2>2
    <3>3. \A i \in 1..Len(q) : i \in 1..Len(t)
      BY <2>4
    <3>4. Embeds(h, p, t)
      BY <2>4, <3>2, <3>3 DEF Embeds
    <3> QED BY <2>3, <3>1, <3>4
  <2>6. CASE e \notin S
    <3>1. Without(t, S) = Append(p, e)
      BY <2>2, <2>3, <2>6, WithoutAppend
    <3>2. PICK r \in Seq(T) : r = Append(p, e)
      BY AppendElems
    <3>3. /\ Len(r) = Len(p) + 1 /\ Len(p) \in Nat
          /\ \A i \in 1..Len(p) : r[i] = p[i]
          /\ r[Len(p) + 1] = e
      <4>1. /\ Len(Append(p, e)) = Len(p) + 1 /\ Len(p) \in Nat
            /\ \A i \in 1..Len(p) : Append(p, e)[i] = p[i]
            /\ Append(p, e)[Len(p) + 1] = e
        BY AppendElems
      <4> QED BY <3>2, <4>1, Zenon
    <3> DEFINE g == [i \in 1..Len(r) |-> IF i = Len(p) + 1 THEN Len(q) + 1 ELSE h[i]]
    <3>4. /\ h \in [1..Len(p) -> 1..Len(q)]
          /\ \A i, j \in 1..Len(p) : h[i] = h[j] => i = j
          /\ \A i \in 1..Len(p) : p[i] = q[h[i]]
      BY <2>1, <2>2, Zenon DEF Embeds
    <3>5. \A i \in 1..Len(r) : i = Len(p) + 1 \/ i \in 1..Len(p)
      BY <3>3
    <3>6. g \in [1..Len(r) -> 1..Len(t)]
      BY <2>4, <3>3, <3>4, <3>5
    <3>7. ASSUME NEW i \in 1..Len(r), NEW j \in 1..Len(r), g[i] = g[j]
          PROVE  i = j
      <4>1. \A k \in 1..Len(p) : h[k] \in Nat /\ h[k] < Len(q) + 1
        BY <2>4, <3>4
      <4>2. CASE i \in 1..Len(p) /\ j \in 1..Len(p)
        BY <3>3, <3>4, <3>7, <4>2
      <4>3. CASE i = Len(p) + 1 /\ j \in 1..Len(p)
        BY <2>4, <3>3, <3>7, <4>1, <4>3
      <4>4. CASE j = Len(p) + 1 /\ i \in 1..Len(p)
        BY <2>4, <3>3, <3>7, <4>1, <4>4
      <4> QED BY <3>5, <4>2, <4>3, <4>4
    <3>8. \A i \in 1..Len(r) : r[i] = t[g[i]]
      BY <2>4, <3>3, <3>4, <3>5
    <3>9. Embeds(g, r, t)
      BY <3>6, <3>7, <3>8 DEF Embeds
    <3> QED BY <2>3, <3>1, <3>2, <3>9
  <2> QED BY <2>5, <2>6
<1>3. Seq(T) \subseteq Q
  <2> HIDE DEF Q
  <2> QED BY <1>1, <1>2, ListInduction
<1> QED
  BY <1>3

(* If every element is either in A or in B, the weights of what the one    *)
(* and what the other leaves add up: what a clean-up subtracts from its    *)
(* counter is what it removes from its list.                               *)
LEMMA TotalDivided ==
  ASSUME NEW T, NEW w \in [T -> Nat], NEW s \in Seq(T), NEW A, NEW B,
         \A e \in T : e \in A <=> e \notin B
  PROVE  Total(w, s) = Total(w, Without(s, A)) + Total(w, Without(s, B))
<1> DEFINE P(q) == Total(w, q) = Total(w, Without(q, A)) + Total(w, Without(q, B))
           Q == {q \in Seq(T) : P(q)}
<1>1. <<>> \in Q
  BY WithoutEmpty, TotalEmpty, EmptySeq
<1>2. ASSUME NEW q \in Seq(T), NEW e \in T, q \in Q PROVE Append(q, e) \in Q
  <2>1. PICK t \in Seq(T) : t = Append(q, e)
    BY AppendElems
  <2>2. PICK a \in Seq(T) : a = Without(q, A)
    BY WithoutType
  <2>3. PICK b \in Seq(T) : b = Without(q, B)
    BY WithoutType
  <2>4. /\ Total(w, t) = Total(w, q) + w[e]
        /\ Total(w, q) = Total(w, a) + Total(w, b)
        /\ Total(w, a) \in Nat /\ Total(w, b) \in Nat /\ w[e] \in Nat
        /\ Total(w, Append(a, e)) = Total(w, a) + w[e]
        /\ Total(w, Append(b, e)) = Total(w, b) + w[e]
    <3>1. Total(w, Append(q, e)) = Total(w, q) + w[e]
      BY TotalAppend
    <3>2. Total(w, a) \in Nat /\ Total(w, b) \in Nat /\ w[e] \in Nat
      BY TotalType
    <3>3. Total(w, Append(a, e)) = Total(w, a) + w[e]
      BY TotalAppend
    <3>4. Total(w, Append(b, e)) = Total(w, b) + w[e]
      BY TotalAppend
    <3>5. Total(w, q) = Total(w, a) + Total(w, b)
      BY <1>2, <2>2, <2>3
    <3> QED BY <2>1, <3>1, <3>2, <3>3, <3>4, <3>5, Zenon
  <2>5. CASE e \in A
    <3>1. Without(t, A) = a /\ Without(t, B) = Append(b, e)
      BY <2>1, <2>2, <2>3, <2>5, WithoutAppend
    <3>2. Total(w, Without(t, A)) = Total(w, a)
      BY <3>1, Zenon
    <3>3. Total(w, Without(t, B)) = Total(w, b) + w[e]
      BY <2>4, <3>1, Zenon
    <3> QED BY <2>1, <2>4, <3>2, <3>3
  <2>6. CASE e \notin A
    <3>1. Without(t, A) = Append(a, e) /\ Without(t, B) = b
      BY <2>1, <2>2, <2>3, <2>6, WithoutAppend
    <3>2. Total(w, Without(t, A)) = Total(w, a) + w[e]
      BY <2>4, <3>1, Zenon
    <3>3. Total(w, Without(t, B)) = Total(w, b)
      BY <3>1, Zenon
    <3> QED BY <2>1, <2>4, <3>2, <3>3
  <2> QED BY <2>5, <2>6
<1>3. Seq(T) \subseteq Q
  <2> HIDE DEF Q
  <2> QED BY <1>1, <1>2, ListInduction
<1> QED
  BY <1>3

(* If S has exactly one place of the list, its weight is what is lost.     *)
LEMMA TotalRemoved ==
  ASSUME NEW T, NEW w \in [T -> Nat], NEW s \in Seq(T), NEW S,
         NEW k \in DOMAIN s, s[k] \in S,
         \A j \in DOMAIN s : s[j] \in S => j = k
  PROVE  Total(w, s) = Total(w, Without(s, S)) + w[s[k]]
<1> DEFINE One(q, i) == /\ i \in 1..Len(q) /\ q[i] \in S
                        /\ \A j \in 1..Len(q) : q[j] \in S => j = i
           P(q) == \A i : One(q, i) => Total(w, q) = Total(w, Without(q, S)) + w[q[i]]
           Q == {q \in Seq(T) : P(q)}
<1>1. <<>> \in Q
  BY EmptySeq
<1>2. ASSUME NEW q \in Seq(T), NEW e \in T, q \in Q PROVE Append(q, e) \in Q
  <2>1. PICK t \in Seq(T) : t = Append(q, e)
    BY AppendElems
  <2>2. /\ Len(t) = Len(q) + 1 /\ Len(q) \in Nat
        /\ \A i \in 1..Len(q) : t[i] = q[i]
        /\ t[Len(q) + 1] = e
        /\ DOMAIN q = 1..Len(q)
    <3>1. /\ Len(Append(q, e)) = Len(q) + 1 /\ Len(q) \in Nat
          /\ \A i \in 1..Len(q) : Append(q, e)[i] = q[i]
          /\ Append(q, e)[Len(q) + 1] = e
          /\ DOMAIN q = 1..Len(q)
      BY AppendElems
    <3> QED BY <2>1, <3>1, Zenon
  <2>3. PICK p \in Seq(T) : p = Without(q, S)
    BY WithoutType
  <2>4. /\ Total(w, t) = Total(w, q) + w[e]
        /\ Total(w, Append(p, e)) = Total(w, p) + w[e]
        /\ Total(w, p) \in Nat /\ Total(w, q) \in Nat /\ w[e] \in Nat
    <3>1. Total(w, Append(q, e)) = Total(w, q) + w[e]
      BY TotalAppend
    <3>2. Total(w, Append(p, e)) = Total(w, p) + w[e]
      BY TotalAppend
    <3>3. Total(w, p) \in Nat /\ Total(w, q) \in Nat /\ w[e] \in Nat
      BY TotalType
    <3> QED BY <2>1, <3>1, <3>2, <3>3, Zenon
  <2>5. ASSUME NEW i, One(t, i)
        PROVE  Total(w, t) = Total(w, Without(t, S)) + w[t[i]]
    <3>1. CASE e \in S
      <4>1. i = Len(q) + 1 /\ t[i] = e
        BY <2>2, <2>5, <3>1
      <4>2. \A j \in 1..Len(q) : q[j] \notin S
        BY <2>2, <2>5, <4>1
      <4>3. Elems(q) \cap S = {}
        BY <2>2, <4>2 DEF Elems
      <4>4. Without(q, S) = q
        BY <4>3, WithoutNone
      <4>5. Without(t, S) = q
        BY <2>1, <3>1, <4>4, WithoutAppend
      <4> QED BY <2>4, <4>1, <4>5
    <3>2. CASE e \notin S
      <4>1. i \in 1..Len(q) /\ t[i] = q[i]
        BY <2>2, <2>5, <3>2
      <4>2. One(q, i)
        BY <2>2, <2>5, <4>1
      <4>3. Total(w, q) = Total(w, p) + w[q[i]]
        BY <1>2, <2>3, <4>2
      <4>4. Without(t, S) = Append(p, e)
        BY <2>1, <2>3, <3>2, WithoutAppend
      <4>5. Total(w, Without(t, S)) = Total(w, p) + w[e]
        BY <2>4, <4>4, Zenon
      <4>6. w[q[i]] \in Nat
        BY <4>1, ElementOfSeq
      <4> QED BY <2>4, <4>1, <4>3, <4>5, <4>6
    <3> QED BY <3>1, <3>2
  <2> QED BY <2>1, <2>5
<1>3. Seq(T) \subseteq Q
  <2> HIDE DEF Q
  <2> QED BY <1>1, <1>2, ListInduction
<1>4. One(s, k)
  BY LenProperties
<1> QED
  BY <1>3, <1>4

(* The sum depends on the weights of the elements only.                    *)
LEMMA TotalAgree ==
  ASSUME NEW T, NEW w \in [T -> Nat], NEW v \in [T -> Nat], NEW s \in Seq(T),
         \A e \in Elems(s) : w[e] = v[e]
  PROVE  Total(w, s) = Total(v, s)
<1> DEFINE P(q) == (\A e \in Elems(q) : w[e] = v[e]) => Total(w, q) = Total(v, q)
           Q == {q \in Seq(T) : P(q)}
<1>1. <<>> \in Q
  <2>1. Total(w, <<>>) = 0 /\ Total(v, <<>>) = 0
    BY TotalEmpty
  <2> QED BY <2>1, EmptySeq
<1>2. ASSUME NEW q \in Seq(T), NEW e \in T, q \in Q PROVE Append(q, e) \in Q
  <2>1. Append(q, e) \in Seq(T) /\ Elems(Append(q, e)) = Elems(q) \cup {e}
    BY AppendElems
  <2>2. /\ Total(w, Append(q, e)) = Total(w, q) + w[e]
        /\ Total(v, Append(q, e)) = Total(v, q) + v[e]
    BY TotalAppend
  <2> QED BY <1>2, <2>1, <2>2, Zenon
<1>3. Seq(T) \subseteq Q
  <2> HIDE DEF Q
  <2> QED BY <1>1, <1>2, ListInduction
<1> QED
  BY <1>3

(* The two parts a list is cut into, place by place,                       *)
LEMMA CutLists ==
  ASSUME NEW T, NEW s \in Seq(T), NEW n \in 0..Len(s)
  PROVE  /\ Front(s, n) \in Seq(T) /\ Drop(s, n) \in Seq(T)
         /\ Len(Front(s, n)) = n /\ Len(Drop(s, n)) = Len(s) - n
         /\ \A i \in 1..n : Front(s, n)[i] = s[i]
         /\ \A i \in 1..(Len(s) - n) : Drop(s, n)[i] = s[n + i]
<1>1. Len(s) \in Nat /\ \A i \in 1..Len(s) : s[i] \in T
  BY LenProperties, ElementOfSeq
<1>2. \A i \in 1..n : s[i] \in T
  BY <1>1
<1>3. /\ SubSeq(s, 1, n) \in Seq(T)
      /\ Len(SubSeq(s, 1, n)) = IF 1 <= n THEN n - 1 + 1 ELSE 0
      /\ \A i \in 1..(n - 1 + 1) : SubSeq(s, 1, n)[i] = s[1 + i - 1]
  BY <1>2, SubSeqProperties
<1>4. \A i \in (n + 1)..Len(s) : s[i] \in T
  BY <1>1
<1>5. /\ SubSeq(s, n + 1, Len(s)) \in Seq(T)
      /\ Len(SubSeq(s, n + 1, Len(s))) =
           IF n + 1 <= Len(s) THEN Len(s) - (n + 1) + 1 ELSE 0
      /\ \A i \in 1..(Len(s) - (n + 1) + 1) :
           SubSeq(s, n + 1, Len(s))[i] = s[n + 1 + i - 1]
  BY <1>1, <1>4, SubSeqProperties
<1> QED
  BY <1>1, <1>3, <1>5 DEF Front, Drop

(* and their elements.                                                     *)
LEMMA CutElems ==
  ASSUME NEW T, NEW s \in Seq(T), NEW n \in 0..Len(s)
  PROVE  Elems(s) = Elems(Front(s, n)) \cup Elems(Drop(s, n))
<1> PICK a : a = Front(s, n)
  OBVIOUS
<1> PICK b : b = Drop(s, n)
  OBVIOUS
<1>1. /\ Len(s) \in Nat /\ DOMAIN s = 1..Len(s)
      /\ DOMAIN a = 1..n /\ DOMAIN b = 1..(Len(s) - n)
      /\ \A i \in 1..n : a[i] = s[i]
      /\ \A i \in 1..(Len(s) - n) : b[i] = s[n + i]
  <2>1. Len(s) \in Nat /\ DOMAIN s = 1..Len(s)
    BY LenProperties
  <2>2. /\ a \in Seq(T) /\ b \in Seq(T) /\ Len(a) = n /\ Len(b) = Len(s) - n
        /\ \A i \in 1..n : a[i] = s[i]
        /\ \A i \in 1..(Len(s) - n) : b[i] = s[n + i]
    BY CutLists, Zenon
  <2>3. DOMAIN a = 1..Len(a) /\ DOMAIN b = 1..Len(b)
    BY <2>2, LenProperties
  <2> QED BY <2>1, <2>2, <2>3, Zenon
<1>2. ASSUME NEW i \in DOMAIN s PROVE s[i] \in Elems(a) \cup Elems(b)
  <2>1. CASE i <= n
    <3>1. i \in 1..n
      BY <1>1, <2>1
    <3> QED BY <1>1, <3>1 DEF Elems
  <2>2. CASE i > n
    <3>1. i - n \in 1..(Len(s) - n) /\ n + (i - n) = i
      BY <1>1, <2>2
    <3> QED BY <1>1, <3>1 DEF Elems
  <2> QED BY <1>1, <2>1, <2>2
<1>3. ASSUME NEW i \in DOMAIN a PROVE a[i] \in Elems(s)
  BY <1>1 DEF Elems
<1>4. ASSUME NEW i \in DOMAIN b PROVE b[i] \in Elems(s)
  <2>1. n + i \in DOMAIN s
    BY <1>1
  <2> QED BY <1>1, <2>1 DEF Elems
<1> QED
  BY <1>2, <1>3, <1>4 DEF Elems

(* The weights of two lists add up when they are joined,                   *)
LEMMA TotalConcat ==
  ASSUME NEW T, NEW w \in [T -> Nat], NEW p \in Seq(T), NEW s \in Seq(T)
  PROVE  Total(w, p \o s) = Total(w, p) + Total(w, s)
<1> DEFINE P(q) == Total(w, p \o q) = Total(w, p) + Total(w, q)
           Q == {q \in Seq(T) : P(q)}
<1>1. <<>> \in Q
  <2>1. p \o <<>> = p
    BY ConcatEmptySeq
  <2>2. Total(w, <<>>) = 0 /\ Total(w, p) \in Nat
    BY TotalEmpty, TotalType
  <2>3. Total(w, p \o <<>>) = Total(w, p)
    BY <2>1, Zenon
  <2> QED BY <2>2, <2>3, EmptySeq
<1>2. ASSUME NEW q \in Seq(T), NEW e \in T, q \in Q PROVE Append(q, e) \in Q
  <2>1. PICK c \in Seq(T) : c = p \o q
    BY ConcatProperties
  <2>2. p \o Append(q, e) = Append(c, e)
    <3>1. <<e>> \in Seq(T) /\ Append(q, e) = q \o <<e>> /\ Append(c, e) = c \o <<e>>
      BY AppendIsConcat
    <3>2. p \o (q \o <<e>>) = (p \o q) \o <<e>>
      BY <3>1, ConcatAssociative
    <3> QED BY <2>1, <3>1, <3>2, Zenon
  <2>3. /\ Total(w, Append(c, e)) = Total(w, c) + w[e]
        /\ Total(w, Append(q, e)) = Total(w, q) + w[e]
    BY TotalAppend
  <2>4. /\ Total(w, p) \in Nat /\ Total(w, q) \in Nat /\ w[e] \in Nat
        /\ Append(q, e) \in Seq(T)
    BY TotalType, AppendElems
  <2>5. Total(w, c) = Total(w, p) + Total(w, q)
    BY <1>2, <2>1
  <2>6. Total(w, p \o Append(q, e)) = Total(w, c) + w[e]
    BY <2>2, <2>3, Zenon
  <2> QED BY <2>3, <2>4, <2>5, <2>6
<1>3. Seq(T) \subseteq Q
  <2> HIDE DEF Q
  <2> QED BY <1>1, <1>2, ListInduction
<1> QED
  BY <1>3

(* and so do those of the two parts of a list.                             *)
LEMMA TotalCut ==
  ASSUME NEW T, NEW w \in [T -> Nat], NEW s \in Seq(T), NEW n \in 0..Len(s)
  PROVE  Total(w, s) = Total(w, Front(s, n)) + Total(w, Drop(s, n))
<1>1. Len(s) \in Nat
  BY LenProperties
<1>2. 1 \in 1..(Len(s) + 1) /\ n \in (1 - 1)..Len(s) /\ Len(s) \in n..Len(s)
  BY <1>1
<1>3. SubSeq(s, 1, n) \o SubSeq(s, n + 1, Len(s)) = SubSeq(s, 1, Len(s))
  BY <1>2, ConcatAdjacentSubSeq, Zenon
<1>4. SubSeq(s, 1, Len(s)) = s
  BY SubSeqFull, Zenon
<1>5. Front(s, n) \o Drop(s, n) = s
  BY <1>3, <1>4, Zenon DEF Front, Drop
<1>6. Front(s, n) \in Seq(T) /\ Drop(s, n) \in Seq(T)
  BY CutLists
<1> QED
  BY <1>5, <1>6, TotalConcat, Zenon

(* n elements have to go, and no less, for bytes to come down to limit.    *)
ExcessIs(w, s, bytes, limit, n) ==
  /\ n \in 0..Len(s)
  /\ n = Len(s) \/ bytes - Total(w, Front(s, n)) <= limit
  /\ \A m \in 0..(n - 1) : bytes - Total(w, Front(s, m)) > limit

(* The loop that removes elements from the front ends: the number Excess   *)
(* chooses exists.                                                         *)
LEMMA ExcessFound ==
  ASSUME NEW T, NEW w \in [T -> Nat], NEW s \in Seq(T),
         NEW bytes \in Int, NEW limit \in Int
  PROVE  ExcessIs(w, s, bytes, limit, Excess(w, s, bytes, limit))
<1> DEFINE N == {n \in 0..Len(s) :
                   n = Len(s) \/ bytes - Total(w, Front(s, n)) <= limit}
<1>1. Len(s) \in Nat
  BY LenProperties
<1>2. Len(s) \in N
  BY <1>1
<1>3. PICK n \in N : \A m \in N : n <= m
  <2>1. N \subseteq Nat /\ N # {}
    BY <1>2
  <2> HIDE DEF N
  <2> QED BY <2>1, LeastNumber
<1>4. ASSUME NEW m \in 0..(n - 1) PROVE bytes - Total(w, Front(s, m)) > limit
  <2>1. m \in 0..Len(s) /\ m \notin N
    BY <1>1, <1>3
  <2>2. Total(w, Front(s, m)) \in Nat
    BY <2>1, CutLists, TotalType
  <2> QED BY <2>1, <2>2
<1>5. ExcessIs(w, s, bytes, limit, n)
  BY <1>4 DEF ExcessIs
<1>6. \E k \in 0..Len(s) :
        /\ k = Len(s) \/ bytes - Total(w, Front(s, k)) <= limit
        /\ \A m \in 0..(k - 1) : bytes - Total(w, Front(s, m)) > limit
  BY <1>5, Zenon DEF ExcessIs
<1> QED
  BY <1>6, Zenon DEF ExcessIs, Excess

(* With an exact counter the loop ends within the limit, at the latest     *)
(* with an empty list.                                                     *)
LEMMA TrimFits ==
  ASSUME NEW T, NEW w \in [T -> Nat], NEW s \in Seq(T), NEW limit \in Nat,
         NEW x, x = Excess(w, s, Total(w, s), limit)
  PROVE  x \in 0..Len(s) /\ Total(w, Drop(s, x)) <= limit
<1>1. Total(w, s) \in Int /\ limit \in Int
  BY TotalType
<1>2. ExcessIs(w, s, Total(w, s), limit, x)
  BY <1>1, ExcessFound, Zenon
<1>3. x \in 0..Len(s)
  BY <1>2 DEF ExcessIs
<1>a. PICK a : a = Front(s, x)
  OBVIOUS
<1>b. PICK b : b = Drop(s, x)
  OBVIOUS
<1>4. a \in Seq(T) /\ b \in Seq(T) /\ Len(b) = Len(s) - x
  BY <1>3, <1>a, <1>b, CutLists, Zenon
<1>5. Total(w, s) = Total(w, a) + Total(w, b)
  BY <1>3, <1>a, <1>b, TotalCut, Zenon
<1>6. Total(w, a) \in Nat /\ Total(w, b) \in Nat
  BY <1>4, TotalType
<1>7. x = Len(s) \/ Total(w, s) - Total(w, a) <= limit
  BY <1>2, <1>a, Zenon DEF ExcessIs
<1>8. CASE Total(w, s) - Total(w, a) <= limit
  <2>1. Total(w, b) <= limit
    BY <1>8, <1>5, <1>6
  <2>2. QED
    BY <2>1, <1>3, <1>b, Zenon
<1>9. CASE x = Len(s)
  <2>0. Len(s) \in Nat
    BY LenProperties
  <2>1. Len(b) = 0
    BY <2>0, <1>4, <1>9
  <2>2. b = <<>>
    BY <2>1, <1>4, EmptySeq
  <2>3. Total(w, b) = 0
    BY <2>2, TotalEmpty, Zenon
  <2>4. Total(w, b) <= limit
    BY <2>3
  <2>5. QED
    BY <2>4, <1>3, <1>b, Zenon
<1>10. QED
  BY <1>7, <1>8, <1>9

-----------------------------------------------------------------------------
(* Lists without duplicates                                                *)

(* Without adds no duplicates, and neither does a new element at the end.  *)
LEMMA MovedDistinct ==
  ASSUME NEW T, NEW s \in Seq(T), NEW e \in T, Distinct(s)
  PROVE  /\ Append(Without(s, {e}), e) \in Seq(T)
         /\ Distinct(Append(Without(s, {e}), e))
         /\ Elems(Append(Without(s, {e}), e)) = Elems(s) \cup {e}
<1>p. PICK p : p = Without(s, {e})
  OBVIOUS
<1>q. PICK q : q = Append(p, e)
  OBVIOUS
<1>1. p \in Seq(T)
  BY <1>p, WithoutType, Zenon
<1>2. Elems(p) = Elems(s) \ {e}
  BY <1>p, WithoutElems, Zenon
<1>3. PICK h : Embeds(h, p, s)
  BY <1>p, WithoutEmbeds, Zenon
<1>4. DOMAIN p = 1..Len(p) /\ DOMAIN s = 1..Len(s)
  BY <1>1, LenProperties
<1>5. /\ \A i \in DOMAIN p : h[i] \in DOMAIN s /\ p[i] = s[h[i]]
      /\ \A i, j \in DOMAIN p : h[i] = h[j] => i = j
  BY <1>3, <1>4 DEF Embeds
<1>6. \A i, j \in DOMAIN p : p[i] = p[j] => i = j
  BY <1>5 DEF Distinct
<1>7. /\ q \in Seq(T) /\ DOMAIN q = 1..(Len(p) + 1) /\ Len(p) \in Nat
      /\ \A i \in 1..Len(p) : q[i] = p[i]
      /\ q[Len(p) + 1] = e
      /\ Elems(q) = Elems(p) \cup {e}
  BY <1>1, <1>q, AppendElems
<1>8. \A i \in DOMAIN q : i \in DOMAIN p \/ i = Len(p) + 1
  BY <1>7, <1>4
<1>9. \A i \in DOMAIN p : p[i] # e
  BY <1>2 DEF Elems
<1>10. Distinct(q)
  BY <1>4, <1>6, <1>7, <1>8, <1>9 DEF Distinct
<1>11. Elems(q) = Elems(s) \cup {e}
  BY <1>2, <1>7
<1>12. QED
  BY <1>p, <1>q, <1>7, <1>10, <1>11, Zenon

(* What moving an element to the end, or adding it, does to the weight.    *)
LEMMA TotalMoved ==
  ASSUME NEW T, NEW w \in [T -> Nat], NEW s \in Seq(T), NEW e \in T, Distinct(s),
         e \notin Elems(s) => w[e] = 0
  PROVE  Total(w, s) = Total(w, Without(s, {e})) + w[e]
<1>1. CASE e \in Elems(s)
  <2>1. PICK k \in DOMAIN s : s[k] = e
    BY <1>1 DEF Elems
  <2>2. s[k] \in {e} /\ \A j \in DOMAIN s : s[j] \in {e} => j = k
    BY <2>1 DEF Distinct
  <2>z. PICK S : S = {e}
    OBVIOUS
  <2>3. Total(w, s) = Total(w, Without(s, S)) + w[s[k]]
    BY <2>2, <2>z, TotalRemoved
  <2>4. QED
    BY <2>1, <2>3, <2>z, Zenon
<1>2. CASE e \notin Elems(s)
  <2>p. PICK p : p = Without(s, {e})
    OBVIOUS
  <2>1. Elems(s) \cap {e} = {}
    BY <1>2
  <2>2. p = s
    BY <2>1, <2>p, WithoutNone, Zenon
  <2>3. Total(w, s) \in Nat
    BY TotalType
  <2>4. Total(w, s) = Total(w, p) + w[e]
    BY <2>2, <2>3, <1>2
  <2>5. QED
    BY <2>4, <2>p, Zenon
<1>3. QED
  BY <1>1, <1>2

(* The two parts of a list without duplicates have nothing in common.      *)
LEMMA CutDistinct ==
  ASSUME NEW T, NEW s \in Seq(T), NEW n \in 0..Len(s), Distinct(s)
  PROVE  /\ Distinct(Drop(s, n))
         /\ Elems(Drop(s, n)) = Elems(s) \ Elems(Front(s, n))
<1>a. PICK a : a = Front(s, n)
  OBVIOUS
<1>b. PICK b : b = Drop(s, n)
  OBVIOUS
<1>1. /\ a \in Seq(T) /\ b \in Seq(T) /\ Len(a) = n /\ Len(b) = Len(s) - n
      /\ \A i \in 1..n : a[i] = s[i]
      /\ \A i \in 1..(Len(s) - n) : b[i] = s[n + i]
  BY <1>a, <1>b, CutLists, Zenon
<1>2. /\ Len(s) \in Nat /\ DOMAIN s = 1..Len(s)
      /\ DOMAIN a = 1..n /\ DOMAIN b = 1..(Len(s) - n)
  BY <1>1, LenProperties
<1>3. Elems(s) = Elems(a) \cup Elems(b)
  BY <1>a, <1>b, CutElems
<1>4. \A i \in DOMAIN b : n + i \in DOMAIN s /\ b[i] = s[n + i] /\ i \in Int
  BY <1>1, <1>2
<1>5. \A i \in DOMAIN a : i \in DOMAIN s /\ a[i] = s[i] /\ i \in Int /\ i <= n
  BY <1>1, <1>2
<1>6. Distinct(b)
  BY <1>4 DEF Distinct
<1>7. \A i \in DOMAIN a, j \in DOMAIN b : a[i] # b[j]
  <2>1. SUFFICES ASSUME NEW i \in DOMAIN a, NEW j \in DOMAIN b, a[i] = b[j] PROVE FALSE
    OBVIOUS
  <2>2. i = n + j
    BY <2>1, <1>4, <1>5 DEF Distinct
  <2>3. j >= 1
    BY <1>2
  <2>4. QED
    BY <2>2, <2>3, <1>4, <1>5
<1>8. Elems(a) \cap Elems(b) = {}
  BY <1>7 DEF Elems
<1>9. Elems(b) = Elems(s) \ Elems(a)
  BY <1>3, <1>8
<1>10. QED
  BY <1>a, <1>b, <1>6, <1>9, Zenon
=============================================================================

------------------------------ MODULE LogProofs ------------------------------
(***************************************************************************)
(* The log and the fills, for every set of signed orders, traders, markets *)
(* and every bound: every event about an order follows its acceptance; the *)
(* order, the state store and the log agree on what it has traded; and no  *)
(* accepted order is lost.                                                 *)
(*                                                                         *)
(* What the amounts of a sequence add up to is proved by hand: FoldLeft's  *)
(* recursion has a solution for every length (FoldsExists, from the least  *)
(* length without one), its values at the prefixes are running sums, and   *)
(* two running sums of the same amounts agree.                             *)
(***************************************************************************)
EXTENDS EngineProofs

-----------------------------------------------------------------------------
(* Sums *)

\* The running sums of the first n amounts of a sequence.
Adds(sums, amounts, n) ==
  sums[0] = 0 /\ \A k \in 1..n : sums[k] = sums[k - 1] + amounts[k]

RunningSums(amounts, sums) ==
  sums \in [0..Len(amounts) -> Nat] /\ Adds(sums, amounts, Len(amounts))

\* The recursion that FoldLeft unfolds to, up to position n.
FoldStep(amounts, iter, s) ==
  IF s = {} THEN 0 ELSE iter[s \ {Max(s)}] + amounts[Max(s)]

Folds(amounts, n, iter) ==
  iter = [s \in SUBSET (1..n) |-> FoldStep(amounts, iter, s)]

(* The greatest element of a set of positions is in it.                    *)
LEMMA MaxOfPositions ==
  ASSUME NEW n \in Nat, NEW s \in SUBSET (1..n), s # {}
  PROVE  Max(s) \in s /\ \A y \in s : Max(s) >= y
<1>1. s \subseteq Nat /\ \A y \in s : y <= n
  OBVIOUS
<1>2. \E m \in s : \A y \in s : m >= y
  BY <1>1, GreatestNatural
<1> QED BY <1>2, Zenon DEF Max

(* The fold over one more position.                                        *)
LEMMA FoldsFurther ==
  ASSUME NEW amounts, NEW n \in Nat, NEW iter, Folds(amounts, n, iter)
  PROVE  \E next : Folds(amounts, n + 1, next)
<1> DEFINE last == n + 1
           next == [s \in SUBSET (1..last) |->
                      IF last \in s THEN iter[s \ {last}] + amounts[last] ELSE iter[s]]
<1> SUFFICES ASSUME NEW s \in SUBSET (1..last)
             PROVE  next[s] = FoldStep(amounts, next, s)
  <2>1. (\A s \in SUBSET (1..last) : next[s] = FoldStep(amounts, next, s)) => Folds(amounts, last, next)
    BY DEF Folds
  <2> HIDE DEF next
  <2> QED BY <2>1
<1>1. last \in Nat /\ last \notin 1..n /\ \A x \in 1..last : x # last => x \in 1..n
  OBVIOUS
<1>2. CASE last \in s
  <2>1. Max(s) = last
    <3>1. Max(s) \in s /\ \A y \in s : Max(s) >= y
      BY <1>1, <1>2, MaxOfPositions
    <3>2. Max(s) \in 1..last /\ Max(s) >= last
      BY <1>2, <3>1
    <3> HIDE DEF last
    <3> QED BY <1>1, <3>2
  <2>2. s \ {last} \in SUBSET (1..last) /\ last \notin s \ {last}
    OBVIOUS
  <2>3. next[s \ {last}] = iter[s \ {last}]
    <3> HIDE DEF last
    <3> QED BY <2>2
  <2> HIDE DEF last
  <2> QED BY <1>2, <2>1, <2>3 DEF FoldStep
<1>3. CASE last \notin s /\ s # {}
  <2>1. s \in SUBSET (1..n)
    BY <1>1, <1>3
  <2>2. Max(s) \in s
    BY <1>3, <2>1, MaxOfPositions
  <2>3. s \ {Max(s)} \in SUBSET (1..last) /\ last \notin s \ {Max(s)}
    BY <1>3
  <2> HIDE DEF last
  <2>4. next[s \ {Max(s)}] = iter[s \ {Max(s)}] /\ next[s] = iter[s]
    BY <1>3, <2>3
  <2>5. iter[s] = FoldStep(amounts, iter, s)
    BY <2>1 DEF Folds
  <2> QED BY <1>3, <2>4, <2>5 DEF FoldStep
<1>4. CASE s = {}
  <2>1. iter[s] = FoldStep(amounts, iter, s) /\ last \notin s
    BY <1>4 DEF Folds
  <2> HIDE DEF last
  <2> QED BY <1>4, <2>1 DEF FoldStep
<1> QED BY <1>2, <1>3, <1>4

(* So FoldLeft's recursion has a solution for every length.                *)
LEMMA FoldsExists ==
  ASSUME NEW amounts, NEW n \in Nat
  PROVE  \E iter : Folds(amounts, n, iter)
<1> DEFINE Unfolded == {k \in Nat : ~ \E iter : Folds(amounts, k, iter)}
<1>1. SUFFICES ASSUME Unfolded # {} PROVE FALSE
  OBVIOUS
<1>2. Unfolded \subseteq Nat
  OBVIOUS
<1>3. PICK least \in Unfolded : \A k \in Unfolded : least <= k
  <2> HIDE DEF Unfolded
  <2> QED BY <1>1, <1>2, LeastNatural
<1>4. CASE least = 0
  <2> DEFINE iter == [s \in SUBSET (1..0) |-> 0]
  <2>1. SUBSET (1..0) = {{}}
    OBVIOUS
  <2>2. Folds(amounts, 0, iter)
    BY <2>1 DEF Folds, FoldStep
  <2> QED BY <1>3, <1>4, <2>2
<1>5. CASE least # 0
  <2>1. least \in Nat /\ least - 1 \in Nat /\ (least - 1) + 1 = least /\ ~(least <= least - 1)
    BY <1>3, <1>5
  <2>2. PICK iter : Folds(amounts, least - 1, iter)
    BY <1>3, <2>1
  <2>3. \E next : Folds(amounts, (least - 1) + 1, next)
    BY <2>1, <2>2, FoldsFurther
  <2> QED BY <1>3, <2>1, <2>3
<1> QED BY <1>4, <1>5

(* Two running sums of sequences that begin alike agree as far as they do. *)
LEMMA SumsAgree ==
  ASSUME NEW n \in Nat, NEW amounts, NEW sums, NEW other,
         Adds(sums, amounts, n), Adds(other, amounts, n)
  PROVE  sums[n] = other[n]
<1> USE DEF Adds
<1> DEFINE Apart == {k \in 0..n : sums[k] # other[k]}
<1>1. SUFFICES ASSUME Apart # {} PROVE FALSE
  OBVIOUS
<1>2. PICK least \in Apart : \A k \in Apart : least <= k
  <2>1. Apart \subseteq Nat
    OBVIOUS
  <2> HIDE DEF Apart
  <2> QED BY <1>1, <2>1, LeastNatural
<1>3. /\ least \in 1..n /\ least - 1 \in 0..n /\ ~(least <= least - 1)
  BY <1>2
<1>4. sums[least - 1] = other[least - 1]
  BY <1>2, <1>3
<1> QED BY <1>2, <1>3, <1>4

(* A sequence of numbers has its running sums, and its total is the last.  *)
LEMMA TotalByRunningSums ==
  ASSUME NEW amounts \in Seq(Nat)
  PROVE  \E sums : RunningSums(amounts, sums) /\ Total(amounts) = sums[Len(amounts)]
<1> DEFINE n == Len(amounts)
           whole == CHOOSE iter : Folds(amounts, n, iter)
           sums == [k \in 0..n |-> whole[1..k]]
<1>1. n \in Nat /\ DOMAIN amounts = 1..n /\ \A k \in 1..n : amounts[k] \in Nat
  BY LenProperties, ElementOfSeq
<1>2. Folds(amounts, n, whole)
  BY <1>1, FoldsExists
<1>3. Total(amounts) = whole[1..n]
  BY <1>1 DEF Total, FoldLeft, MapThenFoldSet, Folds, FoldStep
<1> HIDE DEF n, whole
<1>4. sums[0] = 0
  <2>1. 1..0 = {} /\ 1..0 \in SUBSET (1..n) /\ 0 \in 0..n
    BY <1>1
  <2> QED BY <1>2, <2>1 DEF Folds, FoldStep
<1>5. ASSUME NEW k \in 1..n PROVE sums[k] = sums[k - 1] + amounts[k]
  <2>1. 1..k \in SUBSET (1..n) /\ 1..k # {} /\ k \in 1..k /\ k \in 0..n /\ k - 1 \in 0..n
    <3>1. n \in Nat /\ k \in Nat /\ 1 <= k /\ k <= n
      BY <1>1
    <3>2. k \in 1..k /\ k \in 0..n /\ k - 1 \in 0..n /\ \A i \in 1..k : i \in 1..n
      BY ONLY <3>1
    <3> QED BY <3>2
  <2>2. Max(1..k) = k
    <3>1. Max(1..k) \in 1..k /\ Max(1..k) >= k
      BY <1>1, <2>1, MaxOfPositions
    <3> QED BY <3>1
  <2>3. (1..k) \ {k} = 1..k - 1
    BY <1>1
  <2>4. whole[1..k] = whole[1..k - 1] + amounts[k]
    BY <1>2, <2>1, <2>2, <2>3 DEF Folds, FoldStep
  <2> QED BY <2>1, <2>4
<1>6. sums \in [0..n -> Nat]
  <2> DEFINE Bad == {k \in 0..n : sums[k] \notin Nat}
  <2>1. SUFFICES ASSUME Bad # {} PROVE FALSE
    OBVIOUS
  <2>2. PICK least \in Bad : \A k \in Bad : least <= k
    <3>1. Bad \subseteq Nat
      BY <1>1
    <3> HIDE DEF Bad
    <3> QED BY <2>1, <3>1, LeastNatural
  <2> HIDE DEF sums
  <2>3. least \in 1..n /\ least - 1 \in 0..n /\ ~(least <= least - 1)
    BY <1>1, <1>4, <2>2
  <2>4. sums[least - 1] \in Nat
    BY <2>2, <2>3
  <2> QED BY <1>1, <1>5, <2>2, <2>3, <2>4
<1>7. sums[n] = whole[1..n]
  BY <1>1
<1> HIDE DEF sums
<1>8. RunningSums(amounts, sums) /\ Total(amounts) = sums[Len(amounts)]
  BY <1>3, <1>4, <1>5, <1>6, <1>7 DEF RunningSums, Adds, n
<1> QED BY <1>8

(* An appended amount is added to the total.                               *)
LEMMA TotalOfAppend ==
  ASSUME NEW amounts \in Seq(Nat), NEW amount \in Nat
  PROVE  Total(Append(amounts, amount)) = Total(amounts) + amount /\ Total(amounts) \in Nat
<1> DEFINE longer == Append(amounts, amount)
           n == Len(amounts)
<1>1. /\ longer \in Seq(Nat) /\ Len(longer) = n + 1 /\ n \in Nat /\ longer[n + 1] = amount
      /\ \A k \in 1..n : longer[k] = amounts[k]
  BY AppendProperties, LenProperties
<1> HIDE DEF longer
<1>2. PICK sums : RunningSums(amounts, sums) /\ Total(amounts) = sums[n]
  BY TotalByRunningSums
<1>3. PICK more : RunningSums(longer, more) /\ Total(longer) = more[n + 1]
  BY <1>1, TotalByRunningSums
<1> HIDE DEF n
<1>4. Adds(sums, amounts, n) /\ sums[n] \in Nat
  BY <1>1, <1>2 DEF RunningSums, n
<1>5. Adds(more, longer, n + 1)
  BY <1>1, <1>3 DEF RunningSums
<1>6. Adds(more, amounts, n)
  <2>1. ASSUME NEW k \in 1..n PROVE more[k] = more[k - 1] + amounts[k]
    <3>1. k \in 1..n + 1 /\ longer[k] = amounts[k]
      BY <1>1
    <3> QED BY <1>5, <3>1 DEF Adds
  <2> QED BY <1>5, <2>1 DEF Adds
<1>7. more[n + 1] = more[n] + amount
  <2>1. n + 1 \in 1..n + 1 /\ (n + 1) - 1 = n
    BY <1>1
  <2> QED BY <1>1, <1>5, <2>1 DEF Adds
<1>8. more[n] = sums[n]
  BY <1>1, <1>4, <1>6, SumsAgree
<1> QED BY <1>2, <1>3, <1>4, <1>7, <1>8 DEF longer

(* A sum is the sum of its amounts at the chosen places if the others are  *)
(* nothing.                                                                *)
LEMMA TotalOfChosen ==
  ASSUME NEW amounts \in Seq(Nat), NEW part, NEW at, NEW chosen, Chooses(part, amounts, at, chosen),
         \A i \in 1..Len(amounts) : i \in chosen \/ amounts[i] = 0
  PROVE  Total(amounts) = Total(part) /\ Total(part) \in Nat
<1>1. PICK n, len : n = Len(at) /\ len = Len(amounts)
  OBVIOUS
<1>2. /\ n \in Nat /\ len \in Nat
      /\ \A k \in 1..n : at[k] \in 1..len /\ part[k] = amounts[at[k]] /\ part[k] \in Nat
      /\ \A j, k \in 1..n : j < k => at[j] < at[k]
      /\ \A i \in 1..len : i \in chosen => \E k \in 1..n : at[k] = i
  <2>1. n \in Nat /\ len \in Nat /\ DOMAIN amounts = 1..len /\ \A i \in 1..len : amounts[i] \in Nat
    BY <1>1 DEF Chooses
  <2>2. \A k \in 1..n : at[k] \in 1..len /\ part[k] = amounts[at[k]]
    BY <1>1, <2>1 DEF Chooses
  <2> QED BY <1>1, <2>1, <2>2 DEF Chooses
<1>3. part \in Seq(Nat) /\ Len(part) = n
  <2>1. part = [k \in 1..n |-> part[k]]
    BY <1>1 DEF Chooses
  <2>2. part \in [1..n -> Nat]
    BY <1>2, <2>1
  <2> QED BY <1>2, <2>1, <2>2
<1>4. PICK sums : RunningSums(amounts, sums) /\ Total(amounts) = sums[len]
  BY <1>1, TotalByRunningSums
<1>5. PICK parts : RunningSums(part, parts) /\ Total(part) = parts[n]
  BY <1>3, TotalByRunningSums
<1>6. /\ sums[0] = 0 /\ \A i \in 1..len : sums[i] = sums[i - 1] + amounts[i]
      /\ parts[0] = 0 /\ \A k \in 1..n : parts[k] = parts[k - 1] + part[k]
      /\ parts[n] \in Nat
  <2>1. Adds(sums, amounts, len) /\ Adds(parts, part, n) /\ parts \in [0..n -> Nat]
    BY <1>1, <1>3, <1>4, <1>5 DEF RunningSums
  <2>2. n \in 0..n
    BY <1>2
  <2> QED BY <2>1, <2>2 DEF Adds
\* After i amounts the sum is that of the first k that were chosen.
<1> DEFINE Split(i, k) == (\A j \in 1..k : at[j] <= i) /\ (\A j \in k + 1 .. n : at[j] > i)
           Same(i) == \E k \in 0..n : Split(i, k) /\ sums[i] = parts[k]
           Failing == {i \in 0..len : ~Same(i)}
<1>7. Same(0)
  <2>1. 0 \in 0..n /\ \A j \in 0 + 1 .. n : at[j] > 0
    BY <1>2
  <2>2. \A j \in 1..0 : at[j] <= 0
    OBVIOUS
  <2> QED BY <1>6, <2>1, <2>2
<1>8. ASSUME NEW i \in 1..len, Same(i - 1) PROVE Same(i)
  <2>1. PICK k \in 0..n : Split(i - 1, k) /\ sums[i - 1] = parts[k]
    BY <1>8
  <2>2. CASE k < n /\ at[k + 1] = i
    <3>1. k + 1 \in 1..n /\ k + 1 \in 0..n /\ (k + 1) - 1 = k
      BY <1>2, <2>2
    <3>2. Split(i, k + 1)
      <4>1. ASSUME NEW j \in 1..k + 1 PROVE at[j] <= i
        <5>1. j \in 1..k \/ j = k + 1
          BY <4>1
        <5>2. j \in 1..k => at[j] <= i - 1 /\ at[j] \in 1..len
          BY <1>2, <2>1
        <5> QED BY <1>2, <2>2, <5>1, <5>2
      <4>2. ASSUME NEW j \in (k + 1) + 1 .. n PROVE at[j] > i
        <5>1. j \in 1..n /\ k + 1 < j
          BY <4>2
        <5> QED BY <1>2, <2>2, <3>1, <5>1
      <4> QED BY <4>1, <4>2
    <3>3. parts[k + 1] = parts[k] + amounts[i] /\ sums[i] = sums[i - 1] + amounts[i]
      BY <1>2, <1>6, <2>2, <3>1
    <3> QED BY <2>1, <3>1, <3>2, <3>3
  <2>3. CASE ~(k < n /\ at[k + 1] = i)
    <3>1. ASSUME NEW j \in k + 1 .. n PROVE at[j] > i
      <4>1. j \in 1..n /\ at[j] > i - 1 /\ at[j] \in 1..len
        BY <1>2, <2>1
      <4>2. j # k + 1 => at[k + 1] < at[j] /\ at[k + 1] > i - 1 /\ at[k + 1] \in 1..len
        BY <1>2, <2>1, <3>1
      <4> QED BY <1>2, <2>3, <3>1, <4>1, <4>2
    <3>2. ASSUME NEW j \in 1..k PROVE at[j] <= i /\ at[j] # i
      BY <1>2, <2>1, <3>2
    <3>3. i \notin chosen
      <4>1. ASSUME NEW j \in 1..n PROVE at[j] # i
        <5>1. j \in 1..k \/ j \in k + 1 .. n
          BY <1>2, <4>1
        <5> QED BY <1>2, <3>1, <3>2, <5>1
      <4> QED BY <1>2, <4>1
    <3>4. amounts[i] = 0 /\ sums[i] = sums[i - 1] + amounts[i]
      BY <1>1, <1>6, <3>3
    <3>5. parts[k] \in Nat
      BY <1>3, <1>5 DEF RunningSums
    <3>6. Split(i, k) /\ sums[i] = parts[k]
      BY <2>1, <3>1, <3>2, <3>4, <3>5
    <3> HIDE DEF Split
    <3> QED BY <3>6
  <2> QED BY <2>2, <2>3
<1>9. Same(len)
  <2>1. SUFFICES ASSUME Failing # {} PROVE FALSE
    BY <1>2
  <2>2. PICK least \in Failing : \A i \in Failing : least <= i
    <3>1. Failing \subseteq Nat
      BY <1>2
    <3> HIDE DEF Failing
    <3> QED BY <2>1, <3>1, LeastNatural
  <2> HIDE DEF Same
  <2>3. least \in 1..len /\ least - 1 \in 0..len /\ ~(least <= least - 1)
    BY <1>2, <1>7, <2>2
  <2>4. Same(least - 1)
    BY <2>2, <2>3
  <2> QED BY <1>8, <2>2, <2>3, <2>4
<1>10. PICK k \in 0..n : Split(len, k) /\ sums[len] = parts[k]
  BY <1>9
<1>11. k = n
  <2>1. SUFFICES ASSUME k < n PROVE FALSE
    BY <1>2
  <2>2. k + 1 \in 1..n /\ k + 1 \in k + 1 .. n
    BY <1>2, <2>1
  <2>3. at[k + 1] > len /\ at[k + 1] \in 1..len
    BY <1>2, <1>10, <2>2
  <2> QED BY <1>2, <2>3
<1> QED BY <1>4, <1>5, <1>6, <1>10, <1>11

(* As many are chosen as there are places.                                 *)
LEMMA CountOfChosen ==
  ASSUME NEW part, NEW seq, NEW at, NEW chosen, Chooses(part, seq, at, chosen),
         DOMAIN seq \subseteq Nat
  PROVE  IsFiniteSet(chosen) /\ Cardinality(chosen) = Len(at)
<1>1. PICK n : n = Len(at) /\ n \in Nat
  BY DEF Chooses
<1>2. /\ at \in [1..n -> chosen] /\ \A i \in chosen : \E k \in 1..n : at[k] = i
      /\ (\A k \in 1..n : at[k] \in Nat) /\ (\A j, k \in 1..n : j < k => at[j] < at[k])
  <2>1. at = [k \in 1..n |-> at[k]]
    BY <1>1 DEF Chooses
  <2>2. /\ \A i \in chosen : \E k \in 1..n : at[k] = i
        /\ \A k \in 1..n : at[k] \in chosen /\ at[k] \in Nat
    BY <1>1 DEF Chooses
  <2> QED BY <1>1, <2>1, <2>2 DEF Chooses
<1>3. ASSUME NEW j \in 1..n, NEW k \in 1..n, at[j] = at[k] PROVE j = k
  BY <1>1, <1>2, <1>3
<1>4. at \in Bijection(1..n, chosen)
  BY <1>2, <1>3 DEF Bijection, Injection, Surjection, IsInjective
<1>5. IsFiniteSet(1..n) /\ Cardinality(1..n) = n
  <2>1. n \in Nat
    BY <1>1
  <2> QED BY ONLY <2>1, FS_Interval
<1> QED BY <1>1, <1>4, <1>5, FS_Bijection DEF ExistsBijection

(* The head of a sequence is the part of the total its tail has not.       *)
LEMMA TotalOfTail ==
  ASSUME NEW amounts \in Seq(Nat), amounts # << >>
  PROVE  /\ Total(amounts) = Head(amounts) + Total(Tail(amounts))
         /\ Head(amounts) \in Nat /\ Total(Tail(amounts)) \in Nat
<1> DEFINE rest == Tail(amounts)
           n == Len(amounts) - 1
<1>1. /\ rest \in Seq(Nat) /\ Len(rest) = n /\ n \in Nat /\ Len(amounts) = n + 1
      /\ Head(amounts) = amounts[1] /\ amounts[1] \in Nat
      /\ \A k \in 1..n : rest[k] = amounts[k + 1]
  BY HeadTailProperties, EmptySeq, LenProperties, ElementOfSeq
<1> HIDE DEF rest, n
<1>2. PICK sums : RunningSums(amounts, sums) /\ Total(amounts) = sums[n + 1]
  BY <1>1, TotalByRunningSums
<1>3. PICK less : RunningSums(rest, less) /\ Total(rest) = less[n]
  BY <1>1, TotalByRunningSums
<1> DEFINE shifted == [k \in 0..n |-> sums[k + 1] - amounts[1]]
<1>4. /\ sums[0] = 0 /\ sums[1] = amounts[1]
      /\ \A k \in 0..n + 1 : sums[k] \in Nat
      /\ \A k \in 1..n : sums[k + 1] = sums[k] + rest[k]
  <2>1. /\ sums \in [0..n + 1 -> Nat] /\ sums[0] = 0
        /\ \A k \in 1..n + 1 : sums[k] = sums[k - 1] + amounts[k]
    BY <1>1, <1>2 DEF RunningSums, Adds
  <2>2. sums[1] = amounts[1]
    <3>1. 1 \in 1..n + 1 /\ 1 - 1 = 0
      BY <1>1
    <3>2. sums[1] = sums[0] + amounts[1]
      BY <2>1, <3>1
    <3> QED BY <1>1, <2>1, <3>2
  <2>3. ASSUME NEW k \in 1..n PROVE sums[k + 1] = sums[k] + rest[k]
    <3>1. k + 1 \in 1..n + 1 /\ (k + 1) - 1 = k
      BY <1>1
    <3> QED BY <1>1, <2>1, <3>1
  <2> QED BY <2>1, <2>2, <2>3
<1>5. less[n] \in Nat /\ Adds(less, rest, n) /\ \A k \in 1..n : rest[k] \in Nat
  BY <1>1, <1>3, ElementOfSeq DEF RunningSums
<1>6. /\ shifted[0] = 0 /\ shifted[n] = sums[n + 1] - amounts[1]
      /\ \A k \in 1..n : shifted[k] = shifted[k - 1] + rest[k]
  <2>1. shifted[0] = 0 /\ shifted[n] = sums[n + 1] - amounts[1]
    BY <1>1, <1>4
  <2>2. ASSUME NEW k \in 1..n PROVE shifted[k] = shifted[k - 1] + rest[k]
    <3>1. k \in 0..n /\ k - 1 \in 0..n /\ (k - 1) + 1 = k /\ k \in 0..n + 1
      BY <1>1
    <3>2. shifted[k] = sums[k + 1] - amounts[1] /\ shifted[k - 1] = sums[k] - amounts[1]
      BY <3>1
    <3>3. sums[k] \in Nat /\ rest[k] \in Nat /\ sums[k + 1] = sums[k] + rest[k]
      BY <1>4, <1>5, <3>1
    <3> QED BY <1>1, <3>2, <3>3
  <2> QED BY <2>1, <2>2
<1> HIDE DEF shifted
<1>7. shifted[n] = less[n]
  <2>1. Adds(shifted, rest, n)
    BY <1>6 DEF Adds
  <2> QED BY <2>1, <1>1, <1>5, <1>6, SumsAgree
<1>8. sums[n + 1] \in Nat
  BY <1>1, <1>4
<1> QED BY <1>1, <1>2, <1>3, <1>5, <1>6, <1>7, <1>8 DEF rest

-----------------------------------------------------------------------------
(* More about sums and lists *)

(* A sum with one amount raised.                                           *)
LEMMA TotalChangedAt ==
  ASSUME NEW amounts \in Seq(Nat), NEW other \in Seq(Nat), Len(other) = Len(amounts),
         NEW p \in 1..Len(amounts), NEW more \in Nat, other[p] = amounts[p] + more,
         \A k \in 1..Len(amounts) : k # p => other[k] = amounts[k]
  PROVE  Total(other) = Total(amounts) + more /\ Total(amounts) \in Nat
<1>1. PICK n : n = Len(amounts) /\ n = Len(other) /\ n \in Nat
  BY LenProperties
<1>2. PICK sums : RunningSums(amounts, sums) /\ Total(amounts) = sums[n]
  BY <1>1, TotalByRunningSums
<1>3. PICK others : RunningSums(other, others) /\ Total(other) = others[n]
  BY <1>1, TotalByRunningSums
<1>4. PICK raised : raised = [k \in 0..n |-> IF k < p THEN sums[k] ELSE sums[k] + more]
  OBVIOUS
<1>5. /\ \A k \in 0..n : sums[k] \in Nat
      /\ sums[0] = 0 /\ \A k \in 1..n : sums[k] = sums[k - 1] + amounts[k]
  BY <1>1, <1>2 DEF RunningSums, Adds
<1>6. Adds(raised, other, n)
  <2>1. raised[0] = 0
    BY <1>1, <1>4, <1>5
  <2>2. ASSUME NEW k \in 1..n PROVE raised[k] = raised[k - 1] + other[k]
    <3>1. /\ k \in 0..n /\ k - 1 \in 0..n /\ amounts[k] \in Nat /\ p \in 1..n
          /\ raised[k] = IF k < p THEN sums[k] ELSE sums[k] + more
          /\ raised[k - 1] = IF k - 1 < p THEN sums[k - 1] ELSE sums[k - 1] + more
      BY <1>1, <1>4, ElementOfSeq
    <3>2. sums[k] = sums[k - 1] + amounts[k] /\ sums[k] \in Nat /\ sums[k - 1] \in Nat
      BY <1>5, <3>1
    <3>3. CASE k < p
      <4>1. k - 1 < p /\ other[k] = amounts[k]
        BY <1>1, <3>1, <3>3
      <4>2. raised[k] = sums[k] /\ raised[k - 1] = sums[k - 1]
        BY <3>1, <3>3, <4>1
      <4> QED BY <3>2, <4>1, <4>2
    <3>4. CASE k = p
      <4>1. k - 1 < p /\ ~(k < p) /\ other[k] = amounts[k] + more
        BY <3>1, <3>4
      <4>2. raised[k] = sums[k] + more /\ raised[k - 1] = sums[k - 1]
        BY <3>1, <4>1
      <4>3. PICK before, here : before = sums[k - 1] /\ here = amounts[k]
        OBVIOUS
      <4>4. before \in Nat /\ here \in Nat /\ more \in Nat
        BY <3>1, <3>2, <4>3
      <4>5. (before + here) + more = before + (here + more)
        BY ONLY <4>4
      <4>6. raised[k] = (before + here) + more /\ raised[k - 1] = before
        BY <3>2, <4>2, <4>3
      <4>7. other[k] = here + more
        BY <4>1, <4>3
      <4> QED BY <4>5, <4>6, <4>7, Zenon
    <3>5. CASE p < k
      <4>1. ~(k - 1 < p) /\ ~(k < p) /\ other[k] = amounts[k]
        BY <1>1, <3>1, <3>5
      <4>2. raised[k] = sums[k] + more /\ raised[k - 1] = sums[k - 1] + more
        BY <3>1, <4>1
      <4>3. PICK before, here : before = sums[k - 1] /\ here = amounts[k]
        OBVIOUS
      <4>4. before \in Nat /\ here \in Nat /\ more \in Nat
        BY <3>1, <3>2, <4>3
      <4>5. (before + here) + more = (before + more) + here
        BY ONLY <4>4
      <4>6. raised[k] = (before + here) + more /\ raised[k - 1] = before + more
        BY <3>2, <4>2, <4>3
      <4> QED BY <4>1, <4>3, <4>5, <4>6, Zenon
    <3> QED BY <3>1, <3>3, <3>4, <3>5
  <2> QED BY <2>1, <2>2 DEF Adds
<1>7. others[n] = raised[n]
  <2>1. Adds(others, other, n)
    BY <1>1, <1>3 DEF RunningSums
  <2> QED BY <1>1, <1>6, <2>1, SumsAgree
<1>8. raised[n] = sums[n] + more /\ sums[n] \in Nat
  BY <1>1, <1>4, <1>5
<1> QED BY <1>2, <1>3, <1>7, <1>8

(* Smaller amounts add up to less.                                         *)
LEMMA TotalAtMost ==
  ASSUME NEW amounts \in Seq(Nat), NEW other \in Seq(Nat), Len(other) = Len(amounts),
         \A k \in 1..Len(amounts) : amounts[k] <= other[k]
  PROVE  Total(amounts) <= Total(other) /\ Total(amounts) \in Nat /\ Total(other) \in Nat
<1>1. PICK n : n = Len(amounts) /\ n = Len(other) /\ n \in Nat
  BY LenProperties
<1>2. PICK sums : RunningSums(amounts, sums) /\ Total(amounts) = sums[n]
  BY <1>1, TotalByRunningSums
<1>3. PICK others : RunningSums(other, others) /\ Total(other) = others[n]
  BY <1>1, TotalByRunningSums
<1>4. /\ \A k \in 0..n : sums[k] \in Nat /\ others[k] \in Nat
      /\ sums[0] = 0 /\ \A k \in 1..n : sums[k] = sums[k - 1] + amounts[k]
      /\ others[0] = 0 /\ \A k \in 1..n : others[k] = others[k - 1] + other[k]
  BY <1>1, <1>2, <1>3 DEF RunningSums, Adds
<1> DEFINE Above == {k \in 0..n : ~(sums[k] <= others[k])}
<1>5. Above = {}
  <2>1. SUFFICES ASSUME Above # {} PROVE FALSE
    OBVIOUS
  <2>2. PICK least \in Above : \A k \in Above : least <= k
    <3>1. Above \subseteq Nat
      OBVIOUS
    <3> HIDE DEF Above
    <3> QED BY <2>1, <3>1, LeastNatural
  <2>3. /\ least \in 1..n /\ least - 1 \in 0..n /\ ~(least <= least - 1) /\ least \in 0..n
        /\ ~(sums[least] <= others[least])
    BY <1>1, <1>4, <2>2
  <2>4. sums[least - 1] <= others[least - 1]
    BY <2>2, <2>3
  <2>5. amounts[least] \in Nat /\ other[least] \in Nat /\ amounts[least] <= other[least]
    BY <1>1, <2>3, ElementOfSeq
  <2>6. sums[least] = sums[least - 1] + amounts[least] /\ others[least] = others[least - 1] + other[least]
    BY <1>4, <2>3
  <2>7. sums[least - 1] \in Nat /\ others[least - 1] \in Nat
    BY <1>4, <2>3
  <2> QED BY <2>3, <2>4, <2>5, <2>6, <2>7
<1>6. n \in 0..n /\ n \notin Above
  BY <1>1, <1>5
<1> QED BY <1>2, <1>3, <1>4, <1>6

(* What a list with one more entry flattens to.                            *)
LEMMA FlattenOfAppend ==
  ASSUME NEW S, NEW seqs \in Seq(Seq(S)), NEW seq \in Seq(S)
  PROVE  FlattenSeq(Append(seqs, seq)) = FlattenSeq(seqs) \o seq
<1>1. PICK n, more : n = Len(seqs) /\ more = Append(seqs, seq)
  OBVIOUS
<1>2. /\ n \in Nat /\ more \in Seq(Seq(S)) /\ Len(more) = n + 1 /\ more[n + 1] = seq
      /\ \A i \in 1..n : more[i] = seqs[i]
  BY <1>1
<1>5. PICK flat : /\ FlattenSeq(more) = flat[n + 1] /\ flat[1] = more[1]
                  /\ \A i \in 2..n + 1 : flat[i] = flat[i - 1] \o more[i]
  <2>1. Len(more) \in Nat /\ Len(more) # 0
    BY <1>2
  <2>2. \E flat : /\ FlattenSeq(more) = flat[Len(more)]
                  /\ flat[1] = more[1]
                  /\ \A i \in 2..Len(more) : flat[i] = flat[i - 1] \o more[i]
    BY ONLY <2>1, FlattenIsLast
  <2> QED BY <1>2, <2>2, Zenon
<1>3. CASE n = 0
  <2>1. seqs = << >> /\ FlattenSeq(seqs) = seqs
    BY <1>1, <1>2, <1>3 DEF FlattenSeq
  <2>2. FlattenSeq(more) = seq
    BY <1>2, <1>3, <1>5
  <2>3. << >> \o seq = seq
    OBVIOUS
  <2> QED BY <1>1, <2>1, <2>2, <2>3, Zenon
<1>4. CASE n # 0
  <2>1. PICK part : /\ FlattenSeq(seqs) = part[n] /\ part[1] = seqs[1]
                    /\ \A i \in 2..n : part[i] = part[i - 1] \o seqs[i]
    <3>1. Len(seqs) \in Nat /\ Len(seqs) # 0
      BY <1>1, <1>2, <1>4, Zenon
    <3>2. \E part : /\ FlattenSeq(seqs) = part[Len(seqs)]
                    /\ part[1] = seqs[1]
                    /\ \A i \in 2..Len(seqs) : part[i] = part[i - 1] \o seqs[i]
      BY ONLY <3>1, FlattenIsLast
    <3> QED BY <1>1, <3>2, Zenon
  <2> DEFINE Apart == {k \in 1..n : flat[k] # part[k]}
  <2>2. Apart = {}
    <3>1. SUFFICES ASSUME Apart # {} PROVE FALSE
      OBVIOUS
    <3>2. PICK least \in Apart : \A k \in Apart : least <= k
      <4>1. Apart \subseteq Nat
        OBVIOUS
      <4> HIDE DEF Apart
      <4> QED BY <3>1, <4>1, LeastNatural
    <3>3. flat[1] = part[1] /\ 1 \in 1..n
      BY <1>2, <1>4, <1>5, <2>1
    <3>4. /\ least \in 2..n /\ least \in 2..n + 1 /\ least - 1 \in 1..n /\ ~(least <= least - 1)
          /\ least \in 1..n /\ flat[least] # part[least]
      BY <1>2, <3>2, <3>3
    <3>5. flat[least - 1] = part[least - 1]
      BY <3>2, <3>4
    <3>6. flat[least] = flat[least - 1] \o more[least] /\ part[least] = part[least - 1] \o seqs[least]
          /\ more[least] = seqs[least]
      BY <1>2, <1>5, <2>1, <3>4
    <3> QED BY <3>4, <3>5, <3>6, Zenon
  <2>3. n \in 1..n /\ n + 1 \in 2..n + 1 /\ (n + 1) - 1 = n
    BY <1>2, <1>4
  <2>4. flat[n] = part[n] /\ flat[n + 1] = flat[n] \o more[n + 1]
    BY <1>5, <2>2, <2>3
  <2> QED BY <1>1, <1>2, <1>5, <2>1, <2>4, Zenon
<1> QED BY <1>3, <1>4

\* How many of S are before x in the relation R.
Place(S, R, x) == Cardinality({y \in S : <<y, x>> \in R})

IsListOf(at, n, S, R) ==
  /\ n \in Nat /\ at \in [1..n -> S]
  /\ \A x \in S : \E k \in 1..n : at[k] = x
  /\ \A j, k \in 1..n : j < k => <<at[j], at[k]>> \in R
  /\ \A x, y \in S : ~(<<x, y>> \in R /\ <<y, x>> \in R)

(* The k-th of an ordered list has k - 1 before it.                        *)
LEMMA PlaceInList ==
  ASSUME NEW at, NEW n, NEW S, NEW R, IsListOf(at, n, S, R), NEW k \in 1..n
  PROVE  Place(S, R, at[k]) = k - 1
<1>1. /\ n \in Nat /\ k \in 1..n /\ at \in [1..n -> S]
      /\ \A x \in S : \E j \in 1..n : at[j] = x
      /\ \A i, j \in 1..n : i < j => <<at[i], at[j]>> \in R
      /\ \A x, y \in S : ~(<<x, y>> \in R /\ <<y, x>> \in R)
  BY DEF IsListOf
<1>2. PICK before : before = {y \in S : <<y, at[k]>> \in R}
  OBVIOUS
<1>3. PICK first_ones : first_ones = [j \in 1..k - 1 |-> at[j]]
  OBVIOUS
<1>4. \A j \in 1..k - 1 : j \in 1..n /\ j < k
  BY <1>1
<1>5. ASSUME NEW j \in 1..k - 1 PROVE first_ones[j] \in before /\ first_ones[j] = at[j]
  BY <1>1, <1>2, <1>3, <1>4
<1>6. ASSUME NEW y \in before PROVE \E j \in 1..k - 1 : first_ones[j] = y
  <2>1. y \in S /\ <<y, at[k]>> \in R /\ at[k] \in S
    BY <1>1, <1>2
  <2>2. PICK j \in 1..n : at[j] = y
    BY <1>1, <2>1
  <2>3. j # k /\ ~(k < j)
    BY <1>1, <2>1, <2>2
  <2>4. j \in 1..k - 1
    BY <1>1, <2>3
  <2> QED BY <1>5, <2>2, <2>4
<1>7. ASSUME NEW i \in 1..k - 1, NEW j \in 1..k - 1, first_ones[i] = first_ones[j] PROVE i = j
  <2>1. at[i] = at[j] /\ at[i] \in S /\ i \in 1..n /\ j \in 1..n
    BY <1>1, <1>4, <1>5, <1>7
  <2>2. ~(i < j) /\ ~(j < i)
    BY <1>1, <2>1
  <2> QED BY <1>1, <2>1, <2>2
<1>8. first_ones \in Bijection(1..k - 1, before)
  <2>1. first_ones \in [1..k - 1 -> before]
    BY <1>3, <1>5
  <2> QED BY <1>6, <1>7, <2>1 DEF Bijection, Injection, Surjection, IsInjective
<1>9. IsFiniteSet(1..k - 1) /\ Cardinality(1..k - 1) = k - 1
  <2>1. k - 1 \in Nat
    BY <1>1
  <2> QED BY ONLY <2>1, FS_Interval
<1>10. Cardinality(before) = k - 1
  BY <1>8, <1>9, FS_Bijection DEF ExistsBijection
<1> QED BY <1>2, <1>10 DEF Place

(* And is the only one with that many before it.                           *)
LEMMA ListByPlace ==
  ASSUME NEW at, NEW n, NEW S, NEW R, IsListOf(at, n, S, R)
  PROVE  /\ Cardinality(S) = n
         /\ at = [k \in 1..n |-> CHOOSE x \in S : Place(S, R, x) = k - 1]
<1>1. /\ n \in Nat /\ at \in [1..n -> S]
      /\ \A x \in S : \E j \in 1..n : at[j] = x
      /\ \A i, j \in 1..n : i < j => <<at[i], at[j]>> \in R
      /\ \A x, y \in S : ~(<<x, y>> \in R /\ <<y, x>> \in R)
  BY DEF IsListOf
<1>2. Cardinality(S) = n
  <2>1. ASSUME NEW i \in 1..n, NEW j \in 1..n, at[i] = at[j] PROVE i = j
    <3>1. at[i] \in S /\ <<at[i], at[i]>> \notin R
      BY <1>1
    <3>2. ~(i < j) /\ ~(j < i)
      BY <1>1, <2>1, <3>1
    <3> QED BY <1>1, <3>2
  <2>2. at \in Bijection(1..n, S)
    BY <1>1, <2>1 DEF Bijection, Injection, Surjection, IsInjective
  <2>3. IsFiniteSet(1..n) /\ Cardinality(1..n) = n
    BY ONLY <1>1, FS_Interval
  <2> QED BY <2>2, <2>3, FS_Bijection DEF ExistsBijection
<1>3. ASSUME NEW k \in 1..n PROVE at[k] = CHOOSE x \in S : Place(S, R, x) = k - 1
  <2>0. PICK own : own = at[k]
    OBVIOUS
  <2>1. own \in S /\ Place(S, R, own) = k - 1
    <3>1. Place(S, R, own) = k - 1
      BY <2>0, PlaceInList
    <3> QED BY <1>1, <2>0, <3>1
  <2>2. ASSUME NEW x \in S, Place(S, R, x) = k - 1 PROVE x = at[k]
    <3>1. PICK j \in 1..n : at[j] = x
      BY <1>1
    <3>2. Place(S, R, x) = j - 1
      BY <3>1, PlaceInList
    <3>3. j - 1 = k - 1
      BY <2>2, <3>2
    <3> QED BY <1>1, <3>1, <3>3
  <2>3. PICK x : x = CHOOSE y \in S : Place(S, R, y) = k - 1
    OBVIOUS
  <2>4. x \in S /\ Place(S, R, x) = k - 1
    BY <2>1, <2>3
  <2> QED BY <2>0, <2>2, <2>3, <2>4
<1> QED BY <1>1, <1>2, <1>3

-----------------------------------------------------------------------------
(* The log only grows *)

\* What was logged stays where it is, and at most one event follows.
LogGrows ==
  /\ Len(log) \in Nat /\ DOMAIN log = 1..Len(log)
  /\ DOMAIN log' = 1..Len(log') /\ Len(log') \in {Len(log), Len(log) + 1}
  /\ \A i \in DOMAIN log : log'[i] = log[i]

(* Every step only adds to the log.                                        *)
LEMMA StepLogGrows ==
  ASSUME EngineInv, [Next]_vars
  PROVE  LogGrows
<1>1. SequencerTypes
  BY DEF EngineInv, TypeOK
<1>2. ASSUME NEW event \in Events, append_event(event)
      PROVE  LogGrows
  BY <1>1, <1>2, AppendEventType DEF LogGrows
<1>3. CASE UNCHANGED log
  BY <1>1, <1>3, LenProperties DEF LogGrows, SequencerTypes
<1>4. ASSUME NEW signed \in SignedOrders, NEW now_ms, ProcessOrder(signed, now_ms)
      PROVE  LogGrows
  BY <1>2, <1>4, AcceptanceStep
<1> QED BY <1>2, <1>3, <1>4, StepInv DEF NoAcceptance

\* The log's position `at` is the acceptance of this order.
Recorded(at, id, hash) ==
  at \in Accepted /\ OrderAt(at).order_id = id /\ OrderAt(at).order_hash = hash

\* Two records of one order: what never changes of it is the same in both.
SameOrder(one, other) ==
  /\ one.order_id = other.order_id /\ one.order_hash = other.order_hash
  /\ one.signed = other.signed /\ one.created_sequence = other.created_sequence

\* An order carries the position of its acceptance.
AcceptedAs(order) ==
  /\ Recorded(order.created_sequence, order.order_id, order.order_hash)
  /\ OrderAt(order.created_sequence).signed = order.signed

\* Position k is a fill of the order with this id as the taker.
FillsTaker(k, id) == k \in FillPositions /\ log[k].event.fill.taker_order_id = id

\* A maker of a fill was accepted before the position `at`.
MakerBefore(fill, at) ==
  \E j \in Accepted : j < at /\ Recorded(j, fill.maker_order_id, fill.maker_order_hash)

\* What EventsFollowAcceptance says of one fill, and of one cancellation.
FillFollows(i) ==
  LET fill == log[i].event.fill
      at == fill.sequence_id
  IN /\ at < i /\ Recorded(at, fill.taker_order_id, fill.taker_order_hash)
     /\ \A k \in at + 1 .. i : FillsTaker(k, fill.taker_order_id)
     /\ MakerBefore(fill, at)

CancelFollows(i) ==
  \E j \in Accepted : j < i /\ Recorded(j, log[i].event.order_id, log[i].event.order_hash)

OnBook(m, id) == m \in DOMAIN books /\ id \in DOMAIN books[m].orders

OrderOn(m, id) == books[m].orders[id]

BooksRecorded == \A m, id : OnBook(m, id) => AcceptedAs(OrderOn(m, id))

\* A fill match_order has made and process_order has not yet sequenced.
PendingSound(fill) ==
  /\ fill.sequence_id = taker.created_sequence
  /\ fill.taker_order_id = taker.order_id /\ fill.taker_order_hash = taker.order_hash
  /\ MakerBefore(fill, taker.created_sequence)

CallRecorded ==
  /\ InProcessOrder =>
       /\ AcceptedAs(taker)
       /\ \A k \in taker.created_sequence + 1 .. Len(log) : FillsTaker(k, taker.order_id)
       /\ \A i \in DOMAIN fills : PendingSound(fills[i])
  /\ ~InProcessOrder => fills = << >>

\* Order ids rise along the log, and a hash is that of its signed order.
AcceptancesSound ==
  /\ \A i, j \in Accepted : i < j => OrderAt(i).order_id < OrderAt(j).order_id
  /\ \A i \in Accepted :
       /\ OrderAt(i).order_id <= uuids
       /\ OrderAt(i).order_hash = canonical_hash(OrderAt(i).signed)

LogInv ==
  /\ \A i \in FillPositions : FillFollows(i)
  /\ \A i \in CancelPositions : CancelFollows(i)
  /\ BooksRecorded /\ CallRecorded /\ AcceptancesSound

-----------------------------------------------------------------------------
(* What stays true of a log that grows *)

(* The positions of the log are positions of the longer log, of the same   *)
(* kind and with the same event.                                           *)
LEMMA PositionsKept ==
  ASSUME LogGrows, NEW i, i \in DOMAIN log
  PROVE  /\ i \in DOMAIN log' /\ log'[i] = log[i]
         /\ i \in Accepted' <=> i \in Accepted
         /\ i \in FillPositions' <=> i \in FillPositions
         /\ i \in CancelPositions' <=> i \in CancelPositions
<1>1. log'[i] = log[i]
  BY DEF LogGrows
<1>2. i \in DOMAIN log'
  <2>1. /\ Len(log) \in Nat /\ i \in 1..Len(log)
        /\ Len(log') = Len(log) \/ Len(log') = Len(log) + 1
    BY DEF LogGrows
  <2>2. i \in 1..Len(log')
    BY <2>1
  <2> QED BY <2>2 DEF LogGrows
<1> QED BY <1>1, <1>2 DEF Accepted, FillPositions, CancelPositions

(* The acceptance of an order stays where it is.                           *)
LEMMA RecordedKept ==
  ASSUME LogGrows, NEW at, NEW id, NEW hash, Recorded(at, id, hash)
  PROVE  /\ Recorded(at, id, hash)' /\ log'[at] = log[at]
         /\ at \in 1..Len(log) /\ at \in Accepted /\ at \in Accepted'
<1>1. at \in DOMAIN log /\ at \in Accepted
  BY DEF Recorded, Accepted
<1>2. log'[at] = log[at] /\ at \in Accepted'
  BY <1>1, PositionsKept
<1> QED BY <1>1, <1>2 DEF Recorded, OrderAt, LogGrows

(* So does what an order says of its own acceptance.                       *)
LEMMA AcceptedAsKept ==
  ASSUME LogGrows, NEW order, AcceptedAs(order), NEW same, SameOrder(same, order)
  PROVE  AcceptedAs(same)' /\ order.created_sequence \in 1..Len(log)
<1> DEFINE at == order.created_sequence
<1>1. Recorded(at, order.order_id, order.order_hash) /\ OrderAt(at).signed = order.signed
  BY DEF AcceptedAs
<1>2. /\ Recorded(at, order.order_id, order.order_hash)' /\ log'[at] = log[at]
      /\ at \in 1..Len(log)
  BY <1>1, RecordedKept
<1>3. /\ same.order_id = order.order_id /\ same.order_hash = order.order_hash
      /\ same.signed = order.signed /\ same.created_sequence = at
  BY DEF SameOrder
<1> HIDE DEF at
<1>4. log'[at].event.order.signed = order.signed
  BY <1>1, <1>2 DEF OrderAt
<1>5. Recorded(at, same.order_id, same.order_hash)' /\ log'[at].event.order.signed = same.signed
  BY <1>2, <1>3, <1>4
<1>6. AcceptedAs(same)'
  BY <1>3, <1>5 DEF AcceptedAs, OrderAt
<1> QED BY <1>2, <1>6 DEF at

(* So does the acceptance of a maker before its taker.                     *)
LEMMA MakerBeforeKept ==
  ASSUME LogGrows, NEW fill, NEW at, MakerBefore(fill, at)
  PROVE  MakerBefore(fill, at)'
<1>1. PICK j \in Accepted : j < at /\ Recorded(j, fill.maker_order_id, fill.maker_order_hash)
  BY DEF MakerBefore
<1>2. Recorded(j, fill.maker_order_id, fill.maker_order_hash)' /\ j \in Accepted'
  BY <1>1, RecordedKept
<1> QED BY <1>1, <1>2 DEF MakerBefore

(* And that a position is a fill of a taker.                               *)
LEMMA FillsTakerKept ==
  ASSUME LogGrows, NEW k, NEW id, FillsTaker(k, id)
  PROVE  FillsTaker(k, id)'
<1>1. k \in DOMAIN log
  BY DEF FillsTaker, FillPositions
<1> QED BY <1>1, PositionsKept DEF FillsTaker

(* The events of the log still follow their acceptances in the longer log, *)
(* and so they do all when the new one does.                               *)
LEMMA EntriesFollow ==
  ASSUME LogGrows, NEW last, last = Len(log) + 1,
         \A i \in FillPositions : FillFollows(i), \A i \in CancelPositions : CancelFollows(i),
         last \in FillPositions' => FillFollows(last)',
         last \in CancelPositions' => CancelFollows(last)'
  PROVE  /\ (\A i \in FillPositions : FillFollows(i))'
         /\ (\A i \in CancelPositions : CancelFollows(i))'
<1>1. ASSUME NEW i \in DOMAIN log'
      PROVE  i \in DOMAIN log \/ i = last
  <2>1. /\ Len(log) \in Nat /\ i \in 1..Len(log')
        /\ Len(log') = Len(log) \/ Len(log') = Len(log) + 1
    BY DEF LogGrows
  <2>2. i \in 1..Len(log) \/ i = last
    BY <2>1
  <2> QED BY <2>2 DEF LogGrows
<1>2. ASSUME NEW i \in FillPositions' PROVE FillFollows(i)'
  <2>1. CASE i \in DOMAIN log
    <3>1. i \in FillPositions /\ log'[i] = log[i]
      BY <1>2, <2>1, PositionsKept
    <3>2. PICK fill : fill = log[i].event.fill
      OBVIOUS
    <3>3. PICK at : at = fill.sequence_id
      OBVIOUS
    <3>4. /\ at < i /\ Recorded(at, fill.taker_order_id, fill.taker_order_hash)
          /\ \A k \in at + 1 .. i : FillsTaker(k, fill.taker_order_id)
          /\ MakerBefore(fill, at)
      BY <3>1, <3>2, <3>3 DEF FillFollows
    <3>5. Recorded(at, fill.taker_order_id, fill.taker_order_hash)' /\ MakerBefore(fill, at)'
      BY <3>4, RecordedKept, MakerBeforeKept
    <3>6. ASSUME NEW k \in at + 1 .. i PROVE FillsTaker(k, fill.taker_order_id)'
      BY <3>4, FillsTakerKept
    <3>7. log'[i].event.fill = fill
      BY <3>1, <3>2
    <3> QED BY <3>3, <3>4, <3>5, <3>6, <3>7 DEF FillFollows
  <2>2. i \in DOMAIN log'
    BY <1>2 DEF FillPositions
  <2> QED BY <1>1, <1>2, <2>1, <2>2
<1>3. ASSUME NEW i \in CancelPositions' PROVE CancelFollows(i)'
  <2>1. CASE i \in DOMAIN log
    <3>1. i \in CancelPositions /\ log'[i] = log[i]
      BY <1>3, <2>1, PositionsKept
    <3>2. PICK id, hash : id = log[i].event.order_id /\ hash = log[i].event.order_hash
      OBVIOUS
    <3>3. PICK j \in Accepted : j < i /\ Recorded(j, id, hash)
      BY <3>1, <3>2 DEF CancelFollows
    <3>4. Recorded(j, id, hash)' /\ j \in Accepted'
      BY <3>3, RecordedKept
    <3>5. log'[i].event.order_id = id /\ log'[i].event.order_hash = hash
      BY <3>1, <3>2
    <3> QED BY <3>3, <3>4, <3>5 DEF CancelFollows
  <2>2. i \in DOMAIN log'
    BY <1>3 DEF CancelPositions
  <2> QED BY <1>1, <1>3, <2>1, <2>2
<1> QED BY <1>2, <1>3

-----------------------------------------------------------------------------
(* The orders on the books, step by step                                   *)

(* A turn of the loop fills one order on the books, or none.               *)
LEMMA MatchMakerOrders ==
  ASSUME EngineInv, QueueInv, MatchMaker, NEW m, NEW id
  PROVE  /\ OnBook(m, id)' <=> OnBook(m, id)
         /\ OnBook(m, id) =>
              \/ OrderOn(m, id)' = OrderOn(m, id)
                   /\ (fills' = fills \/ m # taker.signed.market_id \/ id # Head(maker_ids))
              \/ /\ m = taker.signed.market_id /\ id = Head(maker_ids)
                 /\ FillMaker(OrderOn(m, id))
                 /\ OrderOn(m, id)' = after_fill(OrderOn(m, id), fill_qty(OrderOn(m, id)),
                                                 taker.created_sequence)
<1> DEFINE market_id == taker.signed.market_id
           book == books[market_id]
           side == Opposite(taker.signed.side)
           first == Head(maker_ids)
           maker == book.orders[first]
           before == book.orders
<1>1. /\ Wants(taker) /\ InProcessOrder
      /\ BookFits(book, market_id) /\ market_id \in DOMAIN books
      /\ first \in DOMAIN before
      /\ maker \in Orders /\ maker.order_id = first
      /\ maker.filled_size_lots <= maker.signed.size_lots /\ remaining_size_lots(maker) > 0
      /\ StpCancelTaker(maker) \/ FillMaker(maker)
  BY MatchMakerMeets
<1>2. CASE StpCancelTaker(maker)
  BY <1>2 DEF StpCancelTaker, OnBook, OrderOn
<1>3. CASE FillMaker(maker)
  <2> DEFINE qty == fill_qty(maker)
             filled == after_fill(maker, qty, taker.created_sequence)
             new == update_maker(book, filled)
             after == [before EXCEPT ![first] = filled]
  <2>1. books' = [books EXCEPT ![market_id] = new]
    BY <1>3 DEF FillMaker
  <2>2. filled \in Orders /\ filled.order_id = first
    <3>1. taker \in Orders /\ taker.filled_size_lots <= taker.signed.size_lots
          /\ remaining_size_lots(taker) > 0
      BY <1>1 DEF EngineInv, CallFits, Wants
    <3> HIDE DEF maker, first
    <3> QED BY <1>1, <3>1, FillMakerParts
  <2> HIDE DEF filled, qty
  <2>3. new.orders = after
    <3>1. new = [ queues |-> IF ~is_closed(filled) THEN book.queues
                             ELSE [book.queues EXCEPT ![filled.signed.side] =
                                     take_off(@, filled.signed.price_ticks, filled.order_id)],
                  orders |-> [book.orders EXCEPT ![filled.order_id] = filled] ]
      <4> HIDE DEF book, first, market_id
      <4> QED BY <1>1, <2>2, UpdateMakerParts
    <3> HIDE DEF new, book
    <3> QED BY <2>2, <3>1
  <2> HIDE DEF new
  <2>4. /\ DOMAIN after = DOMAIN before /\ after[first] = filled
        /\ ChangedAt(after, before, first)
    BY <1>1 DEF ChangedAt, BookFits, IsBook, IsMap
  <2> HIDE DEF after
  <2>5. /\ DOMAIN books' = DOMAIN books /\ books'[market_id] = new
        /\ \A k \in DOMAIN books : k # market_id => books'[k] = books[k]
    BY <1>1, <2>1 DEF EngineInv, TypeOK, EngineTypes
  <2> HIDE DEF book
  <2>6. CASE m # market_id
    <3> HIDE DEF market_id
    <3> QED BY <2>5, <2>6 DEF OnBook, OrderOn, market_id
  <2>7. CASE m = market_id /\ id # first
    <3>1. books'[m].orders = after /\ books[m].orders = before
      BY <2>3, <2>5, <2>7 DEF book
    <3> HIDE DEF market_id, first, before
    <3>2. OnBook(m, id)' <=> OnBook(m, id)
      BY <2>4, <2>5, <3>1 DEF OnBook
    <3>3. OnBook(m, id) => OrderOn(m, id)' = OrderOn(m, id)
      BY <2>4, <2>7, <3>1 DEF OnBook, OrderOn, ChangedAt
    <3> QED BY <2>7, <3>2, <3>3 DEF first
  <2>8. CASE m = market_id /\ id = first
    <3>1. books'[m].orders = after /\ books[m].orders = before /\ maker = OrderOn(m, id)
      BY <2>3, <2>5, <2>8 DEF book, OrderOn
    <3>2. OnBook(m, id)' <=> OnBook(m, id)
      <4> HIDE DEF market_id, first, before, maker
      <4> QED BY <2>4, <2>5, <3>1 DEF OnBook
    <3>3. OrderOn(m, id)' = filled
      BY <2>4, <2>8, <3>1 DEF OrderOn
    <3> HIDE DEF maker
    <3> QED BY <1>3, <2>8, <3>1, <3>2, <3>3 DEF filled, qty
  <2> QED BY <2>6, <2>7, <2>8
<1> QED BY <1>1, <1>2, <1>3

(* The residual of the taker joins the orders of its market.               *)
LEMMA FinishOrderOrders ==
  ASSUME EngineInv, QueueInv, FinishOrder, NEW m, NEW id
  PROVE  /\ OnBook(m, id) => OnBook(m, id)' /\ OrderOn(m, id)' = OrderOn(m, id)
         /\ OnBook(m, id)' =>
              \/ OnBook(m, id)
              \/ /\ Wants(taker) /\ m = taker.signed.market_id /\ id = taker.order_id
                 /\ OrderOn(m, id)' = taker
         /\ Wants(taker) /\ m = taker.signed.market_id /\ id = taker.order_id => OnBook(m, id)'
         /\ id = taker.order_id => ~OnBook(m, id)
<1> DEFINE market_id == taker.signed.market_id
           book == books[market_id]
           new == insert(book, taker)
<1>1. /\ InProcessOrder
      /\ books' = IF Wants(taker) THEN [books EXCEPT ![market_id] = new] ELSE books
  BY DEF FinishOrder, RestResidual, Wants, InProcessOrder
<1>2. taker \in Orders /\ market_id \in DOMAIN books
  BY <1>1 DEF EngineInv, CallFits
<1>3. id = taker.order_id => ~OnBook(m, id)
  <2> SUFFICES ASSUME id = taker.order_id, OnBook(m, id) PROVE FALSE
    OBVIOUS
  <2>1. id < taker.order_id
    BY <1>1 DEF QueueInv, IdsFresh, BookIdsFresh, OnBook
  <2>2. taker.order_id \in Nat
    BY <1>2 DEF Orders, OrderIds
  <2> QED BY <2>1, <2>2
<1>4. CASE ~Wants(taker)
  BY <1>1, <1>3, <1>4 DEF OnBook, OrderOn
<1>5. CASE Wants(taker)
  <2>1. taker.order_id \notin DOMAIN book.orders
    <3>1. ASSUME taker.order_id \in DOMAIN book.orders PROVE FALSE
      <4>1. taker.order_id < taker.order_id
        BY <1>1, <1>2, <3>1 DEF QueueInv, IdsFresh, BookIdsFresh
      <4>2. taker.order_id \in Nat
        BY <1>2 DEF Orders, OrderIds
      <4> QED BY <4>1, <4>2
    <3> QED BY <3>1
  <2>2. /\ DOMAIN new.orders = DOMAIN book.orders \cup {taker.order_id}
        /\ new.orders[taker.order_id] = taker
        /\ \A k \in DOMAIN book.orders : new.orders[k] = book.orders[k]
    BY <2>1 DEF insert, put
  <2> HIDE DEF new
  <2>3. /\ DOMAIN books' = DOMAIN books /\ books'[market_id] = new
        /\ \A k \in DOMAIN books : k # market_id => books'[k] = books[k]
    BY <1>1, <1>2, <1>5 DEF EngineInv, TypeOK, EngineTypes
  <2>4. CASE m # market_id
    <3> HIDE DEF market_id
    <3> QED BY <1>3, <2>3, <2>4 DEF OnBook, OrderOn, market_id
  <2>5. CASE m = market_id
    <3>1. books'[m] = new /\ books[m] = book /\ m \in DOMAIN books /\ m \in DOMAIN books'
      BY <1>2, <2>3, <2>5
    <3> HIDE DEF book, market_id
    <3>2. CASE id = taker.order_id
      BY <1>3, <1>5, <2>2, <2>5, <3>1, <3>2 DEF OnBook, OrderOn, market_id
    <3>3. CASE id # taker.order_id
      BY <2>2, <3>1, <3>3 DEF OnBook, OrderOn
    <3> QED BY <3>2, <3>3
  <2> QED BY <2>4, <2>5
<1> QED BY <1>4, <1>5

(* A trader's cancellation closes its order, and touches no other.         *)
LEMMA ProcessCancelOrders ==
  ASSUME EngineInv, QueueInv, NEW gone, NEW trader_id, ProcessCancel(gone, trader_id),
         NEW m, NEW id
  PROVE  /\ OnBook(m, id)' <=> OnBook(m, id)
         /\ OnBook(m, id) =>
              \/ id # gone /\ OrderOn(m, id)' = OrderOn(m, id)
              \/ /\ id = gone /\ find_order(gone) = OrderOn(m, id)
                 /\ OrderOn(m, id)' = [OrderOn(m, id) EXCEPT !.status = "cancelled"]
<1> DEFINE market_id == order_market_index[gone]
           book == books[market_id]
           new == cancel(book, gone)
           before == book.orders
           order == [before[gone] EXCEPT !.status = "cancelled"]
           after == [before EXCEPT ![gone] = order]
<1>1. /\ market_id \in DOMAIN books /\ gone \in DOMAIN before /\ ~is_closed(before[gone])
      /\ books' = [books EXCEPT ![market_id] = new]
      /\ find_order(gone) = before[gone]
  BY DEF ProcessCancel, find_order, matching_vars
<1>2. BookFits(book, market_id)
  BY <1>1 DEF EngineInv, BooksFit
<1>3. new.orders = after
  <2>1. cancel(book, gone) =
          [ queues |-> [book.queues EXCEPT ![order.signed.side] =
                          take_off(@, order.signed.price_ticks, gone)],
            orders |-> [book.orders EXCEPT ![gone] = order] ]
    <3>1. gone \in DOMAIN book.orders /\ ~is_closed(book.orders[gone])
          /\ order = [book.orders[gone] EXCEPT !.status = "cancelled"]
      BY <1>1
    <3> HIDE DEF book, market_id, order, before
    <3> QED BY <1>2, <3>1, CancelParts
  <2> HIDE DEF order, book
  <2> QED BY <2>1
<1> HIDE DEF new
<1>4. DOMAIN after = DOMAIN before /\ after[gone] = order /\ ChangedAt(after, before, gone)
  <2> HIDE DEF order
  <2> QED BY <1>1, <1>2 DEF ChangedAt, BookFits, IsBook, IsMap
<1> HIDE DEF after
<1>5. /\ DOMAIN books' = DOMAIN books /\ books'[market_id] = new
      /\ \A k \in DOMAIN books : k # market_id => books'[k] = books[k]
  BY <1>1 DEF EngineInv, TypeOK, EngineTypes
<1>6. OnBook(m, gone) => m = market_id
  BY DEF QueueInv, IdsFresh, BookIdsFresh, OnBook
<1>7. CASE m # market_id
  <2> HIDE DEF market_id
  <2> QED BY <1>5, <1>6, <1>7 DEF OnBook, OrderOn
<1>8. CASE m = market_id
  <2>1. /\ books'[m].orders = after /\ books[m].orders = before
        /\ m \in DOMAIN books /\ m \in DOMAIN books'
    BY <1>1, <1>3, <1>5, <1>8
  <2>2. CASE id = gone
    <3>1. OrderOn(m, id)' = order /\ OrderOn(m, id) = before[gone]
      BY <1>4, <2>1, <2>2 DEF OrderOn
    <3> HIDE DEF before, market_id, book
    <3>2. OnBook(m, id)' <=> OnBook(m, id)
      BY <1>4, <2>1 DEF OnBook
    <3> QED BY <1>1, <2>2, <3>1, <3>2
  <2>3. CASE id # gone
    <3> HIDE DEF before, market_id, book
    <3> QED BY <1>4, <2>1, <2>3 DEF OnBook, OrderOn, ChangedAt
  <2> QED BY <2>2, <2>3
<1> QED BY <1>7, <1>8

(* Pausing and resuming, and every other step, leave the orders alone.     *)
LEMMA SetStatusOrders ==
  ASSUME NEW market_id, NEW from, NEW to, NEW type, SetStatus(market_id, from, to, type),
         NEW m, NEW id
  PROVE  /\ OnBook(m, id)' <=> OnBook(m, id)
         /\ OnBook(m, id) => OrderOn(m, id)' = OrderOn(m, id)
<1>1. books' = IF market_id \in DOMAIN books THEN books ELSE put(books, market_id, new_book)
  BY DEF SetStatus, add_market
<1>2. CASE market_id \in DOMAIN books
  BY <1>1, <1>2 DEF OnBook, OrderOn
<1>3. CASE market_id \notin DOMAIN books
  <2>1. /\ books'[market_id].orders = [k \in {} |-> NoOrder]
        /\ DOMAIN books' = DOMAIN books \cup {market_id}
        /\ \A k \in DOMAIN books : books'[k] = books[k]
    BY <1>1, <1>3 DEF put, new_book
  <2>2. CASE m = market_id
    BY <1>3, <2>1, <2>2 DEF OnBook
  <2>3. CASE m # market_id
    BY <2>1, <2>3 DEF OnBook, OrderOn
  <2> QED BY <2>2, <2>3
<1> QED BY <1>2, <1>3

(* Every order on the books was there before, with the same identity, or   *)
(* is the taker.                                                           *)
LEMMA StepOrders ==
  ASSUME EngineInv, QueueInv, [Next]_vars, NEW m, NEW id, OnBook(m, id)'
  PROVE  \/ OnBook(m, id) /\ SameOrder(OrderOn(m, id)', OrderOn(m, id))
         \/ InProcessOrder /\ OrderOn(m, id)' = taker
<1>1. CASE UNCHANGED books
  BY <1>1 DEF OnBook, OrderOn, SameOrder
<1>2. CASE MatchMaker
  <2>1. OnBook(m, id)
    BY <1>2, MatchMakerOrders
  <2>2. OrderOn(m, id) \in Orders
    BY <2>1 DEF OnBook, OrderOn, EngineInv, BooksFit, BookFits, IsBook, IsMap
  <2> DEFINE order == OrderOn(m, id)
             filled == after_fill(order, fill_qty(order), taker.created_sequence)
  <2>3. OrderOn(m, id)' = order \/ OrderOn(m, id)' = filled
    BY <1>2, <2>1, MatchMakerOrders
  <2>4. SameOrder(filled, order)
    <3> HIDE DEF order
    <3> QED BY <2>2 DEF after_fill, SameOrder, Orders, order
  <2>5. SameOrder(order, order)
    BY DEF SameOrder
  <2> HIDE DEF filled
  <2>6. SameOrder(OrderOn(m, id)', order)
    BY <2>3, <2>4, <2>5
  <2> QED BY <2>1, <2>6
<1>3. CASE FinishOrder
  <2>1. InProcessOrder
    BY <1>3 DEF FinishOrder, InProcessOrder
  <2>2. \/ OnBook(m, id) /\ OrderOn(m, id)' = OrderOn(m, id)
        \/ OrderOn(m, id)' = taker
    BY <1>3, FinishOrderOrders
  <2> QED BY <2>1, <2>2 DEF SameOrder
<1>4. ASSUME NEW gone, NEW trader_id, ProcessCancel(gone, trader_id)
      PROVE  OnBook(m, id) /\ SameOrder(OrderOn(m, id)', OrderOn(m, id))
  <2>1. /\ OnBook(m, id)
        /\ \/ OrderOn(m, id)' = OrderOn(m, id)
           \/ OrderOn(m, id)' = [OrderOn(m, id) EXCEPT !.status = "cancelled"]
    BY <1>4, ProcessCancelOrders
  <2>2. OrderOn(m, id) \in Orders
    BY <2>1 DEF OnBook, OrderOn, EngineInv, BooksFit, BookFits, IsBook, IsMap
  <2> QED BY <2>1, <2>2 DEF SameOrder, Orders
<1>5. ASSUME NEW market_id \in Markets, PauseMarket(market_id) \/ ResumeMarket(market_id)
      PROVE  OnBook(m, id) /\ SameOrder(OrderOn(m, id)', OrderOn(m, id))
  BY <1>5, SetStatusOrders DEF PauseMarket, ResumeMarket, SameOrder
<1>6. CASE Call
  <2>1. ASSUME NEW trader_id, NEW client_order_id, CancelByClientId(trader_id, client_order_id)
        PROVE  OnBook(m, id) /\ SameOrder(OrderOn(m, id)', OrderOn(m, id))
    BY <1>4, <2>1 DEF CancelByClientId
  <2>2. ASSUME NEW signed, NEW now_ms, ProcessOrder(signed, now_ms)
        PROVE  UNCHANGED books
    BY <2>2 DEF ProcessOrder
  <2>3. ASSUME NEW market_id, CancelAllOrders(market_id)
        PROVE  UNCHANGED books
    BY <2>3 DEF CancelAllOrders, engine_vars
  <2> QED BY <1>1, <1>4, <1>5, <1>6, <2>1, <2>2, <2>3 DEF Call
<1>7. CASE NextLevel \/ EndMatch \/ RecordFill \/ CancelNext
  BY <1>1, <1>7 DEF NextLevel, EndMatch, RecordFill, CancelNext, engine_vars
<1>8. CASE UNCHANGED vars
  BY <1>1, <1>8 DEF vars, engine_vars
<1> QED BY <1>2, <1>3, <1>6, <1>7, <1>8 DEF Next, Continue

-----------------------------------------------------------------------------
(* The invariant of the log, step by step                                  *)

(* The orders on the books carry the positions of their acceptances.       *)
LEMMA BooksStayRecorded ==
  ASSUME EngineInv, QueueInv, LogInv, [Next]_vars
  PROVE  BooksRecorded'
<1>1. LogGrows
  BY StepLogGrows
<1> SUFFICES ASSUME NEW m, NEW id, OnBook(m, id)'
             PROVE  AcceptedAs(OrderOn(m, id))'
  BY DEF BooksRecorded
<1>2. PICK new : new = OrderOn(m, id)'
  OBVIOUS
<1>3. CASE OnBook(m, id) /\ SameOrder(new, OrderOn(m, id))
  <2>1. PICK old : old = OrderOn(m, id)
    OBVIOUS
  <2>2. AcceptedAs(old) /\ SameOrder(new, old)
    BY <1>3, <2>1 DEF LogInv, BooksRecorded
  <2>3. AcceptedAs(new)'
    BY <1>1, <2>2, AcceptedAsKept
  <2> QED BY <1>2, <2>3
<1>4. CASE InProcessOrder /\ new = taker
  <2>1. AcceptedAs(new) /\ SameOrder(new, new)
    BY <1>4 DEF LogInv, CallRecorded, SameOrder
  <2>2. AcceptedAs(new)'
    BY <1>1, <2>1, AcceptedAsKept
  <2> QED BY <1>2, <2>2
<1> QED BY <1>2, <1>3, <1>4, StepOrders

(* A step of a call that leaves the log alone, and may make a fill.        *)
LEMMA CallStaysRecorded ==
  ASSUME EngineInv, CallRecorded, UNCHANGED log, LogGrows,
         InProcessOrder' <=> InProcessOrder, SameOrder(taker', taker),
         \/ fills' = fills
         \/ \E new \in Fills : fills' = Append(fills, new) /\ PendingSound(new) /\ InProcessOrder
  PROVE  CallRecorded'
<1>1. PICK before : before = taker
  OBVIOUS
<1>2. PICK after : after = taker'
  OBVIOUS
<1>3. SameOrder(after, before)
  BY <1>1, <1>2
<1>4. /\ after.order_id = before.order_id /\ after.order_hash = before.order_hash
      /\ after.created_sequence = before.created_sequence
  BY <1>3 DEF SameOrder
<1>5. ASSUME NEW fill, PendingSound(fill)
      PROVE  PendingSound(fill)'
  <2>1. MakerBefore(fill, before.created_sequence)'
    BY <1>1, <1>5, MakerBeforeKept DEF PendingSound
  <2> QED BY <1>1, <1>2, <1>4, <1>5, <2>1 DEF PendingSound
<1>6. ASSUME InProcessOrder
      PROVE  AcceptedAs(taker)'
  <2>1. AcceptedAs(before)
    BY <1>1, <1>6 DEF CallRecorded
  <2>2. AcceptedAs(after)'
    BY <1>3, <2>1, AcceptedAsKept
  <2> QED BY <1>2, <2>2
<1>7. ASSUME InProcessOrder, NEW k \in after.created_sequence + 1 .. Len(log)
      PROVE  FillsTaker(k, after.order_id)'
  <2>1. FillsTaker(k, after.order_id)
    BY <1>1, <1>4, <1>7 DEF CallRecorded
  <2> QED BY <2>1, FillsTakerKept
<1>8. ASSUME InProcessOrder, NEW i \in DOMAIN fills'
      PROVE  PendingSound(fills[i])'
  <2>1. PICK fill : fill = fills'[i]
    OBVIOUS
  <2>2. PendingSound(fill)
    <3>1. CASE fills' = fills
      BY <1>8, <2>1, <3>1 DEF CallRecorded
    <3>2. ASSUME NEW new \in Fills, fills' = Append(fills, new), PendingSound(new)
          PROVE  PendingSound(fill)
      <4>1. /\ fills \in Seq(Fills) /\ Len(fills) \in Nat /\ DOMAIN fills = 1..Len(fills)
        BY LenProperties DEF EngineInv, TypeOK, CallTypes
      <4> DEFINE more == Append(fills, new)
      <4>2. /\ DOMAIN more = 1..Len(fills) + 1 /\ more[Len(fills) + 1] = new
            /\ \A j \in 1..Len(fills) : more[j] = fills[j]
            /\ fills' = more
        <5>1. /\ more \in Seq(Fills) /\ Len(more) = Len(fills) + 1 /\ more[Len(fills) + 1] = new
              /\ \A j \in 1..Len(fills) : more[j] = fills[j]
          BY <4>1, AppendProperties
        <5>2. fills' = more
          BY <3>2
        <5> HIDE DEF more
        <5> QED BY <5>1, <5>2, LenProperties
      <4> HIDE DEF more
      <4>3. i \in 1..Len(fills) \/ i = Len(fills) + 1
        BY <1>8, <4>1, <4>2
      <4>4. CASE i \in 1..Len(fills)
        BY <1>8, <2>1, <4>1, <4>2, <4>4 DEF CallRecorded
      <4> QED BY <2>1, <3>2, <4>2, <4>3, <4>4
    <3> QED BY <3>1, <3>2
  <2>3. PendingSound(fill)'
    BY <1>5, <2>2
  <2> QED BY <2>1, <2>3
<1>9. ~InProcessOrder => fills' = << >>
  BY DEF CallRecorded
<1> QED BY <1>2, <1>6, <1>7, <1>8, <1>9 DEF CallRecorded

(* A turn of the loop makes a fill whose maker was accepted before the     *)
(* taker, or none.                                                         *)
LEMMA MatchMakerRecorded ==
  ASSUME EngineInv, QueueInv, LogInv, MatchMaker
  PROVE  /\ SameOrder(taker', taker) /\ InProcessOrder /\ InProcessOrder' /\ UNCHANGED log
         /\ \/ fills' = fills
            \/ \E new \in Fills : fills' = Append(fills, new) /\ PendingSound(new)
<1> DEFINE market_id == taker.signed.market_id
           id == Head(maker_ids)
           maker == books[market_id].orders[id]
<1>1. /\ InProcessOrder /\ market_id \in DOMAIN books
      /\ BookFits(books[market_id], market_id) /\ id \in DOMAIN books[market_id].orders
      /\ maker \in Orders /\ maker.order_id = id /\ maker.signed.market_id = market_id
      /\ maker.filled_size_lots <= maker.signed.size_lots /\ remaining_size_lots(maker) > 0
      /\ Wants(taker)
      /\ StpCancelTaker(maker) \/ FillMaker(maker)
  BY MatchMakerMeets
<1>2. UNCHANGED <<log, stage>> /\ InProcessOrder'
  BY <1>1 DEF MatchMaker, sequencer_vars, InProcessOrder
<1>3. taker \in Orders /\ taker.filled_size_lots <= taker.signed.size_lots /\ price \in Nat
  BY <1>1 DEF EngineInv, CallFits, TypeOK, CallTypes
<1>4. CASE StpCancelTaker(maker)
  BY <1>1, <1>2, <1>3, <1>4 DEF StpCancelTaker, SameOrder, Orders
<1>5. CASE FillMaker(maker)
  <2> DEFINE qty == fill_qty(maker)
             new == NewFill(maker, qty)
             taken == after_fill(taker, qty, taker.created_sequence)
  <2>1. fills' = Append(fills, new) /\ taker' = taken
    BY <1>5 DEF FillMaker
  <2>2. SameOrder(taken, taker)
    <3> HIDE DEF qty
    <3> QED BY <1>3 DEF after_fill, SameOrder, Orders
  <2>3. qty \in Nat
    <3>1. remaining_size_lots(taker) > 0
      BY <1>1 DEF Wants
    <3> HIDE DEF maker, id
    <3> QED BY <1>1, <1>3, <3>1, FillMakerParts
  <2>4. new \in Fills
    <3>1. maker.signed.market_id \in Markets
      BY <1>1 DEF EngineInv, TypeOK, EngineTypes
    <3> HIDE DEF maker, qty
    <3> QED BY <1>1, <1>3, <2>3, <3>1, NewFillType
  <2>5. PendingSound(new)
    <3>1. AcceptedAs(maker)
      <4>1. OnBook(market_id, id) /\ OrderOn(market_id, id) = maker
        BY <1>1 DEF OnBook, OrderOn
      <4> QED BY <4>1 DEF LogInv, BooksRecorded
    <3>2. maker.created_sequence < taker.created_sequence
      BY <1>1 DEF QueueInv, IdsFresh, BookIdsFresh
    <3> HIDE DEF maker, qty
    <3>3. /\ new.sequence_id = taker.created_sequence
          /\ new.taker_order_id = taker.order_id /\ new.taker_order_hash = taker.order_hash
          /\ new.maker_order_id = maker.order_id /\ new.maker_order_hash = maker.order_hash
      BY DEF NewFill
    <3>4. MakerBefore(new, taker.created_sequence)
      <4>1. /\ Recorded(maker.created_sequence, new.maker_order_id, new.maker_order_hash)
            /\ maker.created_sequence \in Accepted
        BY <3>1, <3>3 DEF AcceptedAs, Recorded
      <4> HIDE DEF new
      <4> QED BY <3>2, <4>1 DEF MakerBefore
    <3> HIDE DEF new
    <3> QED BY <3>3, <3>4 DEF PendingSound
  <2> HIDE DEF new, taken
  <2> QED BY <1>1, <1>2, <2>1, <2>2, <2>4, <2>5
<1> QED BY <1>1, <1>4, <1>5

(* Sequencing a fill: it follows its acceptance and the taker's fills      *)
(* before it, and the taker's fills go on.                                 *)
LEMMA RecordFillRecorded ==
  ASSUME EngineInv, QueueInv, LogInv, RecordFill, NEW last, last = Len(log) + 1
  PROVE  CallRecorded' /\ FillFollows(last)' /\ last \in FillPositions'
<1>1. /\ stage = "recording" /\ fills # << >> /\ fills' = Tail(fills)
      /\ append_event([type |-> "fill", fill |-> Head(fills)])
      /\ UNCHANGED <<taker, stage>> /\ InProcessOrder /\ InProcessOrder'
  BY DEF RecordFill, InProcessOrder
<1>2. PICK fill : fill = Head(fills)
  OBVIOUS
<1>3. PICK order : order = taker
  OBVIOUS
<1>4. /\ fills \in Seq(Fills) /\ 1 \in DOMAIN fills /\ fill = fills[1] /\ fill \in Fills
      /\ Len(fills) \in Nat /\ DOMAIN fills = 1..Len(fills)
      /\ DOMAIN fills' = 1..Len(fills) - 1
      /\ \A i \in 1..Len(fills) - 1 : fills'[i] = fills[i + 1]
  <2>1. fills \in Seq(Fills)
    BY DEF EngineInv, TypeOK, CallTypes
  <2> QED BY <1>1, <1>2, <2>1, HeadTailProperties, EmptySeq, LenProperties, ElementOfSeq
<1>5. /\ LogGrows /\ log'[last].event.type = "fill" /\ log'[last].event.fill = fill
      /\ Len(log') = last /\ last \in DOMAIN log'
  <2>1. SequencerTypes
    BY DEF EngineInv, TypeOK
  <2> DEFINE event == [type |-> "fill", fill |-> fill]
  <2>2. event \in Events /\ append_event(event) /\ event.type = "fill" /\ event.fill = fill
    BY <1>1, <1>2, <1>4 DEF Events
  <2> HIDE DEF event
  <2>3. /\ Len(log') = Len(log) + 1
        /\ log'[Len(log) + 1] = [seq_id |-> next_seq_id, event |-> event]
        /\ DOMAIN log = 1..Len(log) /\ DOMAIN log' = 1..Len(log) + 1 /\ Len(log) \in Nat
        /\ \A i \in DOMAIN log : log'[i] = log[i]
    BY <2>1, <2>2, AppendEventType
  <2> QED BY <2>2, <2>3 DEF LogGrows
<1>6. /\ AcceptedAs(order) /\ PendingSound(fill)
      /\ \A k \in order.created_sequence + 1 .. Len(log) : FillsTaker(k, order.order_id)
      /\ \A i \in DOMAIN fills : PendingSound(fills[i])
  BY <1>1, <1>3, <1>4 DEF LogInv, CallRecorded
<1>7. /\ fill.sequence_id = order.created_sequence
      /\ fill.taker_order_id = order.order_id /\ fill.taker_order_hash = order.order_hash
  BY <1>3, <1>6 DEF PendingSound
<1>8. AcceptedAs(order)' /\ order.created_sequence \in 1..Len(log)
  BY <1>5, <1>6, AcceptedAsKept DEF SameOrder
<1>9. FillsTaker(last, order.order_id)' /\ last \in FillPositions'
  BY <1>5, <1>7 DEF FillsTaker, FillPositions
<1>10. ASSUME NEW k \in order.created_sequence + 1 .. last
       PROVE  FillsTaker(k, order.order_id)'
  <2>1. k \in order.created_sequence + 1 .. Len(log) \/ k = last
    BY <1>5, <1>8 DEF LogGrows
  <2> QED BY <1>5, <1>6, <1>9, <2>1, FillsTakerKept
<1>11. ASSUME NEW one, PendingSound(one)
       PROVE  PendingSound(one)'
  <2>1. MakerBefore(one, order.created_sequence)'
    BY <1>3, <1>5, <1>11, MakerBeforeKept DEF PendingSound
  <2> QED BY <1>1, <1>3, <1>11, <2>1 DEF PendingSound
<1>12. ASSUME NEW i \in DOMAIN fills'
       PROVE  PendingSound(fills[i])'
  <2>1. PICK one : one = fills'[i]
    OBVIOUS
  <2>2. i + 1 \in DOMAIN fills /\ one = fills[i + 1]
    BY <1>4, <2>1
  <2>3. PendingSound(one)'
    BY <1>6, <1>11, <2>2
  <2> QED BY <2>1, <2>3
<1>13. order = taker'
  BY <1>1, <1>3
<1>14. CallRecorded'
  BY <1>1, <1>5, <1>8, <1>10, <1>12, <1>13 DEF CallRecorded
<1>15. FillFollows(last)'
  <2>1. Recorded(order.created_sequence, order.order_id, order.order_hash)'
    BY <1>8 DEF AcceptedAs
  <2>2. MakerBefore(fill, order.created_sequence)'
    BY <1>3, <1>5, <1>6, MakerBeforeKept DEF PendingSound
  <2>3. order.created_sequence < last
    BY <1>5, <1>8 DEF LogGrows
  <2> QED BY <1>5, <1>7, <1>10, <2>1, <2>2, <2>3 DEF FillFollows
<1> QED BY <1>9, <1>14, <1>15

(* A cancellation of an order of the log follows its acceptance.           *)
LEMMA CancellationFollows ==
  ASSUME EngineInv, NEW at, NEW id \in OrderIds, NEW hash \in Hashes, NEW reason \in CancelReasons,
         Recorded(at, id, hash), append_event(OrderCancelled(id, hash, reason)),
         NEW last, last = Len(log) + 1
  PROVE  CancelFollows(last)' /\ last \notin FillPositions'
<1> DEFINE event == OrderCancelled(id, hash, reason)
<1>1. /\ event \in Events /\ event.type = "order_cancelled"
      /\ event.order_id = id /\ event.order_hash = hash
  BY DEF OrderCancelled, Events
<1>2. SequencerTypes
  BY DEF EngineInv, TypeOK
<1> HIDE DEF event
<1>3. /\ Len(log') = Len(log) + 1
      /\ log'[Len(log) + 1] = [seq_id |-> next_seq_id, event |-> event]
      /\ DOMAIN log = 1..Len(log) /\ DOMAIN log' = 1..Len(log) + 1 /\ Len(log) \in Nat
      /\ \A i \in DOMAIN log : log'[i] = log[i]
  BY <1>1, <1>2, AppendEventType DEF event
<1>4. LogGrows /\ log'[last].event = event
  BY <1>3 DEF LogGrows
<1>5. Recorded(at, id, hash)' /\ at \in Accepted' /\ at \in 1..Len(log)
  BY <1>4, RecordedKept
<1>6. at < last
  BY <1>3, <1>5
<1> QED BY <1>1, <1>4, <1>5, <1>6 DEF CancelFollows, FillPositions

(* An event that is neither a fill nor a cancellation asks for nothing.    *)
LEMMA OtherEventFollows ==
  ASSUME EngineInv, NEW event \in Events, append_event(event),
         event.type \notin {"fill", "order_cancelled"}, NEW last, last = Len(log) + 1
  PROVE  last \notin FillPositions' /\ last \notin CancelPositions'
<1>1. SequencerTypes
  BY DEF EngineInv, TypeOK
<1>2. log'[last] = [seq_id |-> next_seq_id, event |-> event]
  BY <1>1, AppendEventType
<1> QED BY <1>2 DEF FillPositions, CancelPositions

(* A step between calls, or that ends one, leaves no fill behind.          *)
LEMMA NoCallRecorded ==
  ASSUME ~InProcessOrder', fills' = << >>
  PROVE  CallRecorded'
BY DEF CallRecorded

(* Acceptance: the taker is the last entry of the log, under an id that no *)
(* order had, and has no fill yet.                                         *)
LEMMA ProcessOrderRecorded ==
  ASSUME EngineInv, LogGapless, LogInv, NEW signed \in SignedOrders, NEW now_ms,
         ProcessOrder(signed, now_ms)
  PROVE  /\ CallRecorded' /\ AcceptancesSound'
         /\ (\A i \in FillPositions : FillFollows(i))'
         /\ (\A i \in CancelPositions : CancelFollows(i))'
<1>1. PICK order : order = NewOrder(signed, uuids + 1)
  OBVIOUS
<1>2. PICK last : last = Len(log) + 1
  OBVIOUS
<1>3. /\ order \in Orders /\ order.signed = signed /\ order.order_id = uuids + 1
      /\ order.created_sequence = next_seq_id /\ order.order_hash = canonical_hash(signed)
  <2>1. uuids + 1 \in OrderIds /\ next_seq_id \in Nat
    BY DEF EngineInv, TypeOK, SequencerTypes, CallTypes, OrderIds
  <2> QED BY <1>1, <2>1, NewOrderType
<1>4. /\ stage = "idle" /\ ~InProcessOrder /\ uuids' = uuids + 1 /\ fills' = fills
      /\ append_event([type |-> "order_accepted", order |-> order])
      /\ \/ stage' = "matching" /\ taker' = order
         \/ stage' = "idle" /\ taker' = NoOrder
  BY <1>1 DEF ProcessOrder, InProcessOrder
<1> DEFINE event == [type |-> "order_accepted", order |-> order]
<1>5. event \in Events /\ append_event(event) /\ event.type = "order_accepted"
  BY <1>3, <1>4 DEF Events
<1>6. /\ Len(log) \in Nat /\ Accepted' = Accepted \cup {last} /\ Accepted \subseteq 1..Len(log)
      /\ log'[last].event.order = order /\ \A i \in Accepted : log'[i] = log[i]
  BY <1>2, <1>3, <1>5, AcceptedAppended
<1> HIDE DEF event
<1>7. LogGrows /\ Len(log') = last
  <2>1. SequencerTypes
    BY DEF EngineInv, TypeOK
  <2> QED BY <1>2, <1>5, <2>1, AppendEventType DEF LogGrows
<1>8. last \notin FillPositions' /\ last \notin CancelPositions'
  BY <1>2, <1>5, OtherEventFollows
<1>9. (\A i \in FillPositions : FillFollows(i))' /\ (\A i \in CancelPositions : CancelFollows(i))'
  BY <1>2, <1>7, <1>8, EntriesFollow DEF LogInv
<1>10. fills' = << >>
  BY <1>4 DEF LogInv, CallRecorded
<1>11. order.created_sequence = last
  BY <1>2, <1>3 DEF LogGapless
<1>12. CallRecorded'
  <2>1. CASE stage' = "idle"
    BY <1>10, <2>1, NoCallRecorded DEF InProcessOrder
  <2>2. CASE stage' = "matching" /\ taker' = order
    <3>1. AcceptedAs(order)'
      BY <1>6, <1>11 DEF AcceptedAs, Recorded, OrderAt
    <3>2. order.created_sequence + 1 .. Len(log') = {}
      BY <1>2, <1>6, <1>7, <1>11
    <3>3. InProcessOrder' /\ DOMAIN fills' = {}
      BY <1>10, <2>2 DEF InProcessOrder
    <3> QED BY <2>2, <3>1, <3>2, <3>3 DEF CallRecorded
  <2> QED BY <1>4, <2>1, <2>2
<1>13. AcceptancesSound'
  <2>1. uuids \in Nat /\ \A i \in Accepted : OrderAt(i).order_id \in Nat
    <3>1. uuids \in Nat
      BY DEF EngineInv, TypeOK, CallTypes
    <3>2. ASSUME NEW i \in Accepted PROVE OrderAt(i).order_id \in Nat
      <4>1. log[i] \in SequencedEvents /\ log[i].event.type = "order_accepted"
        BY DEF Accepted, EngineInv, TypeOK, SequencerTypes
      <4>2. log[i].event \in Events
        BY <4>1 DEF SequencedEvents
      <4> QED BY <4>1, <4>2 DEF Events, Orders, OrderAt, OrderIds
    <3> QED BY <3>1, <3>2
  <2>2. /\ \A i, j \in Accepted : i < j => OrderAt(i).order_id < OrderAt(j).order_id
        /\ \A i \in Accepted : /\ OrderAt(i).order_id <= uuids
                               /\ OrderAt(i).order_hash = canonical_hash(OrderAt(i).signed)
    BY DEF LogInv, AcceptancesSound
  <2>3. \A i \in Accepted : log'[i].event.order = OrderAt(i)
    BY <1>6 DEF OrderAt
  <2>4. ASSUME NEW i \in Accepted'
        PROVE  /\ log'[i].event.order.order_id <= uuids'
               /\ log'[i].event.order.order_hash = canonical_hash(log'[i].event.order.signed)
    <3>1. CASE i \in Accepted
      BY <1>4, <2>1, <2>2, <2>3, <3>1
    <3>2. CASE i = last
      BY <1>3, <1>4, <1>6, <2>1, <3>2
    <3> QED BY <1>6, <3>1, <3>2
  <2>5. ASSUME NEW i \in Accepted', NEW j \in Accepted', i < j
        PROVE  log'[i].event.order.order_id < log'[j].event.order.order_id
    <3>1. i \in Accepted
      BY <1>2, <1>6, <2>5
    <3>2. CASE j \in Accepted
      BY <2>2, <2>3, <2>5, <3>1, <3>2
    <3>3. CASE j = last
      BY <1>3, <1>6, <2>1, <2>2, <2>3, <3>1, <3>3
    <3> QED BY <1>6, <3>2, <3>3
  <2> QED BY <2>4, <2>5 DEF AcceptancesSound, OrderAt
<1> QED BY <1>9, <1>12, <1>13

(* Any other step keeps the acceptances and draws no smaller id.           *)
LEMMA AcceptancesStaySound ==
  ASSUME EngineInv, LogInv, NoAcceptance, UNCHANGED uuids
  PROVE  AcceptancesSound'
BY AcceptedKept DEF LogInv, AcceptancesSound, OrderAt

(* A step that logs nothing and keeps the call and its fills.              *)
LEMMA UnloggedStep ==
  ASSUME EngineInv, LogInv, LogGrows, UNCHANGED log
  PROVE  /\ (\A i \in FillPositions : FillFollows(i))'
         /\ (\A i \in CancelPositions : CancelFollows(i))'
<1>1. PICK last : last = Len(log) + 1
  OBVIOUS
<1>2. last \notin FillPositions' /\ last \notin CancelPositions'
  BY <1>1 DEF LogGrows, FillPositions, CancelPositions
<1> QED BY <1>1, <1>2, EntriesFollow DEF LogInv

\* What LogInv says of the log alone.
EntriesSound ==
  /\ \A i \in FillPositions : FillFollows(i)
  /\ \A i \in CancelPositions : CancelFollows(i)

(* A cancellation that a step logs keeps the entries sound.                *)
LEMMA CancellationStep ==
  ASSUME EngineInv, LogInv, LogGrows,
         NEW at, NEW id \in OrderIds, NEW hash \in Hashes, NEW reason \in CancelReasons,
         Recorded(at, id, hash), append_event(OrderCancelled(id, hash, reason))
  PROVE  EntriesSound'
<1>1. PICK last : last = Len(log) + 1
  OBVIOUS
<1>2. CancelFollows(last)' /\ last \notin FillPositions'
  BY <1>1, CancellationFollows
<1>3. (\A i \in FillPositions : FillFollows(i))' /\ (\A i \in CancelPositions : CancelFollows(i))'
  BY <1>1, <1>2, EntriesFollow DEF LogInv
<1> QED BY <1>3 DEF EntriesSound

(* The end of process_order: self-trade prevention's cancellation follows  *)
(* the taker's acceptance.                                                 *)
LEMMA FinishOrderRecorded ==
  ASSUME EngineInv, LogInv, LogGrows, FinishOrder
  PROVE  EntriesSound' /\ CallRecorded'
<1>1. /\ InProcessOrder /\ ~InProcessOrder' /\ fills' = << >>
      /\ \/ UNCHANGED log
         \/ append_event(OrderCancelled(taker.order_id, taker.order_hash, "self_trade_prevention"))
  BY DEF FinishOrder, InProcessOrder
<1>2. PICK order : order = taker
  OBVIOUS
<1>3. order.order_id \in OrderIds /\ order.order_hash \in Hashes
  BY <1>1, <1>2 DEF EngineInv, CallFits, Orders
<1>4. Recorded(order.created_sequence, order.order_id, order.order_hash)
  BY <1>1, <1>2 DEF LogInv, CallRecorded, AcceptedAs
<1>5. ASSUME UNCHANGED log PROVE EntriesSound'
  BY <1>5, UnloggedStep DEF EntriesSound
<1>6. ASSUME append_event(OrderCancelled(order.order_id, order.order_hash, "self_trade_prevention"))
      PROVE  EntriesSound'
  BY <1>3, <1>4, <1>6, CancellationStep DEF CancelReasons
<1> QED BY <1>1, <1>2, <1>5, <1>6, NoCallRecorded

(* process_cancel: the order on its book was accepted.                     *)
LEMMA ProcessCancelRecorded ==
  ASSUME EngineInv, LogInv, LogGrows, NEW id, NEW trader_id, ProcessCancel(id, trader_id)
  PROVE  EntriesSound' /\ CallRecorded'
<1>1. /\ stage = "idle" /\ ~InProcessOrder /\ ~InProcessOrder' /\ fills' = fills
      /\ find_order(id) # NoOrder
      /\ append_event(OrderCancelled(id, find_order(id).order_hash, "trader_request"))
  BY DEF ProcessCancel, InProcessOrder, matching_vars
<1>2. PICK order : order = find_order(id)
  OBVIOUS
<1>3. PICK m : OnBook(m, id) /\ order = OrderOn(m, id)
  BY <1>1, <1>2 DEF find_order, OnBook, OrderOn
<1>4. order \in Orders /\ order.order_id = id
  BY <1>3 DEF OnBook, OrderOn, EngineInv, BooksFit, BookFits, IsBook, IsMap, OrdersFit
<1>5. Recorded(order.created_sequence, id, order.order_hash)
  BY <1>3, <1>4 DEF LogInv, BooksRecorded, AcceptedAs
<1>6. EntriesSound'
  <2>1. id \in OrderIds /\ order.order_hash \in Hashes
    BY <1>4 DEF Orders
  <2> QED BY <1>1, <1>2, <1>5, <2>1, CancellationStep DEF CancelReasons
<1>7. fills' = << >>
  BY <1>1 DEF LogInv, CallRecorded
<1> QED BY <1>1, <1>6, <1>7, NoCallRecorded

(* cancel_all_orders: the orders it collected are acceptances of the log.  *)
LEMMA CancelNextRecorded ==
  ASSUME EngineInv, LogInv, LogGrows, CancelNext
  PROVE  EntriesSound' /\ CallRecorded'
<1>1. /\ stage = "cancelling" /\ ~InProcessOrder /\ ~InProcessOrder' /\ fills' = fills
  BY DEF CancelNext, InProcessOrder, matching_vars
<1>2. PICK i \in to_cancel :
        append_event(OrderCancelled(log[i].event.order.order_id,
                                    log[i].event.order.order_hash, "admin_force"))
  BY DEF CancelNext
<1>3. PICK order : order = log[i].event.order
  OBVIOUS
<1>4. i \in Accepted /\ log[i].event.type = "order_accepted"
  BY DEF EngineInv, CallFits, Accepted
<1>5. order \in Orders
  <2>1. log[i] \in SequencedEvents
    BY <1>4 DEF Accepted, EngineInv, TypeOK, SequencerTypes
  <2>2. log[i].event \in Events
    BY <2>1 DEF SequencedEvents
  <2> QED BY <1>3, <1>4, <2>2 DEF Events
<1>6. Recorded(i, order.order_id, order.order_hash)
  BY <1>3, <1>4 DEF Recorded, OrderAt
<1>7. order.order_id \in OrderIds /\ order.order_hash \in Hashes
  BY <1>5 DEF Orders
<1>8. EntriesSound'
  BY <1>2, <1>3, <1>6, <1>7, CancellationStep DEF CancelReasons
<1>9. fills' = << >>
  BY <1>1 DEF LogInv, CallRecorded
<1> QED BY <1>1, <1>8, <1>9, NoCallRecorded

(* Pausing and resuming a market.                                          *)
LEMMA SetStatusRecorded ==
  ASSUME EngineInv, LogInv, LogGrows, NEW market_id \in Markets, NEW from, NEW to,
         NEW type \in {"market_paused", "market_resumed"},
         SetStatus(market_id, from, to, type)
  PROVE  EntriesSound' /\ CallRecorded'
<1>1. /\ ~InProcessOrder /\ ~InProcessOrder' /\ fills' = fills
      /\ append_event([type |-> type, market_id |-> market_id])
  BY DEF SetStatus, InProcessOrder, matching_vars
<1>2. fills' = << >>
  BY <1>1 DEF LogInv, CallRecorded
<1>3. PICK last : last = Len(log) + 1
  OBVIOUS
<1>4. last \notin FillPositions' /\ last \notin CancelPositions'
  <2> DEFINE event == [type |-> type, market_id |-> market_id]
  <2>1. event \in Events /\ event.type \notin {"fill", "order_cancelled"} /\ append_event(event)
    BY <1>1 DEF Events
  <2> HIDE DEF event
  <2> QED BY <1>3, <2>1, OtherEventFollows
<1>5. (\A i \in FillPositions : FillFollows(i))' /\ (\A i \in CancelPositions : CancelFollows(i))'
  BY <1>3, <1>4, EntriesFollow DEF LogInv
<1> QED BY <1>1, <1>2, <1>5, NoCallRecorded DEF EntriesSound

(* Every step keeps the invariant of the log.                              *)
LEMMA LogStep ==
  ASSUME EngineInv, QueueInv, LogGapless, LogInv, [Next]_vars
  PROVE  LogInv'
<1>1. LogGrows /\ BooksRecorded'
  BY StepLogGrows, BooksStayRecorded
<1>2. ASSUME EntriesSound', CallRecorded', NoAcceptance, UNCHANGED uuids
      PROVE  LogInv'
  BY <1>1, <1>2, AcceptancesStaySound DEF LogInv, EntriesSound
<1>3. ASSUME NEW signed \in SignedOrders, NEW now_ms, ProcessOrder(signed, now_ms)
      PROVE  LogInv'
  BY <1>1, <1>3, ProcessOrderRecorded DEF LogInv
<1>4. ASSUME NEW id, NEW trader_id, ProcessCancel(id, trader_id)
      PROVE  LogInv'
  <2>1. NoAcceptance /\ UNCHANGED uuids
    BY <1>4, ProcessCancelInv DEF ProcessCancel
  <2> QED BY <1>1, <1>2, <1>4, <2>1, ProcessCancelRecorded
<1>5. ASSUME NEW market_id \in Markets, PauseMarket(market_id) \/ ResumeMarket(market_id)
      PROVE  LogInv'
  <2>1. ASSUME NEW from, NEW to \in MarketStatuses, NEW type \in {"market_paused", "market_resumed"},
               SetStatus(market_id, from, to, type)
        PROVE  LogInv'
    <3>1. NoAcceptance /\ UNCHANGED uuids
      BY <2>1, SetStatusInv DEF SetStatus
    <3> QED BY <1>1, <1>2, <2>1, <3>1, SetStatusRecorded
  <2> QED BY <1>5, <2>1 DEF PauseMarket, ResumeMarket, MarketStatuses
<1>6. ASSUME UNCHANGED <<log, fills, taker, uuids>>, InProcessOrder' <=> InProcessOrder, NoAcceptance
      PROVE  LogInv'
  <2>1. CallRecorded'
    BY <1>1, <1>6, CallStaysRecorded DEF LogInv, SameOrder
  <2>2. EntriesSound'
    BY <1>1, <1>6, UnloggedStep DEF EntriesSound
  <2> QED BY <1>2, <1>6, <2>1, <2>2
<1>7. CASE NextLevel
  BY <1>6, <1>7, NextLevelInv DEF NextLevel, InProcessOrder, sequencer_vars
<1>8. CASE EndMatch
  BY <1>6, <1>8, EndMatchInv DEF EndMatch, InProcessOrder, sequencer_vars
<1>9. CASE UNCHANGED vars
  BY <1>6, <1>9, StutterInv DEF vars, InProcessOrder, sequencer_vars, matching_vars
<1>10. ASSUME NEW market_id, CancelAllOrders(market_id)
       PROVE  LogInv'
  BY <1>6, <1>10, CancelAllOrdersInv DEF CancelAllOrders, InProcessOrder, sequencer_vars,
     matching_vars
<1>11. CASE MatchMaker
  <2>1. NoAcceptance /\ UNCHANGED uuids
    BY <1>11, MatchMakerInv DEF MatchMaker
  <2>2. CallRecorded' /\ UNCHANGED log
    BY <1>1, <1>11, MatchMakerRecorded, CallStaysRecorded DEF LogInv
  <2>3. EntriesSound'
    BY <1>1, <2>2, UnloggedStep DEF EntriesSound
  <2> QED BY <1>2, <2>1, <2>2, <2>3
<1>12. CASE RecordFill
  <2>1. NoAcceptance /\ UNCHANGED uuids
    BY <1>12, RecordFillInv DEF RecordFill
  <2>2. PICK last : last = Len(log) + 1
    OBVIOUS
  <2>3. CallRecorded' /\ FillFollows(last)' /\ last \in FillPositions'
    BY <1>12, <2>2, RecordFillRecorded
  <2>4. last \notin CancelPositions'
    BY <2>3 DEF FillPositions, CancelPositions
  <2>5. EntriesSound'
    <3>1. (\A i \in FillPositions : FillFollows(i))' /\ (\A i \in CancelPositions : CancelFollows(i))'
      BY <1>1, <2>2, <2>3, <2>4, EntriesFollow DEF LogInv
    <3> QED BY <3>1 DEF EntriesSound
  <2> QED BY <1>2, <2>1, <2>3, <2>5
<1>13. CASE FinishOrder
  <2>1. NoAcceptance /\ UNCHANGED uuids
    BY <1>13, FinishOrderInv DEF FinishOrder
  <2> QED BY <1>1, <1>2, <1>13, <2>1, FinishOrderRecorded
<1>14. CASE CancelNext
  <2>1. NoAcceptance /\ UNCHANGED uuids
    BY <1>14, CancelNextInv DEF CancelNext
  <2> QED BY <1>1, <1>2, <1>14, <2>1, CancelNextRecorded
<1>15. CASE Call
  BY <1>3, <1>4, <1>5, <1>10, <1>15 DEF Call, CancelByClientId
<1>16. CASE Continue
  BY <1>7, <1>8, <1>11, <1>12, <1>13, <1>14, <1>16 DEF Continue
<1> QED BY <1>9, <1>15, <1>16 DEF Next

(* In every reachable state the log is sound, and the books and the call   *)
(* in progress agree with it on who was accepted.                          *)
THEOREM SpecLogInv == Spec => []LogInv
<1>1. Init => LogInv
  BY DEF Init, LogInv, FillPositions, CancelPositions, BooksRecorded, OnBook, new_book,
     CallRecorded, InProcessOrder, AcceptancesSound, Accepted
<1>2. EngineInv /\ QueueInv /\ LogGapless /\ LogInv /\ [Next]_vars => LogInv'
  BY LogStep
<1> QED BY <1>1, <1>2, SpecEngineInv, SpecQueueInv, SpecLogGapless, PTL DEF Spec

(* Replay never meets an event about an order it does not know: fills and  *)
(* cancellations follow the acceptance of every order they name, and the   *)
(* fills of a taker follow its acceptance with nothing in between.         *)
THEOREM SpecEventsFollowAcceptance == Spec => []EventsFollowAcceptance
<1>1. LogInv => EventsFollowAcceptance
  <2> SUFFICES ASSUME LogInv PROVE EventsFollowAcceptance
    OBVIOUS
  <2>1. ASSUME NEW i \in FillPositions
        PROVE  LET fill == log[i].event.fill
                   at == fill.sequence_id
               IN /\ at \in Accepted /\ at < i
                  /\ OrderAt(at).order_id = fill.taker_order_id
                  /\ OrderAt(at).order_hash = fill.taker_order_hash
                  /\ \A k \in at + 1 .. i :
                       k \in FillPositions /\ log[k].event.fill.taker_order_id = fill.taker_order_id
                  /\ \E j \in Accepted : /\ j < at
                                         /\ OrderAt(j).order_id = fill.maker_order_id
                                         /\ OrderAt(j).order_hash = fill.maker_order_hash
    BY DEF LogInv, FillFollows, FillsTaker, MakerBefore, Recorded
  <2>2. \A i \in CancelPositions : \E j \in Accepted :
          /\ j < i
          /\ OrderAt(j).order_id = log[i].event.order_id
          /\ OrderAt(j).order_hash = log[i].event.order_hash
    BY DEF LogInv, CancelFollows, Recorded
  <2> QED BY <2>1, <2>2 DEF EventsFollowAcceptance
<1> QED BY <1>1, SpecLogInv, PTL

-----------------------------------------------------------------------------
(* Sums over the log and the pending fills *)

\* What each entry of the log, and each pending fill, moves for an order.
EntryMoves(entry, id) == IF entry.event.type = "fill" THEN Moved(entry.event.fill, id) ELSE 0

LogMoves(entries, id) == [i \in DOMAIN entries |-> EntryMoves(entries[i], id)]

PendingMoves(pending, id) == [i \in DOMAIN pending |-> Moved(pending[i], id)]

\* What an order has traded, its pending fills included.
Traded(id) == LogFilled(id) + PendingFilled(id)

(* Amounts that are all zero add up to zero.                               *)
LEMMA TotalOfZeros ==
  ASSUME NEW amounts \in Seq(Nat), \A k \in 1..Len(amounts) : amounts[k] = 0
  PROVE  Total(amounts) = 0
<1>1. PICK sums : RunningSums(amounts, sums) /\ Total(amounts) = sums[Len(amounts)]
  BY TotalByRunningSums
<1>2. PICK zeros : zeros = [k \in 0..Len(amounts) |-> 0]
  OBVIOUS
<1>3. Len(amounts) \in Nat
  BY LenProperties
<1>4. Adds(zeros, amounts, Len(amounts)) /\ zeros[Len(amounts)] = 0
  <2>1. ASSUME NEW k \in 1..Len(amounts) PROVE zeros[k] = zeros[k - 1] + amounts[k]
    <3>1. k \in 0..Len(amounts) /\ k - 1 \in 0..Len(amounts) /\ amounts[k] = 0
      BY <1>3
    <3> QED BY <1>2, <3>1
  <2>2. 0 \in 0..Len(amounts) /\ Len(amounts) \in 0..Len(amounts)
    BY <1>3
  <2> QED BY <1>2, <2>1, <2>2 DEF Adds
<1> QED BY <1>1, <1>3, <1>4, SumsAgree DEF RunningSums

(* An event or a fill moves a natural number of lots.                      *)
LEMMA MovesType ==
  ASSUME NEW id
  PROVE  /\ \A fill \in Fills : Moved(fill, id) \in Nat
         /\ \A entry \in SequencedEvents : EntryMoves(entry, id) \in Nat
<1>1. \A fill \in Fills : Moved(fill, id) \in Nat
  BY DEF Moved, Fills
<1>2. ASSUME NEW entry \in SequencedEvents, entry.event.type = "fill"
      PROVE  entry.event.fill \in Fills
  BY <1>2 DEF SequencedEvents, Events
<1> QED BY <1>1, <1>2 DEF EntryMoves

(* The amounts of a log, and of a longer one.                              *)
LEMMA LogMovesType ==
  ASSUME NEW entries \in Seq(SequencedEvents), NEW id
  PROVE  /\ LogMoves(entries, id) \in Seq(Nat)
         /\ Len(LogMoves(entries, id)) = Len(entries)
         /\ \A i \in 1..Len(entries) : LogMoves(entries, id)[i] = EntryMoves(entries[i], id)
<1>1. DOMAIN entries = 1..Len(entries) /\ Len(entries) \in Nat
  BY LenProperties
<1>2. \A i \in 1..Len(entries) : EntryMoves(entries[i], id) \in Nat
  BY MovesType, ElementOfSeq
<1> QED BY <1>1, <1>2 DEF LogMoves

(* An event more moves its amount more.                                    *)
LEMMA LogMovesOfAppend ==
  ASSUME NEW entries \in Seq(SequencedEvents), NEW entry \in SequencedEvents, NEW id
  PROVE  LogMoves(Append(entries, entry), id) = Append(LogMoves(entries, id), EntryMoves(entry, id))
<1> DEFINE longer == Append(entries, entry)
           n == Len(entries)
<1>1. /\ longer \in Seq(SequencedEvents) /\ Len(longer) = n + 1 /\ n \in Nat
      /\ longer[n + 1] = entry /\ \A i \in 1..n : longer[i] = entries[i]
  BY AppendProperties, LenProperties
<1> HIDE DEF longer
<1> DEFINE moves == LogMoves(entries, id)
           more == LogMoves(longer, id)
<1>2. /\ moves \in Seq(Nat) /\ Len(moves) = n
      /\ \A i \in 1..n : moves[i] = EntryMoves(entries[i], id)
  BY LogMovesType
<1>3. /\ more \in Seq(Nat) /\ Len(more) = n + 1
      /\ \A i \in 1..n + 1 : more[i] = EntryMoves(longer[i], id)
  BY <1>1, LogMovesType
<1>4. EntryMoves(entry, id) \in Nat
  BY MovesType
<1> DEFINE want == Append(moves, EntryMoves(entry, id))
<1>5. /\ want \in Seq(Nat) /\ Len(want) = n + 1
      /\ want[n + 1] = EntryMoves(entry, id) /\ \A i \in 1..n : want[i] = moves[i]
  <2> HIDE DEF moves
  <2> QED BY <1>1, <1>2, <1>4, AppendProperties
<1> HIDE DEF moves, more, want
<1>6. ASSUME NEW i \in 1..n + 1 PROVE more[i] = want[i]
  <2>1. i \in 1..n \/ i = n + 1
    BY <1>1
  <2> QED BY <1>1, <1>2, <1>3, <1>5, <2>1
<1>7. more = want
  BY <1>1, <1>3, <1>5, <1>6, SeqEqual
<1> QED BY <1>7 DEF more, want, moves, longer

(* A new event moves what it says, and the pending fills say the rest.     *)
LEMMA LogFilledAfter ==
  ASSUME SequencerTypes, NEW event \in Events, append_event(event), NEW id
  PROVE  /\ LogFilled(id) \in Nat
         /\ LogFilled(id)' = LogFilled(id) + (IF event.type = "fill" THEN Moved(event.fill, id) ELSE 0)
<1>1. PICK entry : entry = [seq_id |-> next_seq_id, event |-> event]
  OBVIOUS
<1>2. entry \in SequencedEvents /\ entry.event = event /\ log' = Append(log, entry)
  BY <1>1 DEF SequencerTypes, SequencedEvents, append_event
<1>3. PICK entries : entries = log
  OBVIOUS
<1>4. entries \in Seq(SequencedEvents)
  BY <1>3 DEF SequencerTypes
<1>5. LogFilled(id) = Total(LogMoves(log, id))
  BY DEF LogFilled, LogMoves, EntryMoves
<1>6. LogFilled(id)' = Total(LogMoves(log', id))
  BY DEF LogFilled, LogMoves, EntryMoves
<1>7. LogMoves(entries, id) \in Seq(Nat) /\ EntryMoves(entry, id) \in Nat
  BY <1>2, <1>4, LogMovesType, MovesType
<1>8. LogMoves(log', id) = Append(LogMoves(entries, id), EntryMoves(entry, id))
  BY <1>2, <1>3, <1>4, LogMovesOfAppend
<1>9. PICK moves, moved : moves = LogMoves(entries, id) /\ moved = EntryMoves(entry, id)
  OBVIOUS
<1>10. Total(Append(moves, moved)) = Total(moves) + moved /\ Total(moves) \in Nat
  BY <1>7, <1>9, TotalOfAppend
<1>11. moved = IF event.type = "fill" THEN Moved(event.fill, id) ELSE 0
  BY <1>2, <1>9 DEF EntryMoves
<1> QED BY <1>3, <1>5, <1>6, <1>8, <1>9, <1>10, <1>11

(* What the log says an order has traded is a number.                      *)
LEMMA LogFilledType ==
  ASSUME SequencerTypes, NEW id
  PROVE  LogFilled(id) \in Nat
<1>1. PICK moves : moves = LogMoves(log, id)
  OBVIOUS
<1>2. moves \in Seq(Nat) /\ 0 \in Nat
  BY <1>1, LogMovesType DEF SequencerTypes
<1>3. Total(moves) \in Nat
  BY <1>2, TotalOfAppend
<1> QED BY <1>1, <1>3 DEF LogFilled, LogMoves, EntryMoves

(* The fills that wait to be recorded move numbers of lots.                *)
LEMMA PendingMovesType ==
  ASSUME NEW pending \in Seq(Fills), NEW id
  PROVE  /\ PendingMoves(pending, id) \in Seq(Nat)
         /\ Len(PendingMoves(pending, id)) = Len(pending)
         /\ \A i \in 1..Len(pending) : PendingMoves(pending, id)[i] = Moved(pending[i], id)
<1>1. DOMAIN pending = 1..Len(pending) /\ Len(pending) \in Nat
  BY LenProperties
<1>2. \A i \in 1..Len(pending) : Moved(pending[i], id) \in Nat
  BY MovesType, ElementOfSeq
<1> QED BY <1>1, <1>2 DEF PendingMoves

(* What waits to be recorded for an order is their total.                  *)
LEMMA PendingFilledType ==
  ASSUME fills \in Seq(Fills), NEW id
  PROVE  PendingFilled(id) \in Nat /\ PendingFilled(id) = Total(PendingMoves(fills, id))
<1>1. PendingFilled(id) = Total(PendingMoves(fills, id))
  BY DEF PendingFilled, PendingMoves
<1>2. PICK moves : moves = PendingMoves(fills, id)
  OBVIOUS
<1>3. moves \in Seq(Nat) /\ 0 \in Nat
  BY <1>2, PendingMovesType
<1>4. Total(moves) \in Nat
  BY <1>3, TotalOfAppend
<1> QED BY <1>1, <1>2, <1>4

(* A fill that is made is pending, and moves what it says.                 *)
LEMMA PendingFilledAfter ==
  ASSUME fills \in Seq(Fills), NEW new \in Fills, fills' = Append(fills, new), NEW id
  PROVE  PendingFilled(id)' = PendingFilled(id) + Moved(new, id)
<1>1. PICK pending : pending = fills
  OBVIOUS
<1>2. pending \in Seq(Fills) /\ PendingFilled(id) = Total(PendingMoves(pending, id))
  BY <1>1, PendingFilledType
<1> DEFINE longer == Append(pending, new)
           n == Len(pending)
<1>3. /\ longer \in Seq(Fills) /\ Len(longer) = n + 1 /\ n \in Nat
      /\ longer[n + 1] = new /\ \A i \in 1..n : longer[i] = pending[i]
  BY <1>2, AppendProperties, LenProperties
<1>4. PendingFilled(id)' = Total(PendingMoves(longer, id))
  BY <1>1 DEF PendingFilled, PendingMoves
<1> HIDE DEF longer
<1>5. PICK moves, more, moved : /\ moves = PendingMoves(pending, id)
                                /\ more = PendingMoves(longer, id) /\ moved = Moved(new, id)
  OBVIOUS
<1>6. /\ moves \in Seq(Nat) /\ Len(moves) = n
      /\ \A i \in 1..n : moves[i] = Moved(pending[i], id)
  BY <1>2, <1>5, PendingMovesType
<1>7. /\ more \in Seq(Nat) /\ Len(more) = n + 1
      /\ \A i \in 1..n + 1 : more[i] = Moved(longer[i], id)
  BY <1>3, <1>5, PendingMovesType
<1>8. moved \in Nat
  BY <1>5, MovesType
<1> DEFINE want == Append(moves, moved)
<1>9. /\ want \in Seq(Nat) /\ Len(want) = n + 1
      /\ want[n + 1] = moved /\ \A i \in 1..n : want[i] = moves[i]
  BY <1>3, <1>6, <1>8, AppendProperties
<1> HIDE DEF want
<1>10. ASSUME NEW i \in 1..n + 1 PROVE more[i] = want[i]
  <2>1. i \in 1..n \/ i = n + 1
    BY <1>3
  <2> QED BY <1>3, <1>5, <1>6, <1>7, <1>9, <2>1
<1>11. more = want
  BY <1>3, <1>7, <1>9, <1>10, SeqEqual
<1>12. Total(more) = Total(moves) + moved
  BY <1>6, <1>8, <1>11, TotalOfAppend DEF want
<1> QED BY <1>2, <1>4, <1>5, <1>12

(* A fill that is sequenced is pending no more.                            *)
LEMMA PendingFilledBefore ==
  ASSUME fills \in Seq(Fills), fills # << >>, fills' = Tail(fills), NEW id
  PROVE  /\ PendingFilled(id) = Moved(Head(fills), id) + PendingFilled(id)'
         /\ PendingFilled(id)' \in Nat
<1>1. PICK pending : pending = fills
  OBVIOUS
<1>2. pending \in Seq(Fills) /\ PendingFilled(id) = Total(PendingMoves(pending, id))
  BY <1>1, PendingFilledType
<1> DEFINE rest == Tail(pending)
           n == Len(rest)
<1>3. /\ rest \in Seq(Fills) /\ n \in Nat /\ Len(pending) = n + 1 /\ Head(pending) = pending[1]
      /\ \A i \in 1..n : rest[i] = pending[i + 1]
  BY <1>1, <1>2, HeadTailProperties, LenProperties, EmptySeq
<1>4. PendingFilled(id)' = Total(PendingMoves(rest, id))
  BY <1>1 DEF PendingFilled, PendingMoves
<1> HIDE DEF rest
<1>5. PICK moves, less : moves = PendingMoves(pending, id) /\ less = PendingMoves(rest, id)
  OBVIOUS
<1>6. /\ moves \in Seq(Nat) /\ Len(moves) = n + 1
      /\ \A i \in 1..n + 1 : moves[i] = Moved(pending[i], id)
  BY <1>2, <1>3, <1>5, PendingMovesType
<1>7. /\ less \in Seq(Nat) /\ Len(less) = n
      /\ \A i \in 1..n : less[i] = Moved(rest[i], id)
  BY <1>3, <1>5, PendingMovesType
<1> DEFINE want == Tail(moves)
<1>8. /\ moves # << >> /\ Head(moves) = moves[1]
      /\ want \in Seq(Nat) /\ Len(want) = n /\ \A i \in 1..n : want[i] = moves[i + 1]
  BY <1>3, <1>6, HeadTailProperties, EmptySeq
<1> HIDE DEF want
<1>9. ASSUME NEW i \in 1..n PROVE less[i] = want[i]
  <2>1. i + 1 \in 1..n + 1
    BY <1>3
  <2> QED BY <1>3, <1>6, <1>7, <1>8, <2>1
<1>10. less = want
  BY <1>7, <1>8, <1>9, SeqEqual
<1>11. Total(moves) = Head(moves) + Total(less) /\ Total(less) \in Nat
  BY <1>6, <1>8, <1>10, TotalOfTail DEF want
<1>12. Head(moves) = Moved(Head(pending), id)
  <2>1. 1 \in 1..n + 1
    BY <1>3
  <2> QED BY <1>3, <1>6, <1>8, <2>1
<1> QED BY <1>1, <1>2, <1>4, <1>5, <1>11, <1>12

(* No pending fill moves nothing.                                          *)
LEMMA NothingPending ==
  ASSUME fills = << >>, NEW id
  PROVE  PendingFilled(id) = 0
<1>1. fills \in Seq(Fills) /\ Len(fills) = 0
  BY EmptySeq
<1>2. PICK moves : moves = PendingMoves(fills, id)
  OBVIOUS
<1>3. moves \in Seq(Nat) /\ Len(moves) = 0
  BY <1>1, <1>2, PendingMovesType
<1> QED BY <1>1, <1>2, <1>3, TotalOfZeros, PendingFilledType

(* An order that no entry of the log moves has no fill there.              *)
LEMMA NothingLogged ==
  ASSUME SequencerTypes, NEW id,
         \A i \in FillPositions : ~FillOf(log[i].event.fill, id)
  PROVE  LogFilled(id) = 0
<1>1. PICK moves : moves = LogMoves(log, id)
  OBVIOUS
<1>2. /\ moves \in Seq(Nat) /\ Len(moves) = Len(log) /\ DOMAIN log = 1..Len(log)
      /\ \A i \in 1..Len(log) : moves[i] = EntryMoves(log[i], id)
  BY <1>1, LogMovesType, LenProperties DEF SequencerTypes
<1>3. \A i \in 1..Len(log) : EntryMoves(log[i], id) = 0
  BY <1>2 DEF EntryMoves, Moved, FillPositions
<1>4. Total(moves) = 0
  BY <1>2, <1>3, TotalOfZeros
<1> QED BY <1>1, <1>4 DEF LogFilled, LogMoves, EntryMoves

-----------------------------------------------------------------------------
(* The invariant *)

\* An order has been filled for what its fills moved.
Counted(order) == order.filled_size_lots = Traded(order.order_id)

OrdersCounted ==
  /\ \A m, id : OnBook(m, id) => Counted(OrderOn(m, id))
  /\ InProcessOrder => Counted(taker)

\* The state store's amount for an order is what its Fill events moved.
AmountLogged(order) == filled_amounts[order.order_hash] = LogFilled(order.order_id)

AmountsLogged == \A i \in Accepted : AmountLogged(OrderAt(i))

\* Nothing is counted under a hash before its order is accepted.
AmountsFresh ==
  \A hash \in Hashes : (\A i \in Accepted : OrderAt(i).order_hash # hash) => filled_amounts[hash] = 0

\* Orders that left the books are bounded too.
SizeRespected(order) == Traded(order.order_id) <= order.signed.size_lots

SizesRespected == \A i \in Accepted : SizeRespected(OrderAt(i))

FillInv == OrdersCounted /\ AmountsLogged /\ AmountsFresh /\ SizesRespected

-----------------------------------------------------------------------------
(* Orders of the log *)

(* An acceptance carries an order.                                         *)
LEMMA AcceptedOrder ==
  ASSUME EngineInv, NEW i \in Accepted
  PROVE  OrderAt(i) \in Orders
<1>1. log[i] \in SequencedEvents /\ log[i].event.type = "order_accepted"
  BY DEF Accepted, EngineInv, TypeOK, SequencerTypes
<1>2. log[i].event \in Events
  BY <1>1 DEF SequencedEvents
<1> QED BY <1>1, <1>2 DEF Events, OrderAt

(* No two acceptances have an id or a hash in common: the ids are fresh,   *)
(* and two orders with one hash have one trader and one nonce.             *)
LEMMA DistinctOrders ==
  ASSUME EngineInv, LogInv, NoncesRise, NEW i \in Accepted, NEW j \in Accepted
  PROVE  /\ OrderAt(i).order_id = OrderAt(j).order_id => i = j
         /\ OrderAt(i).order_hash = OrderAt(j).order_hash => i = j
<1>1. i \in Nat /\ j \in Nat
  BY LenProperties DEF Accepted, EngineInv, TypeOK, SequencerTypes
<1>2. ASSUME NEW k \in Accepted, NEW l \in Accepted, k < l
      PROVE  /\ OrderAt(k).order_id # OrderAt(l).order_id
             /\ OrderAt(k).order_hash # OrderAt(l).order_hash
  <2>1. PICK one, other : one = OrderAt(k) /\ other = OrderAt(l)
    OBVIOUS
  <2>2. one \in Orders /\ other \in Orders
    BY <2>1, AcceptedOrder
  <2>3. one.order_id < other.order_id
    BY <1>2, <2>1 DEF LogInv, AcceptancesSound
  <2>4. one.order_id # other.order_id
    BY <2>2, <2>3 DEF Orders, OrderIds
  <2>5. /\ one.order_hash = canonical_hash(one.signed)
        /\ other.order_hash = canonical_hash(other.signed)
    BY <2>1 DEF LogInv, AcceptancesSound
  <2>6. one.signed.nonce \in Nat /\ other.signed.nonce \in Nat
    BY <2>2, SignedOrderType DEF Orders
  <2>7. one.signed.trader_id = other.signed.trader_id => one.signed.nonce < other.signed.nonce
    BY <1>2, <2>1 DEF NoncesRise
  <2>8. ASSUME one.order_hash = other.order_hash PROVE FALSE
    <3>1. /\ one.order_hash.trader_id = one.signed.trader_id
          /\ one.order_hash.nonce = one.signed.nonce
          /\ other.order_hash.trader_id = other.signed.trader_id
          /\ other.order_hash.nonce = other.signed.nonce
      BY <2>5 DEF canonical_hash
    <3> QED BY <2>6, <2>7, <2>8, <3>1
  <2> QED BY <2>1, <2>4, <2>8
<1> QED BY <1>1, <1>2

(* An order that carries the position of its acceptance is that order.     *)
LEMMA AcceptedAsOrder ==
  ASSUME EngineInv, LogInv, NoncesRise, NEW order, AcceptedAs(order), NEW i \in Accepted,
         OrderAt(i).order_id = order.order_id
  PROVE  OrderAt(i).signed = order.signed /\ OrderAt(i).order_hash = order.order_hash
         /\ i = order.created_sequence
<1>1. /\ order.created_sequence \in Accepted
      /\ OrderAt(order.created_sequence).order_id = order.order_id
      /\ OrderAt(order.created_sequence).order_hash = order.order_hash
      /\ OrderAt(order.created_sequence).signed = order.signed
  BY DEF AcceptedAs, Recorded
<1>2. PICK j : j = order.created_sequence
  OBVIOUS
<1>3. i = j
  BY <1>1, <1>2, DistinctOrders
<1> QED BY <1>1, <1>2, <1>3

(* An order on a book has its id, and was accepted.                        *)
LEMMA OnBookOrder ==
  ASSUME EngineInv, NEW m, NEW id, OnBook(m, id)
  PROVE  /\ OrderOn(m, id) \in Orders /\ OrderOn(m, id).order_id = id /\ id \in Nat
         /\ OrderOn(m, id).filled_size_lots <= OrderOn(m, id).signed.size_lots
<1>1. PICK book : book = books[m]
  OBVIOUS
<1>2. BookFits(book, m) /\ id \in DOMAIN book.orders /\ OrderOn(m, id) = book.orders[id]
  BY <1>1 DEF OnBook, OrderOn, EngineInv, BooksFit
<1>3. /\ book.orders[id] \in Orders /\ book.orders[id].order_id = id
      /\ book.orders[id].filled_size_lots <= book.orders[id].signed.size_lots
  BY <1>2 DEF BookFits, IsBook, IsMap, OrdersFit
<1>4. id \in Nat
  BY <1>3 DEF Orders, OrderIds
<1> QED BY <1>2, <1>3, <1>4

-----------------------------------------------------------------------------
(* The invariant, step by step *)

(* A turn of the loop counts its fill for the taker and the maker, and for *)
(* no other order.                                                         *)
LEMMA MatchMakerCounts ==
  ASSUME EngineInv, QueueInv, MatchMaker, OrdersCounted
  PROVE  /\ OrdersCounted'
         /\ \A id : LogFilled(id)' = LogFilled(id)
         /\ \/ \A id : Traded(id)' = Traded(id)
            \/ \E maker : /\ OnBook(taker.signed.market_id, maker)
                          /\ \A id : id \notin {taker.order_id, maker} => Traded(id)' = Traded(id)
<1> DEFINE market_id == taker.signed.market_id
           first == Head(maker_ids)
<1>1. PICK maker : maker = books[market_id].orders[first]
  OBVIOUS
<1>2. /\ InProcessOrder /\ Wants(taker) /\ market_id \in DOMAIN books
      /\ first \in DOMAIN books[market_id].orders
      /\ maker \in Orders /\ maker.order_id = first
      /\ maker.filled_size_lots <= maker.signed.size_lots /\ remaining_size_lots(maker) > 0
      /\ StpCancelTaker(maker) \/ FillMaker(maker)
  BY <1>1, MatchMakerMeets
<1>3. /\ fills \in Seq(Fills) /\ taker \in Orders /\ price \in Nat
      /\ taker.filled_size_lots <= taker.signed.size_lots
  BY <1>2 DEF EngineInv, CallFits, TypeOK, CallTypes
<1>4. UNCHANGED <<log, stage>> /\ InProcessOrder'
  BY <1>2 DEF MatchMaker, sequencer_vars, InProcessOrder
<1>5. \A id : LogFilled(id)' = LogFilled(id)
  BY <1>4 DEF LogFilled
<1>6. CASE StpCancelTaker(maker)
  <2>1. UNCHANGED <<books, fills>>
        /\ taker'.order_id = taker.order_id /\ taker'.filled_size_lots = taker.filled_size_lots
    BY <1>3, <1>6 DEF StpCancelTaker, Orders
  <2>2. \A id : Traded(id)' = Traded(id)
    BY <1>5, <2>1 DEF Traded, PendingFilled
  <2>3. OrdersCounted'
    BY <1>2, <2>1, <2>2 DEF OrdersCounted, Counted, OnBook, OrderOn
  <2> QED BY <1>5, <2>2, <2>3
<1>7. CASE FillMaker(maker)
  <2>1. PICK qty, new, filled, taken :
          /\ qty = fill_qty(maker) /\ new = NewFill(maker, qty)
          /\ filled = after_fill(maker, qty, taker.created_sequence)
          /\ taken = after_fill(taker, qty, taker.created_sequence)
    OBVIOUS
  <2>2. fills' = Append(fills, new) /\ taker' = taken
    BY <1>7, <2>1 DEF FillMaker
  <2>3. remaining_size_lots(taker) > 0
    BY <1>2 DEF Wants
  <2>4. qty \in Nat
    BY <1>2, <1>3, <2>1, <2>3, FillMakerParts
  <2>5. new \in Fills
    <3>1. maker.signed.market_id \in Markets
      <4>1. BookFits(books[market_id], market_id)
        BY <1>2 DEF EngineInv, BooksFit
      <4>2. maker.signed.market_id = market_id
        BY <1>1, <1>2, <4>1 DEF BookFits, OrdersFit
      <4> QED BY <1>2, <4>2 DEF EngineInv, TypeOK, EngineTypes
    <3> QED BY <1>2, <1>3, <2>1, <2>4, <3>1, NewFillType
  <2>6. /\ new.taker_order_id = taker.order_id /\ new.maker_order_id = first
        /\ new.size_lots = qty
    BY <1>2, <2>1 DEF NewFill
  <2>7. /\ taken.order_id = taker.order_id /\ filled.order_id = first
        /\ taken.filled_size_lots = taker.filled_size_lots + qty
        /\ filled.filled_size_lots = maker.filled_size_lots + qty
    BY <1>2, <1>3, <2>1 DEF after_fill, Orders
  <2>8. ASSUME NEW id
        PROVE  Traded(id)' = Traded(id) + (IF id \in {taker.order_id, first} THEN qty ELSE 0)
    <3>1. PendingFilled(id)' = PendingFilled(id) + Moved(new, id)
      BY <1>3, <2>2, <2>5, PendingFilledAfter
    <3>2. Moved(new, id) = IF id \in {taker.order_id, first} THEN qty ELSE 0
      BY <2>6 DEF Moved, FillOf
    <3>3. LogFilled(id) \in Nat /\ PendingFilled(id) \in Nat
      BY <1>3, LogFilledType, PendingFilledType DEF EngineInv, TypeOK
    <3> QED BY <1>5, <2>4, <3>1, <3>2, <3>3 DEF Traded
  <2>9. ASSUME NEW id PROVE Traded(id) \in Nat
    BY <1>3, LogFilledType, PendingFilledType DEF EngineInv, TypeOK, Traded
  <2>10. Counted(taken)'
    BY <1>2, <2>4, <2>7, <2>8, <2>9 DEF OrdersCounted, Counted
  <2>11. ASSUME NEW m, NEW id, OnBook(m, id)'
         PROVE  Counted(OrderOn(m, id))'
    <3>1. OnBook(m, id)
      BY <2>11, MatchMakerOrders
    <3>2. PICK order, after : order = OrderOn(m, id) /\ after = OrderOn(m, id)'
      OBVIOUS
    <3>3. order \in Orders /\ order.order_id = id /\ id \in Nat /\ Counted(order)
      BY <3>1, <3>2, OnBookOrder DEF OrdersCounted
    <3>4. id # taker.order_id /\ (id = first => m = market_id)
      <4>1. id < taker.order_id
        BY <1>2, <3>1 DEF QueueInv, IdsFresh, BookIdsFresh, OnBook
      <4>2. order_market_index[id] = m /\ order_market_index[first] = market_id
        BY <1>2, <3>1 DEF QueueInv, IdsFresh, BookIdsFresh, OnBook
      <4> QED BY <3>3, <4>1, <4>2
    <3>5. fills' # fills
      <4>1. Len(Append(fills, new)) = Len(fills) + 1 /\ Len(fills) \in Nat
        BY <1>3, <2>5, AppendProperties, LenProperties
      <4> QED BY <2>2, <4>1
    <3>6. \/ after = order /\ (m # market_id \/ id # first)
          \/ m = market_id /\ id = first /\ after = filled
      <4>1. order = maker \/ m # market_id \/ id # first
        BY <1>1, <3>2 DEF OrderOn
      <4> QED BY <2>1, <3>1, <3>2, <3>5, <4>1, MatchMakerOrders
    <3>7. CASE after = order /\ (m # market_id \/ id # first)
      <4>1. Traded(id)' = Traded(id)
        BY <2>8, <2>9, <3>4, <3>7
      <4> QED BY <3>2, <3>3, <3>7, <4>1 DEF Counted
    <3>8. CASE m = market_id /\ id = first /\ after = filled
      <4>1. order = maker
        BY <1>1, <3>2, <3>8 DEF OrderOn
      <4>2. Traded(id)' = Traded(id) + qty
        BY <2>8, <3>8
      <4> QED BY <2>7, <3>2, <3>3, <3>8, <4>1, <4>2 DEF Counted
    <3> QED BY <3>6, <3>7, <3>8
  <2>12. OnBook(market_id, first)
    BY <1>2 DEF OnBook
  <2>13. \A id : id \notin {taker.order_id, first} => Traded(id)' = Traded(id)
    BY <2>8, <2>9
  <2>14. Counted(taker)'
    BY <2>2, <2>10 DEF Counted
  <2>15. OrdersCounted'
    BY <2>11, <2>14 DEF OrdersCounted
  <2> QED BY <1>5, <2>12, <2>13, <2>15
<1> QED BY <1>2, <1>6, <1>7

(* Nothing an order trades takes it beyond its size.                       *)
LEMMA MatchMakerSizes ==
  ASSUME EngineInv, QueueInv, LogInv, NoncesRise, FillInv, MatchMaker
  PROVE  SizesRespected'
<1>1. /\ OrdersCounted' /\ EngineInv' /\ Accepted' = Accepted
      /\ \A i \in Accepted : log'[i] = log[i]
  <2>1. EngineInv' /\ NoAcceptance
    BY MatchMakerInv
  <2> QED BY <2>1, AcceptedKept, MatchMakerCounts DEF FillInv
<1>2. SameOrder(taker', taker) /\ InProcessOrder /\ InProcessOrder'
  BY MatchMakerRecorded
<1>3. ASSUME NEW i \in Accepted
      PROVE  SizeRespected(OrderAt(i))'
  <2>1. PICK order : order = OrderAt(i)
    OBVIOUS
  <2>2. order = OrderAt(i)'
    BY <1>1, <2>1 DEF OrderAt
  <2>3. CASE order.order_id = taker.order_id
    <3>1. order.signed = taker.signed
      BY <1>2, <2>1, <2>3, AcceptedAsOrder DEF LogInv, CallRecorded
    <3>2. Counted(taker)' /\ taker'.filled_size_lots <= taker'.signed.size_lots
      BY <1>1, <1>2 DEF OrdersCounted, EngineInv, CallFits
    <3> QED BY <1>2, <2>2, <2>3, <3>1, <3>2 DEF SizeRespected, Counted, SameOrder
  <2>4. ASSUME NEW m, OnBook(m, order.order_id)
        PROVE  SizeRespected(OrderAt(i))'
    <3>1. PICK id : id = order.order_id
      OBVIOUS
    <3>2. PICK before : before = OrderOn(m, id)
      OBVIOUS
    <3>3. before.order_id = id /\ AcceptedAs(before)
      BY <2>4, <3>1, <3>2, OnBookOrder DEF LogInv, BooksRecorded
    <3>4. order.signed = before.signed
      BY <2>1, <3>1, <3>3, AcceptedAsOrder
    <3>5. OnBook(m, id)'
      BY <2>4, <3>1, MatchMakerOrders
    <3>6. /\ Counted(OrderOn(m, id))'
          /\ OrderOn(m, id)'.filled_size_lots <= OrderOn(m, id)'.signed.size_lots
          /\ OrderOn(m, id)'.order_id = id
      <4>1. Counted(OrderOn(m, id))'
        BY <1>1, <3>5 DEF OrdersCounted
      <4>2. BookFits(books[m], m)' /\ id \in DOMAIN books'[m].orders
        BY <1>1, <3>5 DEF OnBook, EngineInv, BooksFit
      <4> QED BY <4>1, <4>2 DEF BookFits, OrdersFit, OrderOn
    <3>7. OrderOn(m, id)'.signed = before.signed
      <4>1. \/ SameOrder(OrderOn(m, id)', OrderOn(m, id))
            \/ OrderOn(m, id)' = taker
        BY <3>5, StepOrders DEF Next, Continue
      <4>2. id # taker.order_id
        <5>1. id < taker.order_id
          BY <1>2, <2>4, <3>1 DEF QueueInv, IdsFresh, BookIdsFresh, OnBook
        <5>2. id \in Nat
          BY <2>4, <3>1, OnBookOrder
        <5> QED BY <5>1, <5>2
      <4> QED BY <3>2, <3>6, <4>1, <4>2 DEF SameOrder
    <3> QED BY <2>2, <3>1, <3>4, <3>6, <3>7 DEF SizeRespected, Counted
  <2>5. ASSUME Traded(order.order_id)' = Traded(order.order_id)
        PROVE  SizeRespected(OrderAt(i))'
    <3>1. SizeRespected(order)
      BY <2>1 DEF FillInv, SizesRespected
    <3> QED BY <2>2, <2>5, <3>1 DEF SizeRespected
  <2> QED BY <2>3, <2>4, <2>5, MatchMakerCounts DEF FillInv
<1> QED BY <1>1, <1>3 DEF SizesRespected

(* A turn of the loop changes neither the log nor the state store.         *)
LEMMA MatchMakerFillInv ==
  ASSUME EngineInv, QueueInv, LogInv, NoncesRise, FillInv, MatchMaker
  PROVE  FillInv'
<1>1. /\ NoAcceptance /\ filled_amounts' = filled_amounts /\ UNCHANGED log
  BY MatchMakerInv DEF MatchMaker, sequencer_vars, store_vars
<1>2. Accepted' = Accepted /\ (\A i \in Accepted : log'[i] = log[i])
  BY <1>1 DEF Accepted
<1>3. AmountsLogged' /\ AmountsFresh'
  BY <1>1, <1>2 DEF FillInv, AmountsLogged, AmountsFresh, AmountLogged, OrderAt, LogFilled
<1> QED BY <1>3, MatchMakerCounts, MatchMakerSizes DEF FillInv

(* Sequencing a fill counts it in the state store, for its two orders and  *)
(* no other, and takes nothing from what any order has traded.             *)
LEMMA RecordFillFillInv ==
  ASSUME EngineInv, QueueInv, LogInv, NoncesRise, FillInv, RecordFill
  PROVE  FillInv'
<1>1. PICK fill : fill = Head(fills)
  OBVIOUS
<1>2. /\ InProcessOrder /\ InProcessOrder' /\ fills # << >> /\ fills' = Tail(fills)
      /\ append_event([type |-> "fill", fill |-> fill]) /\ apply_fill(fill)
      /\ UNCHANGED <<taker, books>>
  BY <1>1 DEF RecordFill, InProcessOrder, engine_vars
<1>3. /\ fills \in Seq(Fills) /\ fill \in Fills /\ 1 \in DOMAIN fills /\ fill = fills[1]
  <2>1. fills \in Seq(Fills)
    BY DEF EngineInv, TypeOK, CallTypes
  <2> QED BY <1>1, <1>2, <2>1, HeadTailProperties, EmptySeq, LenProperties, ElementOfSeq
<1>4. /\ Accepted' = Accepted /\ \A i \in Accepted : log'[i] = log[i]
  BY RecordFillInv, AcceptedKept
<1>5. SequencerTypes /\ filled_amounts \in [Hashes -> Nat]
  BY DEF EngineInv, TypeOK, StoreTypes
<1>6. ASSUME NEW id
      PROVE  /\ LogFilled(id)' = LogFilled(id) + Moved(fill, id) /\ Moved(fill, id) \in Nat
             /\ Traded(id)' = Traded(id)
  <2> DEFINE event == [type |-> "fill", fill |-> fill]
  <2>1. event \in Events /\ event.type = "fill" /\ event.fill = fill /\ append_event(event)
    BY <1>2, <1>3 DEF Events
  <2> HIDE DEF event
  <2>2. LogFilled(id)' = LogFilled(id) + Moved(fill, id) /\ LogFilled(id) \in Nat
    BY <1>5, <2>1, LogFilledAfter
  <2>3. PendingFilled(id) = Moved(fill, id) + PendingFilled(id)' /\ PendingFilled(id)' \in Nat
    BY <1>1, <1>2, <1>3, PendingFilledBefore
  <2>4. Moved(fill, id) \in Nat
    BY <1>3, MovesType
  <2> QED BY <2>2, <2>3, <2>4 DEF Traded
<1>7. OrdersCounted'
  BY <1>2, <1>6 DEF FillInv, OrdersCounted, Counted, OnBook, OrderOn
<1>8. SizesRespected'
  BY <1>4, <1>6 DEF FillInv, SizesRespected, SizeRespected, OrderAt
<1>9. PICK at, by : /\ at \in Accepted /\ by \in Accepted /\ by < at
                    /\ OrderAt(at).order_id = fill.taker_order_id
                    /\ OrderAt(at).order_hash = fill.taker_order_hash
                    /\ OrderAt(by).order_id = fill.maker_order_id
                    /\ OrderAt(by).order_hash = fill.maker_order_hash
  <2>1. PendingSound(fill) /\ AcceptedAs(taker)
    BY <1>2, <1>3 DEF LogInv, CallRecorded
  <2> QED BY <2>1 DEF PendingSound, AcceptedAs, MakerBefore, Recorded
<1>10. at # by /\ fill.taker_order_hash # fill.maker_order_hash
  <2>1. at \in Nat /\ by \in Nat
    BY <1>5, <1>9, LenProperties DEF SequencerTypes, Accepted
  <2>2. at # by
    BY <1>9, <2>1
  <2> QED BY <1>9, <2>2, DistinctOrders
<1>11. fill.taker_order_hash \in Hashes /\ fill.maker_order_hash \in Hashes /\ fill.size_lots \in Nat
  BY <1>3 DEF Fills
<1>12. ASSUME NEW hash \in Hashes
       PROVE  filled_amounts'[hash] =
                filled_amounts[hash] + (IF hash \in {fill.taker_order_hash, fill.maker_order_hash}
                                        THEN fill.size_lots ELSE 0)
  BY <1>2, <1>5, <1>10, <1>11 DEF apply_fill
<1>13. ASSUME NEW i \in Accepted
       PROVE  AmountLogged(OrderAt(i))'
  <2>1. PICK order : order = OrderAt(i)
    OBVIOUS
  <2>2. order = OrderAt(i)' /\ order.order_hash \in Hashes
    BY <1>4, <2>1, AcceptedOrder DEF OrderAt, Orders
  <2>3. AmountLogged(order)
    BY <2>1 DEF FillInv, AmountsLogged
  <2>4. /\ order.order_id = fill.taker_order_id <=> i = at
        /\ order.order_hash = fill.taker_order_hash <=> i = at
    BY <1>9, <2>1, DistinctOrders
  <2>5. /\ order.order_id = fill.maker_order_id <=> i = by
        /\ order.order_hash = fill.maker_order_hash <=> i = by
    BY <1>9, <2>1, DistinctOrders
  <2>6. Moved(fill, order.order_id) = IF order.order_hash \in {fill.taker_order_hash, fill.maker_order_hash}
                                      THEN fill.size_lots ELSE 0
    BY <2>4, <2>5 DEF Moved, FillOf
  <2> QED BY <1>6, <1>12, <2>2, <2>3, <2>6 DEF AmountLogged
<1>14. AmountsLogged'
  BY <1>4, <1>13 DEF AmountsLogged
<1>15. AmountsFresh'
  <2>1. ASSUME NEW hash \in Hashes, \A i \in Accepted : OrderAt(i).order_hash # hash
        PROVE  filled_amounts'[hash] = 0
    <3>1. hash \notin {fill.taker_order_hash, fill.maker_order_hash}
      BY <1>9, <2>1
    <3>2. filled_amounts[hash] = 0
      BY <2>1 DEF FillInv, AmountsFresh
    <3> QED BY <1>12, <3>1, <3>2
  <2> QED BY <1>4, <2>1 DEF AmountsFresh, OrderAt
<1> QED BY <1>7, <1>8, <1>14, <1>15 DEF FillInv

\* A step that logs no fill.
NoFillLogged ==
  UNCHANGED log \/ \E event \in Events : event.type # "fill" /\ append_event(event)

(* Such a step moves no lots.                                              *)
LEMMA NothingMoved ==
  ASSUME SequencerTypes, NoFillLogged, UNCHANGED fills, NEW id
  PROVE  LogFilled(id)' = LogFilled(id) /\ Traded(id)' = Traded(id)
<1>1. LogFilled(id)' = LogFilled(id)
  <2>1. CASE UNCHANGED log
    BY <2>1 DEF LogFilled
  <2>2. ASSUME NEW event \in Events, event.type # "fill", append_event(event)
        PROVE  LogFilled(id)' = LogFilled(id)
    <3>1. LogFilled(id)' = LogFilled(id) + (IF event.type = "fill" THEN Moved(event.fill, id) ELSE 0)
          /\ LogFilled(id) \in Nat
      BY <2>2, LogFilledAfter
    <3> QED BY <2>2, <3>1
  <2> QED BY <2>1, <2>2 DEF NoFillLogged
<1>2. PendingFilled(id)' = PendingFilled(id)
  BY DEF PendingFilled
<1> QED BY <1>1, <1>2 DEF Traded

\* The books hold what they held, filled as it was, or the taker too.
FilledKept ==
  \A m, id : OnBook(m, id)' =>
    \/ /\ OnBook(m, id) /\ OrderOn(m, id)'.order_id = OrderOn(m, id).order_id
       /\ OrderOn(m, id)'.filled_size_lots = OrderOn(m, id).filled_size_lots
    \/ InProcessOrder /\ OrderOn(m, id)' = taker

(* Only the loop fills the orders of the books.                            *)
LEMMA StepFilledKept ==
  ASSUME EngineInv, QueueInv, [Next]_vars
  PROVE  MatchMaker \/ FilledKept
<1>1. CASE UNCHANGED books
  BY <1>1 DEF OnBook, OrderOn, FilledKept
<1>2. CASE FinishOrder
  <2>1. InProcessOrder
    BY <1>2 DEF FinishOrder, InProcessOrder
  <2>2. ASSUME NEW m, NEW id, OnBook(m, id)'
        PROVE  \/ OnBook(m, id) /\ OrderOn(m, id)' = OrderOn(m, id)
               \/ OrderOn(m, id)' = taker
    BY <1>2, <2>2, FinishOrderOrders
  <2> QED BY <2>1, <2>2 DEF FilledKept
<1>3. ASSUME NEW gone, NEW trader_id, ProcessCancel(gone, trader_id)
      PROVE  FilledKept
  <2> SUFFICES ASSUME NEW m, NEW id, OnBook(m, id)'
               PROVE  /\ OnBook(m, id) /\ OrderOn(m, id)'.order_id = OrderOn(m, id).order_id
                      /\ OrderOn(m, id)'.filled_size_lots = OrderOn(m, id).filled_size_lots
    BY DEF FilledKept
  <2>1. /\ OnBook(m, id)
        /\ \/ OrderOn(m, id)' = OrderOn(m, id)
           \/ OrderOn(m, id)' = [OrderOn(m, id) EXCEPT !.status = "cancelled"]
    BY <1>3, ProcessCancelOrders
  <2>2. OrderOn(m, id) \in Orders
    BY <2>1, OnBookOrder
  <2> QED BY <2>1, <2>2 DEF Orders
<1>4. ASSUME NEW market_id \in Markets, PauseMarket(market_id) \/ ResumeMarket(market_id)
      PROVE  FilledKept
  BY <1>4, SetStatusOrders DEF PauseMarket, ResumeMarket, FilledKept
<1>5. CASE Call
  <2>1. ASSUME NEW trader_id, NEW client_order_id, CancelByClientId(trader_id, client_order_id)
        PROVE  FilledKept
    BY <1>3, <2>1 DEF CancelByClientId
  <2>2. ASSUME NEW signed, NEW now_ms, ProcessOrder(signed, now_ms)
        PROVE  UNCHANGED books
    BY <2>2 DEF ProcessOrder
  <2>3. ASSUME NEW market_id, CancelAllOrders(market_id)
        PROVE  UNCHANGED books
    BY <2>3 DEF CancelAllOrders, engine_vars
  <2> QED BY <1>1, <1>3, <1>4, <1>5, <2>1, <2>2, <2>3 DEF Call
<1>6. CASE NextLevel \/ EndMatch \/ RecordFill \/ CancelNext
  BY <1>1, <1>6 DEF NextLevel, EndMatch, RecordFill, CancelNext, engine_vars
<1>7. CASE UNCHANGED vars
  BY <1>1, <1>7 DEF vars, engine_vars
<1> QED BY <1>2, <1>5, <1>6, <1>7 DEF Next, Continue

(* A step that accepts no order, makes and logs no fill, and leaves the    *)
(* orders of the books filled as they were.                                *)
LEMMA QuietStep ==
  ASSUME EngineInv, FillInv, NoAcceptance, NoFillLogged, UNCHANGED <<fills, filled_amounts>>,
         FilledKept, InProcessOrder' => InProcessOrder /\ taker' = taker
  PROVE  FillInv'
<1>1. /\ Accepted' = Accepted /\ \A i \in Accepted : log'[i] = log[i]
  BY AcceptedKept
<1>2. \A id : LogFilled(id)' = LogFilled(id) /\ Traded(id)' = Traded(id)
  BY NothingMoved DEF EngineInv, TypeOK
<1>3. AmountsLogged' /\ AmountsFresh' /\ SizesRespected'
  BY <1>1, <1>2 DEF FillInv, AmountsLogged, AmountsFresh, SizesRespected, AmountLogged, SizeRespected,
     OrderAt
<1>4. InProcessOrder' => Counted(taker)'
  BY <1>2 DEF FillInv, OrdersCounted, Counted
<1>5. ASSUME NEW m, NEW id, OnBook(m, id)'
      PROVE  Counted(OrderOn(m, id))'
  <2>1. CASE InProcessOrder /\ OrderOn(m, id)' = taker
    BY <1>2, <2>1 DEF FillInv, OrdersCounted, Counted
  <2>2. CASE /\ OnBook(m, id) /\ OrderOn(m, id)'.order_id = OrderOn(m, id).order_id
             /\ OrderOn(m, id)'.filled_size_lots = OrderOn(m, id).filled_size_lots
    <3>1. Counted(OrderOn(m, id))
      BY <2>2 DEF FillInv, OrdersCounted
    <3> QED BY <1>2, <2>2, <3>1 DEF Counted
  <2> QED BY <1>5, <2>1, <2>2 DEF FilledKept
<1> QED BY <1>3, <1>4, <1>5 DEF FillInv, OrdersCounted

(* Acceptance: nothing was ever traded under the new id or hash.           *)
LEMMA ProcessOrderFillInv ==
  ASSUME EngineInv, QueueInv, LogGapless, LogInv, NoncesRise, FillInv,
         NEW signed \in SignedOrders, NEW now_ms, ProcessOrder(signed, now_ms), FilledKept
  PROVE  FillInv'
<1>1. PICK order : order = NewOrder(signed, uuids + 1)
  OBVIOUS
<1>2. PICK last : last = Len(log) + 1
  OBVIOUS
<1>3. /\ order \in Orders /\ order.signed = signed /\ order.order_id = uuids + 1
      /\ order.order_hash = canonical_hash(signed) /\ order.filled_size_lots = 0
      /\ order.order_hash \in Hashes /\ uuids \in Nat
  <2>1. uuids + 1 \in OrderIds /\ next_seq_id \in Nat /\ uuids \in Nat
    BY DEF EngineInv, TypeOK, SequencerTypes, CallTypes, OrderIds
  <2>2. order \in Orders /\ order.signed = signed /\ order.order_id = uuids + 1
        /\ order.order_hash = canonical_hash(signed)
    BY <1>1, <2>1, NewOrderType
  <2>3. order.filled_size_lots = 0
    BY <1>1 DEF NewOrder
  <2> QED BY <2>1, <2>2, <2>3 DEF Orders
<1>4. /\ stage = "idle" /\ ~InProcessOrder /\ UNCHANGED <<fills, filled_amounts>>
      /\ append_event([type |-> "order_accepted", order |-> order])
      /\ check_and_update_nonce(signed)
      /\ InProcessOrder' => taker' = order
  BY <1>1 DEF ProcessOrder, InProcessOrder
<1> DEFINE event == [type |-> "order_accepted", order |-> order]
<1>5. event \in Events /\ append_event(event) /\ event.type = "order_accepted"
  BY <1>3, <1>4 DEF Events
<1>6. /\ Accepted' = Accepted \cup {last} /\ log'[last].event.order = order
      /\ \A i \in Accepted : log'[i] = log[i]
  BY <1>2, <1>3, <1>5, AcceptedAppended
<1> HIDE DEF event
<1>7. \A id : LogFilled(id)' = LogFilled(id) /\ Traded(id)' = Traded(id)
  <2>1. NoFillLogged /\ SequencerTypes
    BY <1>5 DEF NoFillLogged, EngineInv, TypeOK
  <2> QED BY <1>4, <2>1, NothingMoved
<1>8. LogFilled(order.order_id) = 0 /\ Traded(order.order_id) = 0
  <2>1. ASSUME NEW i \in FillPositions PROVE ~FillOf(log[i].event.fill, order.order_id)
    <3>1. PICK fill : fill = log[i].event.fill
      OBVIOUS
    <3>2. \E j, k \in Accepted : /\ OrderAt(j).order_id = fill.taker_order_id
                                 /\ OrderAt(k).order_id = fill.maker_order_id
      BY <3>1 DEF LogInv, FillFollows, MakerBefore, Recorded
    <3>3. ASSUME NEW j \in Accepted PROVE OrderAt(j).order_id # order.order_id
      <4>1. OrderAt(j).order_id <= uuids /\ OrderAt(j).order_id \in Nat
        BY AcceptedOrder DEF LogInv, AcceptancesSound, Orders, OrderIds
      <4> QED BY <1>3, <4>1
    <3> QED BY <3>1, <3>2, <3>3 DEF FillOf
  <2>2. LogFilled(order.order_id) = 0
    BY <2>1, NothingLogged DEF EngineInv, TypeOK
  <2>3. fills = << >>
    BY <1>4 DEF LogInv, CallRecorded
  <2> QED BY <2>2, <2>3, NothingPending DEF Traded
<1>9. filled_amounts[order.order_hash] = 0
  <2>1. ASSUME NEW j \in Accepted PROVE OrderAt(j).order_hash # order.order_hash
    <3>1. PICK other : other = OrderAt(j)
      OBVIOUS
    <3>2. other \in Orders /\ other.order_hash = canonical_hash(other.signed)
      BY <3>1, AcceptedOrder DEF LogInv, AcceptancesSound
    <3>3. /\ other.signed.nonce <= nonces[other.signed.trader_id]
          /\ signed.nonce > nonces[signed.trader_id]
      BY <1>4, <3>1 DEF NoncesRise, check_and_update_nonce
    <3>4. /\ other.signed.nonce \in Nat /\ signed.nonce \in Nat
          /\ nonces[signed.trader_id] \in Nat
      <4>1. /\ other.signed \in SignedOrders
        BY <3>2 DEF Orders
      <4>2. signed.trader_id \in TraderIds /\ signed.nonce \in Nat /\ other.signed.nonce \in Nat
        BY <4>1, SignedOrderType
      <4> QED BY <4>2 DEF EngineInv, TypeOK, StoreTypes
    <3>5. ASSUME other.order_hash = order.order_hash PROVE FALSE
      <4>1. other.signed.trader_id = signed.trader_id /\ other.signed.nonce = signed.nonce
        BY <1>3, <3>2, <3>5 DEF canonical_hash
      <4> QED BY <3>3, <3>4, <4>1
    <3> QED BY <3>1, <3>5
  <2> QED BY <1>3, <2>1 DEF FillInv, AmountsFresh
<1>10. signed.size_lots \in Nat
  BY SignedOrderType
<1>11. ASSUME NEW i \in Accepted'
       PROVE  AmountLogged(OrderAt(i))' /\ SizeRespected(OrderAt(i))'
  <2>1. PICK one : one = OrderAt(i)'
    OBVIOUS
  <2>2. CASE i = last
    <3>1. one = order
      BY <1>6, <2>1, <2>2 DEF OrderAt
    <3> QED BY <1>3, <1>4, <1>7, <1>8, <1>9, <1>10, <2>1, <3>1 DEF AmountLogged, SizeRespected
  <2>3. CASE i \in Accepted
    <3>1. one = OrderAt(i)
      BY <1>6, <2>1, <2>3 DEF OrderAt
    <3>2. AmountLogged(one) /\ SizeRespected(one)
      BY <2>3, <3>1 DEF FillInv, AmountsLogged, SizesRespected
    <3> QED BY <1>4, <1>7, <2>1, <3>2 DEF AmountLogged, SizeRespected
  <2> QED BY <1>6, <2>2, <2>3
<1>12. AmountsLogged' /\ SizesRespected'
  BY <1>11 DEF AmountsLogged, SizesRespected
<1>13. AmountsFresh'
  BY <1>4, <1>6 DEF FillInv, AmountsFresh, OrderAt
<1>14. OrdersCounted'
  <2>1. ASSUME InProcessOrder' PROVE Counted(taker)'
    BY <1>3, <1>4, <1>7, <1>8, <2>1 DEF Counted
  <2>2. ASSUME NEW m, NEW id, OnBook(m, id)'
        PROVE  Counted(OrderOn(m, id))'
    <3>1. /\ OnBook(m, id) /\ OrderOn(m, id)'.order_id = OrderOn(m, id).order_id
          /\ OrderOn(m, id)'.filled_size_lots = OrderOn(m, id).filled_size_lots
      BY <1>4, <2>2 DEF FilledKept
    <3>2. Counted(OrderOn(m, id))
      BY <3>1 DEF FillInv, OrdersCounted
    <3> QED BY <1>7, <3>1, <3>2 DEF Counted
  <2> QED BY <2>1, <2>2 DEF OrdersCounted
<1> QED BY <1>12, <1>13, <1>14 DEF FillInv

(* A cancellation is no fill, and neither is a change of a market's status. *)
LEMMA CancellationLogged ==
  ASSUME NEW id \in OrderIds, NEW hash \in Hashes, NEW reason \in CancelReasons,
         append_event(OrderCancelled(id, hash, reason))
  PROVE  NoFillLogged
<1> DEFINE event == OrderCancelled(id, hash, reason)
<1>1. event \in Events /\ event.type # "fill"
  BY DEF OrderCancelled, Events
<1> HIDE DEF event
<1> QED BY <1>1 DEF NoFillLogged, event

(* The orders that cancellations name have their types.                    *)
LEMMA StepNoFillLogged ==
  ASSUME EngineInv, LogInv, [Next]_vars
  PROVE  RecordFill \/ NoFillLogged
<1>1. ASSUME NEW order \in Orders
      PROVE  order.order_id \in OrderIds /\ order.order_hash \in Hashes
  BY DEF Orders
<1>2. CASE UNCHANGED log
  BY <1>2 DEF NoFillLogged
<1>3. ASSUME NEW signed \in SignedOrders, NEW now_ms, ProcessOrder(signed, now_ms)
      PROVE  NoFillLogged
  <2>1. PICK order \in Orders : /\ [type |-> "order_accepted", order |-> order] \in Events
                                /\ append_event([type |-> "order_accepted", order |-> order])
    BY <1>3, AcceptanceStep
  <2>2. PICK event : event = [type |-> "order_accepted", order |-> order]
    OBVIOUS
  <2>3. event.type # "fill"
    BY <2>2
  <2> QED BY <2>1, <2>2, <2>3 DEF NoFillLogged
<1>4. CASE FinishOrder
  <2>1. \/ UNCHANGED log
        \/ append_event(OrderCancelled(taker.order_id, taker.order_hash, "self_trade_prevention"))
    BY <1>4 DEF FinishOrder
  <2>2. taker.order_id \in OrderIds /\ taker.order_hash \in Hashes
    BY <1>1, <1>4 DEF FinishOrder, EngineInv, CallFits, InProcessOrder
  <2> QED BY <1>2, <2>1, <2>2, CancellationLogged DEF CancelReasons
<1>5. ASSUME NEW id, NEW trader_id, ProcessCancel(id, trader_id)
      PROVE  NoFillLogged
  <2>1. /\ find_order(id) # NoOrder
        /\ append_event(OrderCancelled(id, find_order(id).order_hash, "trader_request"))
    BY <1>5 DEF ProcessCancel
  <2>2. PICK order : order = find_order(id)
    OBVIOUS
  <2>3. PICK m : OnBook(m, id) /\ order = OrderOn(m, id)
    BY <2>1, <2>2 DEF find_order, OnBook, OrderOn
  <2>4. id \in OrderIds /\ order.order_hash \in Hashes
    BY <1>1, <2>3, OnBookOrder
  <2> QED BY <2>1, <2>2, <2>4, CancellationLogged DEF CancelReasons
<1>6. CASE CancelNext
  <2>1. PICK i \in to_cancel :
          append_event(OrderCancelled(log[i].event.order.order_id,
                                      log[i].event.order.order_hash, "admin_force"))
    BY <1>6 DEF CancelNext
  <2>2. PICK order : order = log[i].event.order
    OBVIOUS
  <2>3. order \in Orders
    BY <2>2, AcceptedOrder DEF EngineInv, CallFits, OrderAt
  <2> QED BY <1>1, <2>1, <2>2, <2>3, CancellationLogged DEF CancelReasons
<1>7. ASSUME NEW market_id \in Markets, PauseMarket(market_id) \/ ResumeMarket(market_id)
      PROVE  NoFillLogged
  <2>1. PICK type \in {"market_paused", "market_resumed"} :
          append_event([type |-> type, market_id |-> market_id])
    BY <1>7 DEF PauseMarket, ResumeMarket, SetStatus
  <2>2. PICK event : event = [type |-> type, market_id |-> market_id]
    OBVIOUS
  <2>3. event \in Events /\ event.type # "fill"
    BY <2>2 DEF Events
  <2> QED BY <2>1, <2>2, <2>3 DEF NoFillLogged
<1>8. CASE Call
  <2>1. ASSUME NEW market_id, CancelAllOrders(market_id)
        PROVE  UNCHANGED log
    BY <2>1 DEF CancelAllOrders, sequencer_vars
  <2> QED BY <1>2, <1>3, <1>5, <1>7, <1>8, <2>1 DEF Call, CancelByClientId
<1>9. CASE NextLevel \/ EndMatch \/ MatchMaker
  BY <1>2, <1>9 DEF NextLevel, EndMatch, MatchMaker, sequencer_vars
<1>10. CASE UNCHANGED vars
  BY <1>2, <1>10 DEF vars, sequencer_vars
<1> QED BY <1>4, <1>6, <1>8, <1>9, <1>10 DEF Next, Continue

(* Every step of the engine keeps FillInv.                                 *)
LEMMA FillStep ==
  ASSUME EngineInv, QueueInv, LogGapless, LogInv, NoncesRise, FillInv, [Next]_vars
  PROVE  FillInv'
<1>1. CASE MatchMaker
  BY <1>1, MatchMakerFillInv
<1>2. CASE RecordFill
  BY <1>2, RecordFillFillInv
<1>3. CASE ~MatchMaker /\ ~RecordFill
  <2>1. FilledKept /\ NoFillLogged
    BY <1>3, StepFilledKept, StepNoFillLogged
  <2>2. ASSUME NEW signed \in SignedOrders, NEW now_ms \in Times, ProcessOrder(signed, now_ms)
        PROVE  FillInv'
    BY <2>1, <2>2, ProcessOrderFillInv
  <2>3. ASSUME NoAcceptance, UNCHANGED <<fills, filled_amounts>>,
               InProcessOrder' => InProcessOrder /\ taker' = taker
        PROVE  FillInv'
    BY <2>1, <2>3, QuietStep
  <2>4. \/ \E signed \in SignedOrders, now_ms \in Times : ProcessOrder(signed, now_ms)
        \/ /\ UNCHANGED <<fills, filled_amounts>>
           /\ InProcessOrder' => InProcessOrder /\ taker' = taker
    <3>1. CASE NextLevel \/ EndMatch
      BY <3>1 DEF NextLevel, EndMatch, store_vars, InProcessOrder
    <3>2. CASE FinishOrder \/ CancelNext
      BY <3>2 DEF FinishOrder, CancelNext, InProcessOrder, matching_vars
    <3>3. ASSUME NEW id, NEW trader_id, ProcessCancel(id, trader_id)
          PROVE  UNCHANGED <<fills, filled_amounts, stage, taker>>
      BY <3>3 DEF ProcessCancel, matching_vars
    <3>4. ASSUME NEW market_id, \/ PauseMarket(market_id) \/ ResumeMarket(market_id)
          PROVE  UNCHANGED <<fills, filled_amounts, stage, taker>>
      BY <3>4 DEF PauseMarket, ResumeMarket, SetStatus, matching_vars, store_vars
    <3>5. ASSUME NEW market_id, CancelAllOrders(market_id)
          PROVE  UNCHANGED <<fills, filled_amounts, taker>> /\ ~InProcessOrder'
      BY <3>5 DEF CancelAllOrders, matching_vars, store_vars, InProcessOrder
    <3>6. CASE UNCHANGED vars
      BY <3>6 DEF vars, matching_vars, store_vars, InProcessOrder
    <3>7. CASE Call
      BY <3>3, <3>4, <3>5, <3>7 DEF Call, CancelByClientId, InProcessOrder
    <3> QED BY <1>3, <3>1, <3>2, <3>6, <3>7 DEF Next, Continue
  <2> QED BY <2>2, <2>3, <2>4, StepInv
<1> QED BY <1>1, <1>2, <1>3

(* In every reachable state the books, the call in progress, the state     *)
(* store and the log agree on the lots each order has traded.              *)
THEOREM SpecFillInv == Spec => []FillInv
<1>1. ASSUME Init PROVE FillInv
  <2>1. Accepted = {} /\ ~InProcessOrder /\ \A m, id : ~OnBook(m, id)
    BY <1>1 DEF Init, Accepted, InProcessOrder, OnBook, new_book
  <2>2. AmountsFresh
    BY <1>1 DEF Init, AmountsFresh
  <2> QED BY <2>1, <2>2 DEF FillInv, OrdersCounted, AmountsLogged, SizesRespected
<1>2. EngineInv /\ QueueInv /\ LogGapless /\ LogInv /\ NoncesRise /\ FillInv /\ [Next]_vars => FillInv'
  BY FillStep
<1> QED BY <1>1, <1>2, SpecEngineInv, SpecQueueInv, SpecLogGapless, SpecLogInv, SpecNoncesRise,
           PTL DEF Spec

(* What the state store, the log and the order itself say of what an order *)
(* has traded is the same, for every order ever accepted, and is within    *)
(* its size.                                                               *)
THEOREM SpecFillAccounting == Spec => []FillAccounting
<1>1. ASSUME EngineInv, FillInv PROVE FillAccounting
  <2> SUFFICES ASSUME NEW i \in Accepted, NEW order, order = OrderAt(i),
                      NEW live, live = IF taker # NoOrder /\ taker.order_id = order.order_id
                                       THEN taker ELSE find_order(order.order_id)
               PROVE  /\ filled_amounts[order.order_hash] = LogFilled(order.order_id)
                      /\ filled_amounts[order.order_hash] <= order.signed.size_lots
                      /\ live # NoOrder =>
                           live.filled_size_lots
                             = LogFilled(order.order_id) + PendingFilled(order.order_id)
    BY DEF FillAccounting
  <2>1. AmountLogged(order) /\ SizeRespected(order)
    BY <1>1 DEF FillInv, AmountsLogged, SizesRespected
  <2>2. LogFilled(order.order_id) \in Nat /\ PendingFilled(order.order_id) \in Nat
    BY <1>1, LogFilledType, PendingFilledType DEF EngineInv, TypeOK, CallTypes
  <2>3. order.signed.size_lots \in Nat
    <3>1. order.signed \in SignedOrders
      BY <1>1, AcceptedOrder DEF Orders
    <3> QED BY <3>1, SignedOrderType
  <2>4. filled_amounts[order.order_hash] <= order.signed.size_lots
    BY <2>1, <2>2, <2>3 DEF AmountLogged, SizeRespected, Traded
  <2>5. ASSUME live # NoOrder
        PROVE  Counted(live) /\ live.order_id = order.order_id
    <3>1. CASE taker # NoOrder /\ taker.order_id = order.order_id
      BY <1>1, <3>1 DEF EngineInv, CallFits, FillInv, OrdersCounted
    <3>2. CASE ~(taker # NoOrder /\ taker.order_id = order.order_id)
      <4>1. PICK m, id : /\ id = order.order_id /\ OnBook(m, id) /\ live = OrderOn(m, id)
        BY <2>5, <3>2 DEF find_order, OnBook, OrderOn
      <4> QED BY <1>1, <4>1, OnBookOrder DEF FillInv, OrdersCounted
    <3> QED BY <3>1, <3>2
  <2> QED BY <2>1, <2>4, <2>5 DEF AmountLogged, Counted, Traded
<1> QED BY <1>1, SpecEngineInv, SpecFillInv, PTL

-----------------------------------------------------------------------------
(* No order is lost *)

\* Cancelled by its trader or by self-trade prevention: for good.
Ended(id) == CancelledFor(id, {"trader_request", "self_trade_prevention"})

\* An order's status says whether it is filled.
StatusTells(order) == order.status = "filled" <=> order.filled_size_lots = order.signed.size_lots

\* An order on its book says whether it was cancelled, too.
OnBookPlaced(order) ==
  /\ StatusTells(order) /\ order.status # "cancelled_stp"
  /\ order.status = "cancelled" <=> Ended(order.order_id)

TakerPlaced == StatusTells(taker) /\ taker.status # "cancelled" /\ ~Ended(taker.order_id)

\* An order that no book holds, and that is not in process, has come to one end.
Elsewhere(id) == (\A m : ~OnBook(m, id)) /\ ~(InProcessOrder /\ id = taker.order_id)

Settled(order) == Traded(order.order_id) = order.signed.size_lots <=> ~Ended(order.order_id)

PlacesInv ==
  /\ DOMAIN books = Markets
  /\ InProcessOrder => TakerPlaced
  /\ \A m, id : OnBook(m, id) => OnBookPlaced(OrderOn(m, id))
  /\ \A i \in Accepted : Elsewhere(OrderAt(i).order_id) => Settled(OrderAt(i))

\* The reasons that end an order for good.
EndReasons == {"trader_request", "self_trade_prevention"}

\* A step that logs no cancellation but cancel_all_orders', which ends nothing.
NoEndLogged ==
  UNCHANGED log \/ \E event \in Events :
                     /\ ~(event.type = "order_cancelled" /\ event.reason \in EndReasons)
                     /\ append_event(event)

(* What a new event makes of the orders that have ended.                   *)
LEMMA EndedAfter ==
  ASSUME SequencerTypes, NEW event \in Events, append_event(event), NEW id
  PROVE  Ended(id)' <=> \/ Ended(id)
                        \/ /\ event.type = "order_cancelled" /\ event.reason \in EndReasons
                           /\ event.order_id = id
<1>1. PICK last : last = Len(log) + 1
  OBVIOUS
<1>2. /\ log'[last] = [seq_id |-> next_seq_id, event |-> event]
      /\ DOMAIN log = 1..Len(log) /\ DOMAIN log' = 1..Len(log) + 1 /\ Len(log) \in Nat
      /\ \A i \in DOMAIN log : log'[i] = log[i]
  BY <1>1, AppendEventType
<1>3. log'[last].event = event /\ last \in DOMAIN log' /\ last \notin DOMAIN log
      /\ DOMAIN log' = DOMAIN log \cup {last}
  BY <1>1, <1>2
<1>4. \A i \in DOMAIN log : i \in CancelPositions' <=> i \in CancelPositions
  BY <1>2, <1>3 DEF CancelPositions
<1>5. last \in CancelPositions' <=> event.type = "order_cancelled"
  BY <1>3 DEF CancelPositions
<1>6. Ended(id)' <=> \E i \in CancelPositions' :
                       log'[i].event.order_id = id /\ log'[i].event.reason \in EndReasons
  BY DEF Ended, CancelledFor, EndReasons
<1>7. Ended(id) <=> \E i \in CancelPositions :
                       log[i].event.order_id = id /\ log[i].event.reason \in EndReasons
  BY DEF Ended, CancelledFor, EndReasons
<1>8. CancelPositions \subseteq DOMAIN log /\ CancelPositions' \subseteq DOMAIN log'
  BY DEF CancelPositions
<1> QED BY <1>2, <1>3, <1>4, <1>5, <1>6, <1>7, <1>8

(* Only a cancellation that ends an order ends one.                        *)
LEMMA EndedKept ==
  ASSUME SequencerTypes, NoEndLogged, NEW id
  PROVE  Ended(id)' <=> Ended(id)
<1>1. CASE UNCHANGED log
  BY <1>1 DEF Ended, CancelledFor, CancelPositions
<1>2. ASSUME NEW event \in Events, append_event(event),
             ~(event.type = "order_cancelled" /\ event.reason \in EndReasons)
      PROVE  Ended(id)' <=> Ended(id)
  BY <1>2, EndedAfter
<1> QED BY <1>1, <1>2 DEF NoEndLogged

(* A cancellation for good ends its order, and no other.                   *)
LEMMA EndedByCancellation ==
  ASSUME SequencerTypes, NEW gone \in OrderIds, NEW hash \in Hashes, NEW reason \in EndReasons,
         append_event(OrderCancelled(gone, hash, reason)), NEW id
  PROVE  Ended(id)' <=> Ended(id) \/ id = gone
<1> DEFINE event == OrderCancelled(gone, hash, reason)
<1>1. /\ event \in Events /\ event.type = "order_cancelled"
      /\ event.order_id = gone /\ event.reason = reason
  BY DEF OrderCancelled, Events, EndReasons, CancelReasons
<1> HIDE DEF event
<1>2. append_event(event)
  BY DEF event
<1> QED BY <1>1, <1>2, EndedAfter

\* A step that leaves the books' orders, the call and what was traded alone.
BooksKept ==
  /\ DOMAIN books' = DOMAIN books
  /\ \A m, id : /\ OnBook(m, id)' <=> OnBook(m, id)
                /\ OnBook(m, id) => OrderOn(m, id)' = OrderOn(m, id)

AcceptancesKept == Accepted' = Accepted /\ \A i \in Accepted : log'[i] = log[i]

(* A step that moves, trades and ends no order keeps PlacesInv.            *)
LEMMA PlacesKept ==
  ASSUME PlacesInv, BooksKept, AcceptancesKept, \A id : Traded(id)' = Traded(id),
         \A id : Ended(id)' <=> Ended(id),
         InProcessOrder' <=> InProcessOrder, InProcessOrder => taker' = taker
  PROVE  PlacesInv'
<1>1. (InProcessOrder => TakerPlaced)'
  BY DEF PlacesInv, TakerPlaced, StatusTells
<1>2. ASSUME NEW m, NEW id, OnBook(m, id)' PROVE OnBookPlaced(OrderOn(m, id))'
  <2>1. PICK order : order = OrderOn(m, id)
    OBVIOUS
  <2>2. OnBookPlaced(order) /\ order = OrderOn(m, id)'
    BY <1>2, <2>1 DEF PlacesInv, BooksKept
  <2> QED BY <2>2 DEF OnBookPlaced, StatusTells
<1>3. ASSUME NEW i \in Accepted', Elsewhere(OrderAt(i).order_id)'
      PROVE  Settled(OrderAt(i))'
  <2>1. PICK order : order = OrderAt(i)
    OBVIOUS
  <2>2. i \in Accepted /\ order = OrderAt(i)'
    BY <2>1 DEF AcceptancesKept, OrderAt
  <2>3. Elsewhere(order.order_id)
    BY <1>3, <2>2 DEF Elsewhere, BooksKept
  <2>4. Settled(order)
    BY <2>1, <2>2, <2>3 DEF PlacesInv
  <2> QED BY <2>2, <2>4 DEF Settled
<1>4. (DOMAIN books = Markets)'
  BY DEF PlacesInv, BooksKept
<1> QED BY <1>1, <1>2, <1>3, <1>4 DEF PlacesInv

(* A turn of the loop: the maker and the taker say whether they are filled *)
(* now, and neither was cancelled.                                         *)
LEMMA MatchMakerPlaces ==
  ASSUME EngineInv, QueueInv, FillInv, PlacesInv, MatchMaker
  PROVE  PlacesInv'
<1> DEFINE market_id == taker.signed.market_id
           first == Head(maker_ids)
<1>1. PICK maker : maker = books[market_id].orders[first]
  OBVIOUS
<1>2. /\ InProcessOrder /\ Wants(taker) /\ market_id \in DOMAIN books
      /\ first \in DOMAIN books[market_id].orders
      /\ maker \in Orders /\ maker.order_id = first
      /\ maker.filled_size_lots <= maker.signed.size_lots /\ remaining_size_lots(maker) > 0
      /\ StpCancelTaker(maker) \/ FillMaker(maker)
  BY <1>1, MatchMakerMeets
<1>3. taker \in Orders /\ UNCHANGED <<log, stage>> /\ InProcessOrder'
  BY <1>2 DEF EngineInv, CallFits, MatchMaker, sequencer_vars, InProcessOrder
<1>4. \A id : Ended(id)' <=> Ended(id)
  BY <1>3 DEF Ended, CancelledFor, CancelPositions
<1>5. Accepted' = Accepted /\ \A i \in Accepted : log'[i] = log[i]
  BY <1>3 DEF Accepted
<1>6. TakerPlaced /\ taker.status # "cancelled" /\ ~Ended(taker.order_id)
  BY <1>2 DEF PlacesInv, TakerPlaced
<1>7. taker'.order_id = taker.order_id
  BY <1>2, <1>3 DEF StpCancelTaker, FillMaker, after_fill, Orders
<1>8. TakerPlaced'
  <2>1. CASE StpCancelTaker(maker)
    <3>1. /\ taker'.status = "cancelled_stp" /\ taker'.order_id = taker.order_id
          /\ taker'.filled_size_lots = taker.filled_size_lots
          /\ taker'.signed = taker.signed
      BY <1>3, <2>1 DEF StpCancelTaker, Orders
    <3>2. taker.filled_size_lots # taker.signed.size_lots
      <4>1. taker.filled_size_lots \in Nat /\ remaining_size_lots(taker) > 0
        BY <1>2, <1>3 DEF Wants, Orders
      <4> QED BY <4>1 DEF remaining_size_lots
    <3> QED BY <1>4, <1>6, <3>1, <3>2 DEF TakerPlaced, StatusTells
  <2>2. CASE FillMaker(maker)
    <3>1. PICK qty : taker' = after_fill(taker, qty, taker.created_sequence)
      BY <2>2 DEF FillMaker
    <3>2. /\ StatusTells(taker)' /\ taker'.status \in {"filled", "partially_filled"}
      BY <1>3, <3>1 DEF after_fill, StatusTells, Orders
    <3> QED BY <1>4, <1>6, <1>7, <3>2 DEF TakerPlaced
  <2> QED BY <1>2, <2>1, <2>2
<1>9. ASSUME NEW m, NEW id, OnBook(m, id)'
      PROVE  OnBookPlaced(OrderOn(m, id))'
  <2>1. PICK order, after : order = OrderOn(m, id) /\ after = OrderOn(m, id)'
    OBVIOUS
  <2>2. OnBook(m, id) /\ order \in Orders /\ order.order_id = id /\ OnBookPlaced(order)
    BY <1>9, <2>1, MatchMakerOrders, OnBookOrder DEF PlacesInv
  <2>3. CASE after = order
    BY <1>4, <2>1, <2>2, <2>3 DEF OnBookPlaced, StatusTells
  <2>4. CASE /\ m = market_id /\ id = first
             /\ after = after_fill(order, fill_qty(order), taker.created_sequence)
    <3>1. order = maker
      BY <1>1, <2>1, <2>4 DEF OrderOn
    <3>2. ~is_closed(order)
      <4>1. RestsAt(maker, Opposite(taker.signed.side), price)
        BY <1>1, MatchMakerMeets
      <4> QED BY <3>1, <4>1 DEF RestsAt
    <3>3. ~Ended(id)
      BY <2>2, <3>2 DEF OnBookPlaced, is_closed
    <3>4. PICK qty : qty = fill_qty(order)
      OBVIOUS
    <3>5. /\ StatusTells(after) /\ after.status \in {"filled", "partially_filled"}
          /\ after.order_id = id
      BY <2>2, <2>4, <3>4 DEF after_fill, StatusTells, Orders
    <3>6. OnBookPlaced(OrderOn(m, id))' <=>
            /\ StatusTells(after) /\ after.status # "cancelled_stp"
            /\ after.status = "cancelled" <=> Ended(after.order_id)'
      BY <2>1 DEF OnBookPlaced, StatusTells
    <3> QED BY <1>4, <3>3, <3>5, <3>6
  <2> QED BY <2>1, <2>2, <2>3, <2>4, MatchMakerOrders
<1>10. ASSUME NEW i \in Accepted, Elsewhere(OrderAt(i).order_id)'
       PROVE  Settled(OrderAt(i))'
  <2>1. PICK order : order = OrderAt(i)
    OBVIOUS
  <2>2. order = OrderAt(i)'
    BY <1>5, <2>1 DEF OrderAt
  <2>3. Elsewhere(order.order_id)
    <3>1. \A m : ~OnBook(m, order.order_id)
      BY <1>10, <2>2, MatchMakerOrders DEF Elsewhere
    <3>2. order.order_id # taker.order_id
      BY <1>3, <1>7, <1>10, <2>2 DEF Elsewhere
    <3> QED BY <3>1, <3>2 DEF Elsewhere
  <2>4. Settled(order)
    BY <2>1, <2>3 DEF PlacesInv
  <2>5. Traded(order.order_id)' = Traded(order.order_id)
    <3>1. order.order_id # taker.order_id /\ \A m : ~OnBook(m, order.order_id)
      BY <1>2, <2>3 DEF Elsewhere
    <3> QED BY <3>1, MatchMakerCounts DEF FillInv
  <2> QED BY <1>4, <2>2, <2>4, <2>5 DEF Settled
<1>11. (DOMAIN books = Markets)'
  <2>1. DOMAIN books' = DOMAIN books
    BY <1>2 DEF StpCancelTaker, FillMaker
  <2> QED BY <2>1 DEF PlacesInv
<1> QED BY <1>5, <1>8, <1>9, <1>10, <1>11 DEF PlacesInv

(* The end of process_order: the taker rests, or is filled, or was         *)
(* cancelled and the log says so now.                                      *)
LEMMA FinishOrderPlaces ==
  ASSUME EngineInv, QueueInv, LogInv, NoncesRise, FillInv, PlacesInv, FinishOrder
  PROVE  PlacesInv'
<1>1. PICK order : order = taker
  OBVIOUS
<1>2. /\ InProcessOrder /\ ~InProcessOrder' /\ UNCHANGED fills
      /\ IF order.status = "cancelled_stp"
         THEN append_event(OrderCancelled(order.order_id, order.order_hash, "self_trade_prevention"))
         ELSE UNCHANGED log
  BY <1>1 DEF FinishOrder, InProcessOrder
<1>3. /\ order \in Orders /\ order.signed.market_id \in DOMAIN books
      /\ order.filled_size_lots <= order.signed.size_lots
      /\ AcceptedAs(order) /\ TakerPlaced /\ Counted(order)
  BY <1>1, <1>2 DEF EngineInv, CallFits, LogInv, CallRecorded, PlacesInv, FillInv, OrdersCounted
<1>4. /\ order.order_id \in OrderIds /\ order.order_hash \in Hashes
      /\ order.filled_size_lots \in Nat /\ order.signed.size_lots \in Nat
      /\ order.status \in OrderStatuses
  BY <1>3, SignedOrderType DEF Orders
<1>5. \A id : Traded(id)' = Traded(id)
  <2>1. NoFillLogged
    BY StepNoFillLogged DEF Next, Continue, FinishOrder, RecordFill
  <2> QED BY <1>2, <2>1, NothingMoved DEF EngineInv, TypeOK
<1>6. \A id : Ended(id)' <=> Ended(id) \/ (id = order.order_id /\ order.status = "cancelled_stp")
  <2>1. CASE order.status = "cancelled_stp"
    BY <1>2, <1>4, <2>1, EndedByCancellation DEF EngineInv, TypeOK, EndReasons
  <2>2. CASE order.status # "cancelled_stp"
    BY <1>2, <2>2 DEF Ended, CancelledFor, CancelPositions
  <2> QED BY <2>1, <2>2
<1>7. Accepted' = Accepted /\ \A i \in Accepted : log'[i] = log[i]
  BY FinishOrderInv, AcceptedKept
<1>8. ASSUME NEW m, NEW id, OnBook(m, id)'
      PROVE  OnBookPlaced(OrderOn(m, id))'
  <2>1. PICK after : after = OrderOn(m, id)'
    OBVIOUS
  <2>2. OnBookPlaced(OrderOn(m, id))' <=>
          /\ StatusTells(after) /\ after.status # "cancelled_stp"
          /\ after.status = "cancelled" <=> Ended(after.order_id)'
    BY <2>1 DEF OnBookPlaced, StatusTells
  <2>3. CASE OnBook(m, id)
    <3>1. after = OrderOn(m, id)
      BY <2>1, <2>3, FinishOrderOrders
    <3>2. OnBookPlaced(after) /\ after.order_id = id
      BY <2>3, <3>1, OnBookOrder DEF PlacesInv
    <3>3. id # order.order_id
      BY <1>1, <2>3, FinishOrderOrders
    <3> QED BY <1>6, <2>2, <3>2, <3>3 DEF OnBookPlaced
  <2>4. CASE Wants(taker) /\ after = taker
    <3>1. ~is_closed(order) /\ after = order
      BY <1>1, <2>4 DEF Wants
    <3> QED BY <1>1, <1>3, <1>6, <2>2, <3>1 DEF TakerPlaced, is_closed
  <2> QED BY <1>8, <2>1, <2>3, <2>4, FinishOrderOrders
<1>9. ASSUME NEW i \in Accepted, Elsewhere(OrderAt(i).order_id)'
      PROVE  Settled(OrderAt(i))'
  <2>1. PICK one : one = OrderAt(i)
    OBVIOUS
  <2>2. one = OrderAt(i)'
    BY <1>7, <2>1 DEF OrderAt
  <2>3. \A m : ~OnBook(m, one.order_id)' /\ ~OnBook(m, one.order_id)
    BY <1>9, <2>2, FinishOrderOrders DEF Elsewhere
  <2>4. CASE one.order_id # order.order_id
    <3>1. Settled(one)
      BY <1>1, <2>1, <2>3, <2>4 DEF PlacesInv, Elsewhere
    <3> QED BY <1>5, <1>6, <2>2, <2>4, <3>1 DEF Settled
  <2>5. CASE one.order_id = order.order_id
    <3>1. one.signed = order.signed
      BY <1>3, <2>1, <2>5, AcceptedAsOrder
    <3>2. ~Wants(taker)
      BY <1>1, <2>3, <2>5, FinishOrderOrders
    <3>3. order.status \in {"filled", "cancelled_stp"} \/ remaining_size_lots(order) = 0
      <4>1. remaining_size_lots(order) > 0 \/ remaining_size_lots(order) = 0
        BY <1>3, <1>4 DEF remaining_size_lots
      <4> QED BY <1>1, <1>3, <3>2, <4>1 DEF Wants, is_closed, TakerPlaced
    <3>4. order.filled_size_lots = order.signed.size_lots <=> order.status # "cancelled_stp"
      BY <1>1, <1>3, <1>4, <3>3 DEF remaining_size_lots, TakerPlaced, StatusTells
    <3>5. ~Ended(order.order_id)
      BY <1>1, <1>3 DEF TakerPlaced
    <3> QED BY <1>3, <1>5, <1>6, <2>2, <2>5, <3>1, <3>4, <3>5 DEF Settled, Counted
  <2> QED BY <2>4, <2>5
<1>10. (DOMAIN books = Markets)'
  <2>1. DOMAIN books' = DOMAIN books
    BY DEF FinishOrder, RestResidual
  <2> QED BY <2>1 DEF PlacesInv
<1> QED BY <1>2, <1>7, <1>8, <1>9, <1>10 DEF PlacesInv

(* A trader's cancellation: the order on its book and the log both say so. *)
LEMMA ProcessCancelPlaces ==
  ASSUME EngineInv, QueueInv, PlacesInv, NEW gone, NEW trader_id, ProcessCancel(gone, trader_id)
  PROVE  PlacesInv'
<1>1. /\ ~InProcessOrder /\ ~InProcessOrder' /\ UNCHANGED fills
      /\ find_order(gone) # NoOrder /\ ~is_closed(find_order(gone))
      /\ append_event(OrderCancelled(gone, find_order(gone).order_hash, "trader_request"))
  BY DEF ProcessCancel, InProcessOrder, matching_vars
<1>2. PICK order : order = find_order(gone)
  OBVIOUS
<1>3. PICK market_id : OnBook(market_id, gone) /\ order = OrderOn(market_id, gone)
  BY <1>1, <1>2 DEF find_order, OnBook, OrderOn
<1>4. /\ order \in Orders /\ order.order_id = gone /\ ~is_closed(order)
      /\ order.order_id \in OrderIds /\ order.order_hash \in Hashes
  BY <1>1, <1>2, <1>3, OnBookOrder DEF Orders
<1>5. \A id : Ended(id)' <=> Ended(id) \/ id = gone
  BY <1>1, <1>2, <1>4, EndedByCancellation DEF EngineInv, TypeOK, EndReasons
<1>6. \A id : Traded(id)' = Traded(id)
  <2>1. NoFillLogged
    BY <1>1, <1>2, <1>4, CancellationLogged DEF CancelReasons
  <2> QED BY <1>1, <2>1, NothingMoved DEF EngineInv, TypeOK
<1>7. Accepted' = Accepted /\ \A i \in Accepted : log'[i] = log[i]
  BY ProcessCancelInv, AcceptedKept
<1>8. ASSUME NEW m, NEW id, OnBook(m, id)'
      PROVE  OnBookPlaced(OrderOn(m, id))'
  <2>1. PICK before, after : before = OrderOn(m, id) /\ after = OrderOn(m, id)'
    OBVIOUS
  <2>2. OnBookPlaced(OrderOn(m, id))' <=>
          /\ StatusTells(after) /\ after.status # "cancelled_stp"
          /\ after.status = "cancelled" <=> Ended(after.order_id)'
    BY <2>1 DEF OnBookPlaced, StatusTells
  <2>3. OnBook(m, id) /\ before \in Orders /\ before.order_id = id /\ OnBookPlaced(before)
    BY <1>8, <2>1, ProcessCancelOrders, OnBookOrder DEF PlacesInv
  <2>4. CASE id # gone /\ after = before
    BY <1>5, <2>2, <2>3, <2>4 DEF OnBookPlaced
  <2>5. CASE /\ id = gone /\ find_order(gone) = before
             /\ after = [before EXCEPT !.status = "cancelled"]
    <3>1. /\ after.status = "cancelled" /\ after.order_id = gone /\ after.signed = before.signed
          /\ after.filled_size_lots = before.filled_size_lots
      BY <2>3, <2>5 DEF Orders
    <3>2. ~is_closed(before)
      BY <1>1, <2>5
    <3>3. before.filled_size_lots # before.signed.size_lots
      BY <2>3, <3>2 DEF OnBookPlaced, StatusTells, is_closed
    <3> QED BY <1>5, <2>2, <3>1, <3>3 DEF StatusTells
  <2> QED BY <2>1, <2>3, <2>4, <2>5, ProcessCancelOrders
<1>9. ASSUME NEW i \in Accepted, Elsewhere(OrderAt(i).order_id)'
      PROVE  Settled(OrderAt(i))'
  <2>1. PICK one : one = OrderAt(i)
    OBVIOUS
  <2>2. one = OrderAt(i)'
    BY <1>7, <2>1 DEF OrderAt
  <2>3. \A m : ~OnBook(m, one.order_id)
    BY <1>9, <2>2, ProcessCancelOrders DEF Elsewhere
  <2>4. Settled(one)
    BY <1>1, <2>1, <2>3 DEF PlacesInv, Elsewhere
  <2>5. one.order_id # gone
    BY <1>3, <2>3
  <2> QED BY <1>5, <1>6, <2>2, <2>4, <2>5 DEF Settled
<1>10. (DOMAIN books = Markets)'
  <2>1. DOMAIN books' = DOMAIN books
    BY DEF ProcessCancel
  <2> QED BY <2>1 DEF PlacesInv
<1> QED BY <1>1, <1>7, <1>8, <1>9, <1>10 DEF PlacesInv

(* Acceptance: the new order is in process, open, and was never cancelled. *)
LEMMA ProcessOrderPlaces ==
  ASSUME EngineInv, QueueInv, LogInv, PlacesInv,
         NEW signed \in SignedOrders, NEW now_ms, ProcessOrder(signed, now_ms)
  PROVE  PlacesInv'
<1>1. PICK order : order = NewOrder(signed, uuids + 1)
  OBVIOUS
<1>2. PICK last : last = Len(log) + 1
  OBVIOUS
<1>3. /\ order \in Orders /\ order.signed = signed /\ order.order_id = uuids + 1 /\ uuids \in Nat
      /\ order.filled_size_lots = 0 /\ order.status = "open"
  <2>1. uuids + 1 \in OrderIds /\ next_seq_id \in Nat /\ uuids \in Nat
    BY DEF EngineInv, TypeOK, SequencerTypes, CallTypes, OrderIds
  <2>2. order \in Orders /\ order.signed = signed /\ order.order_id = uuids + 1
    BY <1>1, <2>1, NewOrderType
  <2>3. order.filled_size_lots = 0 /\ order.status = "open"
    BY <1>1 DEF NewOrder
  <2> QED BY <2>1, <2>2, <2>3
<1>4. /\ ~InProcessOrder /\ UNCHANGED <<books, fills>>
      /\ append_event([type |-> "order_accepted", order |-> order])
      /\ InProcessOrder' /\ taker' = order /\ signed.size_lots # 0
  <2>1. signed.market_id \in DOMAIN books
    <3>1. signed.market_id \in DOMAIN markets /\ DOMAIN markets = Markets
      BY DEF ProcessOrder, Validated, EngineInv, TypeOK, EngineTypes
    <3> QED BY <3>1 DEF PlacesInv
  <2> QED BY <1>1, <2>1 DEF ProcessOrder, InProcessOrder, Validated, validate_fields
<1> DEFINE event == [type |-> "order_accepted", order |-> order]
<1>5. event \in Events /\ append_event(event) /\ event.type = "order_accepted"
  BY <1>3, <1>4 DEF Events
<1>6. /\ Accepted' = Accepted \cup {last} /\ log'[last].event.order = order
      /\ \A i \in Accepted : log'[i] = log[i]
  BY <1>2, <1>3, <1>5, AcceptedAppended
<1> HIDE DEF event
<1>7. \A id : Traded(id)' = Traded(id) /\ (Ended(id)' <=> Ended(id))
  <2>1. NoFillLogged /\ NoEndLogged /\ SequencerTypes
    BY <1>5 DEF NoFillLogged, NoEndLogged, EngineInv, TypeOK
  <2> QED BY <1>4, <2>1, NothingMoved, EndedKept
<1>8. ~Ended(order.order_id)
  <2>1. ASSUME NEW i \in CancelPositions PROVE log[i].event.order_id # order.order_id
    <3>1. PICK j \in Accepted : OrderAt(j).order_id = log[i].event.order_id
      BY DEF LogInv, CancelFollows, Recorded
    <3>2. OrderAt(j).order_id <= uuids /\ OrderAt(j).order_id \in Nat
      BY AcceptedOrder DEF LogInv, AcceptancesSound, Orders, OrderIds
    <3> QED BY <1>3, <3>1, <3>2
  <2> QED BY <2>1 DEF Ended, CancelledFor
<1>9. TakerPlaced'
  BY <1>3, <1>4, <1>7, <1>8 DEF TakerPlaced, StatusTells
<1>10. ASSUME NEW m, NEW id, OnBook(m, id)'
       PROVE  OnBookPlaced(OrderOn(m, id))'
  <2>1. PICK before : before = OrderOn(m, id)
    OBVIOUS
  <2>2. before = OrderOn(m, id)' /\ OnBookPlaced(before)
    BY <1>4, <1>10, <2>1 DEF OnBook, OrderOn, PlacesInv
  <2> QED BY <1>7, <2>2 DEF OnBookPlaced, StatusTells
<1>11. ASSUME NEW i \in Accepted', Elsewhere(OrderAt(i).order_id)'
       PROVE  Settled(OrderAt(i))'
  <2>1. i \in Accepted
    <3>1. i # last
      BY <1>4, <1>6, <1>11 DEF Elsewhere, OrderAt
    <3> QED BY <1>6, <3>1
  <2>2. PICK one : one = OrderAt(i)
    OBVIOUS
  <2>3. one = OrderAt(i)'
    BY <1>6, <2>1, <2>2 DEF OrderAt
  <2>4. Elsewhere(one.order_id)
    BY <1>4, <1>11, <2>3 DEF Elsewhere, OnBook
  <2>5. Settled(one)
    BY <2>1, <2>2, <2>4 DEF PlacesInv
  <2> QED BY <1>7, <2>3, <2>5 DEF Settled
<1> QED BY <1>4, <1>9, <1>10, <1>11 DEF PlacesInv

(* The steps that end no order for good.                                   *)
LEMMA CancelNextEndsNothing ==
  ASSUME EngineInv, CancelNext
  PROVE  NoEndLogged
<1>1. PICK i \in to_cancel :
        append_event(OrderCancelled(log[i].event.order.order_id,
                                    log[i].event.order.order_hash, "admin_force"))
  BY DEF CancelNext
<1>2. PICK order : order = log[i].event.order
  OBVIOUS
<1>3. order.order_id \in OrderIds /\ order.order_hash \in Hashes
  BY <1>2, AcceptedOrder DEF EngineInv, CallFits, OrderAt, Orders
<1>4. PICK event : event = OrderCancelled(order.order_id, order.order_hash, "admin_force")
  OBVIOUS
<1>5. event \in Events /\ event.reason \notin EndReasons
  BY <1>3, <1>4 DEF OrderCancelled, Events, CancelReasons, EndReasons
<1> QED BY <1>1, <1>2, <1>4, <1>5 DEF NoEndLogged

(* Pausing and resuming leaves every order where it is.                    *)
LEMMA SetStatusPlaces ==
  ASSUME EngineInv, PlacesInv, NEW market_id \in Markets, NEW from, NEW to \in MarketStatuses,
         NEW type \in {"market_paused", "market_resumed"}, SetStatus(market_id, from, to, type)
  PROVE  PlacesInv'
<1>1. append_event([type |-> type, market_id |-> market_id]) /\ UNCHANGED <<stage, taker, fills>>
  BY DEF SetStatus, matching_vars
<1>2. PICK event : event = [type |-> type, market_id |-> market_id]
  OBVIOUS
<1>3. event \in Events /\ event.type \notin {"fill", "order_cancelled"}
  BY <1>2 DEF Events
<1>4. NoFillLogged /\ NoEndLogged
  BY <1>1, <1>2, <1>3 DEF NoFillLogged, NoEndLogged
<1>5. \A id : Traded(id)' = Traded(id) /\ (Ended(id)' <=> Ended(id))
  BY <1>1, <1>4, NothingMoved, EndedKept DEF EngineInv, TypeOK
<1>6. AcceptancesKept
  BY SetStatusInv, AcceptedKept DEF AcceptancesKept
<1>7. BooksKept
  <2>1. DOMAIN books' = DOMAIN books
    BY DEF SetStatus, add_market, PlacesInv
  <2> QED BY <2>1, SetStatusOrders DEF BooksKept
<1>8. (InProcessOrder' <=> InProcessOrder) /\ taker' = taker
  BY <1>1 DEF InProcessOrder
<1> QED BY <1>5, <1>6, <1>7, <1>8, PlacesKept

(* Every step of the engine keeps PlacesInv.                               *)
LEMMA PlacesStep ==
  ASSUME EngineInv, QueueInv, LogGapless, LogInv, NoncesRise, FillInv, PlacesInv, [Next]_vars
  PROVE  PlacesInv'
<1>1. ASSUME UNCHANGED books, NoAcceptance, NoEndLogged, \A id : Traded(id)' = Traded(id),
             InProcessOrder' <=> InProcessOrder, taker' = taker
      PROVE  PlacesInv'
  <2>1. BooksKept
    BY <1>1 DEF BooksKept, OnBook, OrderOn
  <2>2. AcceptancesKept
    BY <1>1, AcceptedKept DEF AcceptancesKept
  <2>3. \A id : Ended(id)' <=> Ended(id)
    BY <1>1, EndedKept DEF EngineInv, TypeOK
  <2> QED BY <1>1, <2>1, <2>2, <2>3, PlacesKept
<1>2. ASSUME UNCHANGED <<books, log, fills, taker>>, NoAcceptance, InProcessOrder' <=> InProcessOrder
      PROVE  PlacesInv'
  <2>1. NoFillLogged /\ NoEndLogged
    BY <1>2 DEF NoFillLogged, NoEndLogged
  <2>2. \A id : Traded(id)' = Traded(id)
    BY <1>2, <2>1, NothingMoved DEF EngineInv, TypeOK
  <2> QED BY <1>1, <1>2, <2>1, <2>2
<1>3. CASE MatchMaker
  BY <1>3, MatchMakerPlaces
<1>4. CASE FinishOrder
  BY <1>4, FinishOrderPlaces
<1>5. CASE NextLevel \/ EndMatch
  BY <1>2, <1>5, NextLevelInv, EndMatchInv
     DEF NextLevel, EndMatch, engine_vars, sequencer_vars, InProcessOrder
<1>6. CASE RecordFill
  <2>1. PICK fill \in Fills : append_event([type |-> "fill", fill |-> fill]) /\ fill = Head(fills)
                               /\ fills # << >> /\ fills' = Tail(fills)
    <3>1. fills \in Seq(Fills) /\ fills # << >>
      BY <1>6 DEF RecordFill, EngineInv, TypeOK, CallTypes
    <3>2. Head(fills) \in Fills
      BY <3>1, HeadTailProperties
    <3> QED BY <1>6, <3>2 DEF RecordFill
  <2>2. PICK event : event = [type |-> "fill", fill |-> fill]
    OBVIOUS
  <2>3. event \in Events /\ event.type = "fill" /\ event.fill = fill
    BY <2>2 DEF Events
  <2>4. NoEndLogged
    BY <2>1, <2>2, <2>3 DEF NoEndLogged
  <2>5. ASSUME NEW id PROVE Traded(id)' = Traded(id)
    <3>1. LogFilled(id)' = LogFilled(id) + Moved(fill, id) /\ LogFilled(id) \in Nat
      BY <2>1, <2>2, <2>3, LogFilledAfter DEF EngineInv, TypeOK
    <3>2. PendingFilled(id) = Moved(fill, id) + PendingFilled(id)' /\ PendingFilled(id)' \in Nat
      BY <2>1, PendingFilledBefore DEF EngineInv, TypeOK, CallTypes
    <3>3. Moved(fill, id) \in Nat
      BY MovesType
    <3> QED BY <3>1, <3>2, <3>3 DEF Traded
  <2> QED BY <1>1, <1>6, <2>4, <2>5, RecordFillInv DEF RecordFill, engine_vars, InProcessOrder
<1>7. CASE CancelNext
  <2>1. NoAcceptance /\ NoEndLogged /\ UNCHANGED <<books, taker, fills>>
        /\ (InProcessOrder' <=> InProcessOrder)
    BY <1>7, CancelNextInv, CancelNextEndsNothing
       DEF CancelNext, engine_vars, matching_vars, InProcessOrder
  <2>2. NoFillLogged
    BY <1>7, StepNoFillLogged DEF CancelNext, RecordFill
  <2>3. \A id : Traded(id)' = Traded(id)
    BY <2>1, <2>2, NothingMoved DEF EngineInv, TypeOK
  <2> QED BY <1>1, <2>1, <2>3
<1>8. CASE UNCHANGED vars
  BY <1>2, <1>8, StutterInv DEF vars, engine_vars, sequencer_vars, matching_vars, InProcessOrder
<1>9. ASSUME NEW market_id, CancelAllOrders(market_id)
      PROVE  PlacesInv'
  BY <1>2, <1>9, CancelAllOrdersInv
     DEF CancelAllOrders, engine_vars, sequencer_vars, matching_vars, InProcessOrder
<1>10. ASSUME NEW market_id \in Markets, PauseMarket(market_id) \/ ResumeMarket(market_id)
       PROVE  PlacesInv'
  BY <1>10, SetStatusPlaces DEF PauseMarket, ResumeMarket, MarketStatuses
<1>11. CASE Call
  <2>1. ASSUME NEW trader_id, NEW client_order_id, CancelByClientId(trader_id, client_order_id)
        PROVE  PlacesInv'
    BY <2>1, ProcessCancelPlaces DEF CancelByClientId
  <2> QED BY <1>9, <1>10, <1>11, <2>1, ProcessOrderPlaces, ProcessCancelPlaces DEF Call
<1>12. CASE Continue
  BY <1>3, <1>4, <1>5, <1>6, <1>7, <1>12 DEF Continue
<1> QED BY <1>8, <1>11, <1>12 DEF Next

(* In every reachable state an accepted order is on its book, in process,  *)
(* or has come to one end, and its status says which.                      *)
THEOREM SpecPlacesInv == Spec => []PlacesInv
<1>1. ASSUME Init PROVE PlacesInv
  <2>1. Accepted = {} /\ ~InProcessOrder /\ (\A m, id : ~OnBook(m, id)) /\ DOMAIN books = Markets
    BY <1>1 DEF Init, Accepted, InProcessOrder, OnBook, new_book
  <2> QED BY <2>1 DEF PlacesInv
<1>2. EngineInv /\ QueueInv /\ LogGapless /\ LogInv /\ NoncesRise /\ FillInv /\ PlacesInv /\ [Next]_vars
        => PlacesInv'
  BY PlacesStep
<1> QED BY <1>1, <1>2, SpecEngineInv, SpecQueueInv, SpecLogGapless, SpecLogInv, SpecNoncesRise,
           SpecFillInv, PTL DEF Spec

(* Looking an order up finds it where it is, and nothing elsewhere.        *)
LEMMA FindOrder ==
  ASSUME EngineInv, QueueInv, NEW id
  PROVE  /\ \A m : OnBook(m, id) => find_order(id) = OrderOn(m, id) /\ find_order(id) # NoOrder
         /\ (\A m : ~OnBook(m, id)) => find_order(id) = NoOrder
<1>1. ASSUME NEW m, OnBook(m, id)
      PROVE  find_order(id) = OrderOn(m, id) /\ find_order(id) # NoOrder
  <2>1. id \in DOMAIN order_market_index /\ order_market_index[id] = m
    BY <1>1 DEF QueueInv, IdsFresh, BookIdsFresh, OnBook
  <2>2. find_order(id) = OrderOn(m, id)
    BY <1>1, <2>1 DEF find_order, OnBook, OrderOn
  <2>3. OrderOn(m, id) \in Orders
    BY <1>1, OnBookOrder
  <2> QED BY <2>2, <2>3, NoOrderAssumption
<1>2. (\A m : ~OnBook(m, id)) => find_order(id) = NoOrder
  BY DEF find_order, OnBook
<1> QED BY <1>1, <1>2

(* One of three names.                                                     *)
LEMMA OneOfThree ==
  ASSUME NEW resting \in BOOLEAN, NEW filled \in BOOLEAN, NEW ended \in BOOLEAN,
         \/ resting /\ ~filled /\ ~ended
         \/ ~resting /\ filled /\ ~ended
         \/ ~resting /\ ~filled /\ ended
  PROVE  Cardinality({c \in {"resting", "filled", "ended"} :
                        \/ c = "resting" /\ resting
                        \/ c = "filled" /\ filled
                        \/ c = "ended" /\ ended}) = 1
<1> DEFINE names == {c \in {"resting", "filled", "ended"} :
                        \/ c = "resting" /\ resting
                        \/ c = "filled" /\ filled
                        \/ c = "ended" /\ ended}
<1>1. names = {"resting"} \/ names = {"filled"} \/ names = {"ended"}
  OBVIOUS
<1>2. \A c : Cardinality({c}) = 1
  BY FS_Singleton
<1> HIDE DEF names
<1>3. Cardinality(names) = 1
  BY <1>1, <1>2
<1> QED BY <1>3 DEF names

(* No accepted order is lost: whatever calls came, when none is in         *)
(* progress it rests in its book, or is filled, or was cancelled by its    *)
(* trader or by self-trade prevention, and never two of these.             *)
THEOREM SpecNoOrderLost == Spec => []NoOrderLost
<1>1. ASSUME EngineInv, QueueInv, LogInv, NoncesRise, FillInv, PlacesInv
      PROVE  NoOrderLost
  <2> SUFFICES ASSUME stage = "idle", NEW i \in Accepted
               PROVE  LET id == OrderAt(i).order_id
                          live == find_order(id)
                          resting == live # NoOrder /\ ~is_closed(live)
                          filled == LogFilled(id) = OrderAt(i).signed.size_lots
                          ended == CancelledFor(id, {"trader_request", "self_trade_prevention"})
                      IN Cardinality({c \in {"resting", "filled", "ended"} :
                                        \/ c = "resting" /\ resting
                                        \/ c = "filled" /\ filled
                                        \/ c = "ended" /\ ended}) = 1
    BY DEF NoOrderLost
  <2>0. PICK order, live, resting, filled, ended :
          /\ order = OrderAt(i) /\ live = find_order(order.order_id)
          /\ resting = (live # NoOrder /\ ~is_closed(live))
          /\ filled = (LogFilled(order.order_id) = order.signed.size_lots)
          /\ ended = Ended(order.order_id)
    OBVIOUS
  <2>1. PICK id : id = order.order_id
    OBVIOUS
  <2>2. ~InProcessOrder /\ fills = << >>
    BY <1>1 DEF InProcessOrder, LogInv, CallRecorded
  <2>3. Traded(id) = LogFilled(id)
    BY <1>1, <2>2, NothingPending, LogFilledType DEF Traded, EngineInv, TypeOK
  <2>4. resting \in BOOLEAN /\ filled \in BOOLEAN /\ ended \in BOOLEAN
    BY <2>0 DEF Ended, CancelledFor
  <2>5. ASSUME NEW m, OnBook(m, id)
        PROVE  \/ resting /\ ~filled /\ ~ended
               \/ ~resting /\ filled /\ ~ended
               \/ ~resting /\ ~filled /\ ended
    <3>1. live = OrderOn(m, id) /\ live # NoOrder
      BY <1>1, <2>0, <2>1, <2>5, FindOrder
    <3>2. /\ live \in Orders /\ live.order_id = id /\ OnBookPlaced(live) /\ Counted(live)
          /\ AcceptedAs(live)
      BY <1>1, <2>5, <3>1, OnBookOrder DEF PlacesInv, FillInv, OrdersCounted, LogInv, BooksRecorded
    <3>3. order.signed = live.signed
      BY <1>1, <2>0, <2>1, <3>2, AcceptedAsOrder
    <3>4. filled <=> live.status = "filled"
      BY <2>0, <2>1, <2>3, <3>2, <3>3 DEF OnBookPlaced, StatusTells, Counted
    <3>5. ended <=> live.status = "cancelled"
      BY <2>0, <2>1, <3>2 DEF OnBookPlaced
    <3>6. resting <=> live.status \notin {"filled", "cancelled"}
      BY <2>0, <3>1, <3>2 DEF OnBookPlaced, is_closed
    <3> QED BY <2>4, <3>4, <3>5, <3>6
  <2>6. ASSUME \A m : ~OnBook(m, id)
        PROVE  \/ ~resting /\ filled /\ ~ended
               \/ ~resting /\ ~filled /\ ended
    <3>1. ~resting
      BY <1>1, <2>0, <2>1, <2>6, FindOrder
    <3>2. Settled(order)
      BY <1>1, <2>0, <2>1, <2>2, <2>6 DEF PlacesInv, Elsewhere
    <3> QED BY <2>0, <2>1, <2>3, <2>4, <3>1, <3>2 DEF Settled
  <2>7. Cardinality({c \in {"resting", "filled", "ended"} :
                       \/ c = "resting" /\ resting
                       \/ c = "filled" /\ filled
                       \/ c = "ended" /\ ended}) = 1
    BY <2>4, <2>5, <2>6, OneOfThree
  <2> QED BY <2>0, <2>7 DEF Ended
<1> QED BY <1>1, SpecEngineInv, SpecQueueInv, SpecLogInv, SpecNoncesRise, SpecFillInv, SpecPlacesInv,
           PTL

-----------------------------------------------------------------------------
(* The ids of orders *)

\* Every id drawn is an accepted order's, and the taker's is the last.
IdsAccepted ==
  /\ \A id \in 1..uuids : \E i \in Accepted : OrderAt(i).order_id = id
  /\ InProcessOrder => taker.order_id = uuids

\* The acceptance of order is the last entry of the log, and its call begins.
Begins(order) ==
  /\ order.order_id = uuids + 1 /\ order.created_sequence = Len(log) + 1
  /\ order.filled_size_lots = 0 /\ order.status = "open"
  /\ ~InProcessOrder /\ taker = NoOrder /\ InProcessOrder' /\ taker' = order
  /\ uuids' = uuids + 1 /\ UNCHANGED <<books, markets>> /\ fills' = << >>
  /\ Len(log) \in Nat /\ Len(log') = Len(log) + 1 /\ Len(log) + 1 \in Accepted'
  /\ log'[Len(log) + 1].event.order = order
  /\ \E event \in Events : event.type = "order_accepted" /\ append_event(event)

(* What process_order has done when its matching begins.                   *)
LEMMA OrderBegins ==
  ASSUME EngineInv, LogGapless, LogInv, PlacesInv, NEW signed \in SignedOrders, NEW now_ms,
         ProcessOrder(signed, now_ms)
  PROVE  \E order \in Orders :
           /\ order.signed = signed /\ order.order_hash = canonical_hash(signed)
           /\ Begins(order) /\ Validated(signed, now_ms)
<1>1. PICK order : order = NewOrder(signed, uuids + 1)
  OBVIOUS
<1>2. /\ order \in Orders /\ order.signed = signed /\ order.order_id = uuids + 1
      /\ order.created_sequence = next_seq_id /\ order.order_hash = canonical_hash(signed)
      /\ order.filled_size_lots = 0 /\ order.status = "open"
  <2>1. uuids + 1 \in OrderIds /\ next_seq_id \in Nat
    BY DEF EngineInv, TypeOK, SequencerTypes, CallTypes, OrderIds
  <2> QED BY <1>1, <2>1, NewOrderType DEF NewOrder
<1>3. signed.market_id \in DOMAIN books
  <2>1. signed.market_id \in DOMAIN markets
    BY DEF ProcessOrder, Validated
  <2> QED BY <2>1 DEF PlacesInv, EngineInv, TypeOK, EngineTypes
<1>4. /\ stage = "idle" /\ Validated(signed, now_ms)
      /\ append_event([type |-> "order_accepted", order |-> order])
      /\ stage' = "matching" /\ taker' = order
      /\ uuids' = uuids + 1 /\ UNCHANGED <<books, markets, fills>>
  BY <1>1, <1>3 DEF ProcessOrder
<1>5. ~InProcessOrder /\ taker = NoOrder /\ InProcessOrder' /\ fills' = << >>
  BY <1>4 DEF InProcessOrder, EngineInv, CallFits, LogInv, CallRecorded
<1>6. PICK event : event = [type |-> "order_accepted", order |-> order]
  OBVIOUS
<1>7. event \in Events /\ event.type = "order_accepted" /\ append_event(event)
  BY <1>2, <1>4, <1>6 DEF Events
<1>8. /\ Len(log) \in Nat /\ Len(log) + 1 \in Accepted'
      /\ log'[Len(log) + 1].event.order = order
  BY <1>2, <1>6, <1>7, AcceptedAppended
<1>9. Len(log') = Len(log) + 1
  BY <1>7, AppendEventType DEF EngineInv, TypeOK
<1>10. order.created_sequence = Len(log) + 1
  BY <1>2 DEF LogGapless
<1> QED BY <1>2, <1>4, <1>5, <1>7, <1>8, <1>9, <1>10 DEF Begins

(* Outside process_order and matching the taker stays as it is, and the    *)
(* counter of ids moves in process_order alone.                            *)
LEMMA StepTaker ==
  ASSUME EngineInv, QueueInv, LogInv, [Next]_vars
  PROVE  \/ \E signed \in SignedOrders, now_ms \in Times : ProcessOrder(signed, now_ms)
         \/ /\ NoAcceptance /\ UNCHANGED uuids
            /\ InProcessOrder' => InProcessOrder /\ SameOrder(taker', taker)
<1>1. CASE MatchMaker
  <2>1. SameOrder(taker', taker) /\ InProcessOrder /\ InProcessOrder'
    BY <1>1, MatchMakerRecorded
  <2>2. UNCHANGED uuids /\ NoAcceptance
    BY <1>1, MatchMakerInv DEF MatchMaker
  <2> QED BY <2>1, <2>2
<1>2. ASSUME UNCHANGED <<uuids, taker>>, InProcessOrder' => InProcessOrder, NoAcceptance
      PROVE  /\ NoAcceptance /\ UNCHANGED uuids
             /\ InProcessOrder' => InProcessOrder /\ SameOrder(taker', taker)
  BY <1>2 DEF SameOrder
<1>3. CASE NextLevel
  BY <1>2, <1>3, NextLevelInv DEF NextLevel, InProcessOrder
<1>4. CASE EndMatch
  BY <1>2, <1>4, EndMatchInv DEF EndMatch, InProcessOrder
<1>5. CASE RecordFill
  BY <1>2, <1>5, RecordFillInv DEF RecordFill, InProcessOrder
<1>6. CASE FinishOrder
  BY <1>6, FinishOrderInv DEF FinishOrder, InProcessOrder
<1>7. CASE CancelNext
  <2>1. UNCHANGED <<uuids, taker>> /\ stage' \in {"idle", "cancelling"}
    BY <1>7 DEF CancelNext, matching_vars
  <2> QED BY <1>2, <1>7, <2>1, CancelNextInv DEF InProcessOrder
<1>8. ASSUME NEW id, NEW trader_id, ProcessCancel(id, trader_id)
      PROVE  NoAcceptance /\ UNCHANGED <<uuids, taker, stage>>
  BY <1>8, ProcessCancelInv DEF ProcessCancel, matching_vars
<1>9. ASSUME NEW market_id \in Markets, PauseMarket(market_id) \/ ResumeMarket(market_id)
      PROVE  NoAcceptance /\ UNCHANGED <<uuids, taker, stage>>
  BY <1>9, SetStatusInv DEF PauseMarket, ResumeMarket, SetStatus, matching_vars, MarketStatuses
<1>10. ASSUME NEW market_id, CancelAllOrders(market_id)
       PROVE  NoAcceptance /\ UNCHANGED <<uuids, taker>> /\ stage' = "cancelling"
  BY <1>10, CancelAllOrdersInv DEF CancelAllOrders, matching_vars
<1>11. CASE UNCHANGED vars
  BY <1>2, <1>11, StutterInv DEF vars, matching_vars, InProcessOrder
<1>12. CASE Call
  <2>1. ASSUME NEW trader_id, NEW client_order_id, CancelByClientId(trader_id, client_order_id)
        PROVE  NoAcceptance /\ UNCHANGED <<uuids, taker, stage>>
    BY <1>8, <2>1 DEF CancelByClientId
  <2>2. \/ \E signed \in SignedOrders, now_ms \in Times : ProcessOrder(signed, now_ms)
        \/ NoAcceptance /\ UNCHANGED <<uuids, taker>> /\ (stage' = stage \/ stage' = "cancelling")
    BY <1>8, <1>9, <1>10, <1>12, <2>1 DEF Call
  <2> QED BY <1>2, <2>2 DEF InProcessOrder
<1> QED BY <1>1, <1>3, <1>4, <1>5, <1>6, <1>7, <1>11, <1>12 DEF Next, Continue

(* Every id drawn is an accepted order's.                                  *)
LEMMA IdsAcceptedStep ==
  ASSUME EngineInv, QueueInv, LogGapless, LogInv, PlacesInv, IdsAccepted, [Next]_vars
  PROVE  IdsAccepted'
<1>1. LogGrows
  BY StepLogGrows
<1>2. \A i \in Accepted : i \in Accepted' /\ OrderAt(i)' = OrderAt(i)
  BY <1>1, PositionsKept DEF Accepted, OrderAt
<1>3. uuids \in Nat
  BY DEF EngineInv, TypeOK, CallTypes
<1>4. \A id \in 1..uuids : \E i \in Accepted' : OrderAt(i)'.order_id = id
  BY <1>2 DEF IdsAccepted
<1>5. ASSUME NEW signed \in SignedOrders, NEW now_ms, ProcessOrder(signed, now_ms)
      PROVE  IdsAccepted'
  <2>0. PICK last : last = Len(log) + 1
    OBVIOUS
  <2>1. PICK order \in Orders : Begins(order)
    BY <1>5, OrderBegins
  <2>2. /\ order.order_id = uuids + 1 /\ uuids' = uuids + 1 /\ InProcessOrder' /\ taker' = order
        /\ last \in Accepted' /\ OrderAt(last)' = order
    BY <2>0, <2>1 DEF Begins, OrderAt
  <2>3. ASSUME NEW id \in 1..uuids' PROVE \E i \in Accepted' : OrderAt(i)'.order_id = id
    <3>1. id \in 1..uuids \/ id = uuids + 1
      BY <1>3, <2>2
    <3> QED BY <1>4, <2>2, <3>1
  <2> QED BY <2>2, <2>3 DEF IdsAccepted
<1>6. ASSUME UNCHANGED uuids, InProcessOrder' => InProcessOrder /\ SameOrder(taker', taker)
      PROVE  IdsAccepted'
  BY <1>4, <1>6 DEF IdsAccepted, SameOrder
<1> QED BY <1>5, <1>6, StepTaker

(* Every order id drawn was accepted, and the taker's was the last.        *)
THEOREM SpecIdsAccepted == Spec => []IdsAccepted
<1>1. Init => IdsAccepted
  BY DEF Init, IdsAccepted, InProcessOrder
<1>2. EngineInv /\ QueueInv /\ LogGapless /\ LogInv /\ PlacesInv /\ IdsAccepted /\ [Next]_vars
        => IdsAccepted'
  BY IdsAcceptedStep
<1> QED BY <1>1, <1>2, SpecEngineInv, SpecQueueInv, SpecLogGapless, SpecLogInv, SpecPlacesInv,
           PTL DEF Spec
=============================================================================

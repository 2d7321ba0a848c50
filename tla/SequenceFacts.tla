---------------------------- MODULE SequenceFacts ----------------------------
(***************************************************************************)
(* Least and greatest numbers, and what FlattenSeq gives.  The induction   *)
(* theorems of the library take an operator, so what a recursion computes  *)
(* is proved from the least number at which it would fail.                 *)
(***************************************************************************)
EXTENDS Integers, Sequences, SequencesExt, SequenceTheorems, WellFoundedInduction, TLAPS

-----------------------------------------------------------------------------
(* Numbers *)

(* A set of naturals that is not empty has a least element.                *)
LEMMA LeastNatural ==
  ASSUME NEW S, S \subseteq Nat, S # {}
  PROVE  \E m \in S : \A n \in S : m <= n
<1> DEFINE R == OpToRel(<, Nat)
<1>1. ASSUME NEW x \in Nat, NEW y \in Nat, x < y PROVE <<x, y>> \in R
  BY <1>1 DEF OpToRel
<1>2. IsWellFoundedOn(R, Nat)
  BY NatLessThanWellFounded
<1> HIDE DEF R
<1>3. PICK m \in S : \A n \in S : ~(<<n, m>> \in R)
  BY <1>2, WFMin, Zenon
<1>4. ASSUME NEW n \in S PROVE m <= n
  <2>1. m \in Nat /\ n \in Nat
    OBVIOUS
  <2>2. ~(n < m)
    BY <1>1, <1>3, <2>1
  <2> QED BY <2>1, <2>2
<1> QED BY <1>4

(* A bounded set of naturals that is not empty has a greatest element.     *)
LEMMA GreatestNatural ==
  ASSUME NEW S, S \subseteq Nat, S # {}, NEW b \in Nat, \A n \in S : n <= b
  PROVE  \E m \in S : \A n \in S : m >= n
<1> DEFINE T == {d \in Nat : \E n \in S : n = b - d}
<1>1. ASSUME NEW n \in S PROVE n \in Nat /\ n <= b /\ b - n \in T
  <2>1. n \in Nat /\ n <= b
    OBVIOUS
  <2>2. b - n \in Nat /\ n = b - (b - n)
    BY <2>1
  <2> QED BY <2>1, <2>2
<1>2. T \subseteq Nat /\ T # {}
  BY <1>1
<1>3. PICK k \in T : \A j \in T : k <= j
  BY <1>2, LeastNatural
<1>4. PICK m \in S : m = b - k
  BY <1>3
<1>5. ASSUME NEW n \in S PROVE m >= n
  <2>1. k <= b - n
    BY <1>1, <1>3
  <2> QED BY <1>1, <1>4, <2>1
<1> QED BY <1>5

-----------------------------------------------------------------------------
(* The elements of a sequence *)

(* Two sequences in a row have the elements of both.                       *)
LEMMA ConcatElements ==
  ASSUME NEW S, NEW a \in Seq(S), NEW b \in Seq(S)
  PROVE  \A x : x \in ToSet(a \o b) <=> x \in ToSet(a) \/ x \in ToSet(b)
<1>1. DOMAIN a = 1..Len(a) /\ DOMAIN b = 1..Len(b) /\ Len(a) \in Nat /\ Len(b) \in Nat
  OBVIOUS
<1>2. /\ Len(a \o b) = Len(a) + Len(b)
      /\ \A i \in 1..Len(a) : (a \o b)[i] = a[i]
      /\ \A i \in 1..Len(b) : (a \o b)[Len(a) + i] = b[i]
      /\ a \o b \in Seq(S)
  BY <1>1
<1>3. \A i \in 1..Len(a) + Len(b) : i \in 1..Len(a) \/ (i - Len(a) \in 1..Len(b))
  BY <1>1
<1>4. ASSUME NEW x PROVE x \in ToSet(a \o b) <=> x \in ToSet(a) \/ x \in ToSet(b)
  <2>1. ASSUME x \in ToSet(a) PROVE x \in ToSet(a \o b)
    <3>1. PICK i \in 1..Len(a) : x = a[i]
      BY <1>1, <2>1 DEF ToSet
    <3>2. i \in DOMAIN (a \o b) /\ x = (a \o b)[i]
      BY <1>1, <1>2, <3>1
    <3> QED BY <3>2, Zenon DEF ToSet
  <2>2. ASSUME x \in ToSet(b) PROVE x \in ToSet(a \o b)
    <3>1. PICK i \in 1..Len(b) : x = b[i]
      BY <1>1, <2>2 DEF ToSet
    <3>2. Len(a) + i \in DOMAIN (a \o b) /\ x = (a \o b)[Len(a) + i]
      BY <1>1, <1>2, <3>1
    <3> QED BY <3>2, Zenon DEF ToSet
  <2>3. ASSUME x \in ToSet(a \o b) PROVE x \in ToSet(a) \/ x \in ToSet(b)
    <3>1. PICK i \in 1..Len(a) + Len(b) : x = (a \o b)[i]
      BY <1>1, <1>2, <2>3 DEF ToSet
    <3>2. CASE i \in 1..Len(a)
      BY <1>1, <1>2, <3>1, <3>2 DEF ToSet
    <3>3. CASE i - Len(a) \in 1..Len(b)
      <4>1. i = Len(a) + (i - Len(a))
        BY <1>1
      <4>2. x = b[i - Len(a)]
        BY <1>2, <3>1, <3>3, <4>1
      <4> QED BY <1>1, <3>3, <4>2 DEF ToSet
    <3> QED BY <1>3, <3>2, <3>3
  <2> QED BY <2>1, <2>2, <2>3
<1> QED BY <1>4

(* An entry at the end adds itself.                                        *)
LEMMA AppendElements ==
  ASSUME NEW S, NEW seq \in Seq(S), NEW e \in S
  PROVE  \A x : x \in ToSet(Append(seq, e)) <=> x \in ToSet(seq) \/ x = e
<1>1. Append(seq, e) = seq \o << e >>
  BY AppendIsConcat
<1>2. << e >> \in Seq(S) /\ \A x : x \in ToSet(<< e >>) <=> x = e
  BY DEF ToSet
<1> QED BY <1>1, <1>2, ConcatElements

(* An element is the first or one of the others.                           *)
LEMMA HeadTailElements ==
  ASSUME NEW S, NEW seq \in Seq(S), seq # << >>
  PROVE  /\ Head(seq) \in S /\ Tail(seq) \in Seq(S) /\ Len(seq) # 0
         /\ Tail(seq) = << >> <=> Len(seq) = 1
         /\ \A x : x \in ToSet(seq) <=> x = Head(seq) \/ x \in ToSet(Tail(seq))
<1>1. /\ Len(seq) \in Nat /\ Len(seq) # 0 /\ Head(seq) = seq[1] /\ seq[1] \in S
      /\ DOMAIN seq = 1..Len(seq)
  OBVIOUS
<1>2. /\ Tail(seq) \in Seq(S) /\ Len(Tail(seq)) = Len(seq) - 1
      /\ DOMAIN Tail(seq) = 1..Len(seq) - 1
      /\ \A i \in 1..Len(seq) - 1 : Tail(seq)[i] = seq[i + 1]
  OBVIOUS
<1>3. Tail(seq) = << >> <=> Len(seq) = 1
  BY <1>1, <1>2, EmptySeq
<1> PICK rest : rest = Tail(seq)
  OBVIOUS
<1>4. ASSUME NEW x, x \in ToSet(seq) PROVE x = Head(seq) \/ x \in ToSet(rest)
  <2>1. PICK i \in 1..Len(seq) : x = seq[i]
    BY <1>1, <1>4 DEF ToSet
  <2>2. CASE i = 1
    BY <1>1, <2>1, <2>2
  <2>3. CASE i # 1
    <3>1. i - 1 \in 1..Len(seq) - 1 /\ i = (i - 1) + 1
      BY <1>1, <2>3
    <3>2. i - 1 \in DOMAIN rest /\ rest[i - 1] = x
      BY <1>2, <2>1, <3>1
    <3> QED BY <3>2, Zenon DEF ToSet
  <2> QED BY <2>2, <2>3
<1>5. ASSUME NEW x, x \in ToSet(rest) PROVE x \in ToSet(seq)
  <2>1. PICK i \in 1..Len(seq) - 1 : x = rest[i]
    BY <1>2, <1>5 DEF ToSet
  <2>2. i + 1 \in DOMAIN seq /\ x = seq[i + 1]
    BY <1>1, <1>2, <2>1
  <2> QED BY <2>2, Zenon DEF ToSet
<1>6. Head(seq) \in ToSet(seq)
  <2>1. 1 \in DOMAIN seq
    BY <1>1
  <2> QED BY <1>1, <2>1, Zenon DEF ToSet
<1> QED BY <1>1, <1>2, <1>3, <1>4, <1>5, <1>6

-----------------------------------------------------------------------------
(* FlattenSeq *)

\* The recursion that FlattenSeq unfolds to, up to position n.
Flattens(seqs, n, flat) ==
  flat = [i \in 1..n |-> IF i = 1 THEN seqs[i] ELSE flat[i - 1] \o seqs[i]]

(* It has a solution for every length.                                     *)
LEMMA FlattensExists ==
  ASSUME NEW seqs, NEW n \in Nat
  PROVE  \E flat : Flattens(seqs, n, flat)
<1> DEFINE Unsolved == {k \in Nat : ~ \E flat : Flattens(seqs, k, flat)}
<1>1. SUFFICES ASSUME Unsolved # {} PROVE FALSE
  OBVIOUS
<1>2. Unsolved \subseteq Nat
  OBVIOUS
<1>3. PICK least \in Unsolved : \A k \in Unsolved : least <= k
  <2> HIDE DEF Unsolved
  <2> QED BY <1>1, <1>2, LeastNatural
<1>4. CASE least = 0
  <2> DEFINE flat == [i \in 1..0 |-> << >>]
  <2>1. Flattens(seqs, 0, flat)
    BY DEF Flattens
  <2> QED BY <1>3, <1>4, <2>1
<1>5. CASE least # 0
  <2>1. least \in Nat /\ least - 1 \in Nat /\ ~(least <= least - 1)
    BY <1>3, <1>5
  <2>2. PICK flat : Flattens(seqs, least - 1, flat)
    BY <1>3, <2>1
  <2> DEFINE next == [i \in 1..least |->
                        IF i = 1 THEN seqs[i]
                        ELSE IF i = least THEN flat[least - 1] \o seqs[least] ELSE flat[i]]
  <2>3. ASSUME NEW i \in 1..least
        PROVE  next[i] = IF i = 1 THEN seqs[i] ELSE next[i - 1] \o seqs[i]
    <3>1. \A j \in 1..least - 1 : next[j] = flat[j]
      BY <2>1, <2>2 DEF Flattens
    <3>2. CASE i = 1
      BY <3>2
    <3>3. CASE i = least /\ i # 1
      <4>1. i - 1 \in 1..least - 1 /\ i - 1 = least - 1
        BY <2>1, <3>3
      <4>2. next[i - 1] = flat[least - 1]
        BY <3>1, <4>1
      <4>3. next[i] = flat[least - 1] \o seqs[least]
        BY <3>3
      <4> QED BY <3>3, <4>2, <4>3
    <3>4. CASE i # least /\ i # 1
      <4>1. i - 1 \in 1..least - 1 /\ i \in 1..least - 1
        BY <2>1, <3>4
      <4>2. flat[i] = flat[i - 1] \o seqs[i]
        BY <2>2, <3>4, <4>1 DEF Flattens
      <4> QED BY <3>1, <3>4, <4>1, <4>2
    <3> QED BY <3>2, <3>3, <3>4
  <2>4. Flattens(seqs, least, next)
    <3>1. (\A i \in 1..least : next[i] = IF i = 1 THEN seqs[i] ELSE next[i - 1] \o seqs[i])
            => next = [i \in 1..least |-> IF i = 1 THEN seqs[i] ELSE next[i - 1] \o seqs[i]]
      OBVIOUS
    <3> HIDE DEF next
    <3> QED BY <2>3, <3>1 DEF Flattens
  <2> QED BY <1>3, <2>4
<1> QED BY <1>4, <1>5

(* FlattenSeq is where it ends.                                            *)
LEMMA FlattenIsLast ==
  ASSUME NEW seqs, Len(seqs) \in Nat, Len(seqs) # 0
  PROVE  \E flat : /\ FlattenSeq(seqs) = flat[Len(seqs)]
                   /\ flat[1] = seqs[1]
                   /\ \A i \in 2..Len(seqs) : flat[i] = flat[i - 1] \o seqs[i]
<1> DEFINE flat == CHOOSE flatten :
      flatten = [i \in 1..Len(seqs) |-> IF i = 1 THEN seqs[i] ELSE flatten[i - 1] \o seqs[i]]
<1>1. FlattenSeq(seqs) = flat[Len(seqs)]
  BY Zenon DEF FlattenSeq
<1>2. Flattens(seqs, Len(seqs), flat)
  BY FlattensExists, Zenon DEF Flattens
<1> HIDE DEF flat
<1>3. \A i \in 1..Len(seqs) : flat[i] = IF i = 1 THEN seqs[i] ELSE flat[i - 1] \o seqs[i]
  BY <1>2 DEF Flattens
<1>4. flat[1] = seqs[1] /\ \A i \in 2..Len(seqs) : flat[i] = flat[i - 1] \o seqs[i]
  <2>1. 1 \in 1..Len(seqs) /\ \A i \in 2..Len(seqs) : i \in 1..Len(seqs) /\ i # 1
    OBVIOUS
  <2> QED BY <1>3, <2>1, Zenon
<1> QED BY <1>1, <1>4, Zenon

(* The elements of FlattenSeq are those of the sequences, of their type.   *)
LEMMA FlattenElements ==
  ASSUME NEW S, NEW seqs \in Seq(Seq(S))
  PROVE  /\ FlattenSeq(seqs) \in Seq(S)
         /\ \A x : x \in ToSet(FlattenSeq(seqs)) <=> \E i \in DOMAIN seqs : x \in ToSet(seqs[i])
<1>1. CASE Len(seqs) = 0
  <2>1. seqs = << >> /\ FlattenSeq(seqs) = seqs
    BY <1>1, EmptySeq DEF FlattenSeq
  <2>2. << >> \in Seq(S) /\ DOMAIN seqs = {}
    BY <2>1
  <2>3. ToSet(<< >>) = {}
    BY DEF ToSet
  <2> QED BY <2>1, <2>2, <2>3
<1>2. CASE Len(seqs) # 0
  <2>0. Len(seqs) \in Nat
    OBVIOUS
  <2>1. PICK flat : /\ FlattenSeq(seqs) = flat[Len(seqs)]
                    /\ flat[1] = seqs[1]
                    /\ \A i \in 2..Len(seqs) : flat[i] = flat[i - 1] \o seqs[i]
    BY <1>2, <2>0, FlattenIsLast, Zenon
  <2> DEFINE Holds(k) ==
        /\ flat[k] \in Seq(S)
        /\ \A x : x \in ToSet(flat[k]) <=> \E i \in 1..k : x \in ToSet(seqs[i])
      Failing == {k \in 1..Len(seqs) : ~Holds(k)}
  <2>2. Holds(1)
    BY <1>2, <2>1
  <2>3. ASSUME NEW k \in 2..Len(seqs), Holds(k - 1) PROVE Holds(k)
    <3>1. flat[k] = flat[k - 1] \o seqs[k] /\ flat[k - 1] \in Seq(S) /\ seqs[k] \in Seq(S)
      <4>1. k \in 1..Len(seqs)
        BY <2>0
      <4>2. seqs[k] \in Seq(S)
        BY <4>1
      <4> QED BY <2>1, <2>3, <4>2
    <3>2. \A x : x \in ToSet(flat[k]) <=> x \in ToSet(flat[k - 1]) \/ x \in ToSet(seqs[k])
      BY <3>1, ConcatElements
    <3>3. \A i : i \in 1..k <=> i \in 1..k - 1 \/ i = k
      BY <2>3
    <3>4. \A x : x \in ToSet(flat[k - 1]) <=> \E i \in 1..k - 1 : x \in ToSet(seqs[i])
      BY <2>3
    <3>5. flat[k] \in Seq(S)
      BY <3>1
    <3> QED BY <3>2, <3>3, <3>4, <3>5
  <2>4. \A k \in 1..Len(seqs) : Holds(k)
    <3>1. SUFFICES ASSUME Failing # {} PROVE FALSE
      OBVIOUS
    <3>2. PICK least \in Failing : \A k \in Failing : least <= k
      <4>1. Failing \subseteq Nat
        OBVIOUS
      <4> HIDE DEF Failing
      <4> QED BY <3>1, <4>1, LeastNatural
    <3> HIDE DEF Holds
    <3>3. least \in 2..Len(seqs) /\ least - 1 \in 1..Len(seqs) /\ ~(least <= least - 1)
      BY <2>2, <3>2
    <3>4. Holds(least - 1)
      BY <3>2, <3>3
    <3> QED BY <2>3, <3>2, <3>3, <3>4
  <2>5. DOMAIN seqs = 1..Len(seqs) /\ Len(seqs) \in 1..Len(seqs)
    BY <1>2
  <2> QED BY <2>1, <2>4, <2>5
<1> QED BY <1>1, <1>2

\* A part of a sequence: its entries at the chosen positions, in their order.
Chooses(part, seq, at, chosen) ==
  /\ at \in Seq(DOMAIN seq) /\ \A i : i \in chosen <=> \E k \in 1..Len(at) : at[k] = i
  /\ \A j, k \in 1..Len(at) : j < k => at[j] < at[k]
  /\ part = [k \in 1..Len(at) |-> seq[at[k]]]

(* One entry more, chosen or not.                                          *)
LEMMA ChooseFurther ==
  ASSUME NEW S, NEW seq \in Seq(S), NEW last \in DOMAIN seq, NEW part, NEW at, NEW before,
         Chooses(part, seq, at, before), \A i \in before : i < last
  PROVE  /\ Chooses(part \o << >>, seq, at, before)
         /\ Chooses(part \o << seq[last] >>, seq, Append(at, last), before \cup {last})
<1>1. PICK n : n = Len(at)
  OBVIOUS
<1>2. /\ n \in Nat /\ at \in Seq(DOMAIN seq) /\ \A k \in 1..n : at[k] \in DOMAIN seq
  BY <1>1 DEF Chooses
<1>3. part \in Seq(S) /\ Len(part) = n /\ \A k \in 1..n : part[k] = seq[at[k]]
  <2>1. part = [k \in 1..n |-> seq[at[k]]] /\ \A i \in DOMAIN seq : seq[i] \in S
    BY <1>1 DEF Chooses
  <2>2. \A k \in 1..n : seq[at[k]] \in S
    BY <1>2, <2>1
  <2>3. part \in [1..n -> S]
    BY <2>1, <2>2
  <2> QED BY <1>2, <2>1, <2>3
<1>4. part \o << >> = part
  BY <1>3
<1>5. PICK more : more = Append(at, last)
  OBVIOUS
<1>6. /\ more \in Seq(DOMAIN seq) /\ Len(more) = n + 1 /\ more[n + 1] = last
      /\ \A k \in 1..n : more[k] = at[k]
  BY <1>1, <1>2, <1>5, AppendProperties
<1>7. PICK longer : longer = part \o << seq[last] >>
  OBVIOUS
<1>8. longer = [k \in 1..Len(more) |-> seq[more[k]]]
  <2>1. longer = Append(part, seq[last])
    BY <1>3, <1>7
  <2>2. /\ longer \in Seq(S) /\ Len(longer) = n + 1 /\ longer[n + 1] = seq[last]
        /\ \A k \in 1..n : longer[k] = part[k]
    <3>1. seq[last] \in S
      OBVIOUS
    <3> QED BY <1>3, <2>1, <3>1, AppendProperties
  <2>3. longer = [k \in 1..n + 1 |-> longer[k]]
    BY <2>2
  <2>4. ASSUME NEW k \in 1..n + 1 PROVE longer[k] = seq[more[k]]
    <3>1. CASE k \in 1..n
      BY <1>3, <1>6, <2>2, <3>1
    <3>2. CASE k = n + 1
      BY <1>6, <2>2, <3>2
    <3> QED BY <1>2, <3>1, <3>2
  <2> QED BY <1>6, <2>3, <2>4
<1>9. \A i : i \in before \cup {last} <=> \E k \in 1..Len(more) : more[k] = i
  <2>1. \A k : k \in 1..n + 1 <=> k \in 1..n \/ k = n + 1
    BY <1>2
  <2>2. \A i : i \in before <=> \E k \in 1..n : at[k] = i
    BY <1>1 DEF Chooses
  <2> QED BY <1>6, <2>1, <2>2
<1>10. ASSUME NEW j \in 1..Len(more), NEW k \in 1..Len(more), j < k PROVE more[j] < more[k]
  <2>1. j \in 1..n /\ (k \in 1..n \/ k = n + 1)
    BY <1>2, <1>6, <1>10
  <2>2. CASE k \in 1..n
    BY <1>1, <1>6, <1>10, <2>1, <2>2 DEF Chooses
  <2>3. CASE k = n + 1
    BY <1>1, <1>6, <2>1, <2>3 DEF Chooses
  <2> QED BY <2>1, <2>2, <2>3
<1> QED BY <1>4, <1>5, <1>6, <1>7, <1>8, <1>9, <1>10 DEF Chooses

(* Filtering a sequence leaves the entries that pass, in their order.      *)
LEMMA FlattenChosen ==
  ASSUME NEW S, NEW seq \in Seq(S), NEW chosen, \A i \in chosen : i \in DOMAIN seq, NEW keep,
         keep = [i \in DOMAIN seq |-> IF i \in chosen THEN << seq[i] >> ELSE << >>]
  PROVE  \E at : Chooses(FlattenSeq(keep), seq, at, chosen)
<1>1. /\ DOMAIN keep = 1..Len(seq) /\ Len(keep) = Len(seq) /\ Len(seq) \in Nat
      /\ \A i \in 1..Len(seq) : keep[i] = IF i \in chosen THEN << seq[i] >> ELSE << >>
  OBVIOUS
<1>2. PICK none : none = << >>
  OBVIOUS
<1>3. Chooses(none, seq, none, {})
  <2>1. none \in Seq(DOMAIN seq) /\ Len(none) = 0
    BY <1>2
  <2>2. none = [k \in 1..Len(none) |-> seq[none[k]]]
    BY <1>2, <2>1
  <2> QED BY <2>1, <2>2 DEF Chooses
<1>4. CASE Len(seq) = 0
  <2>1. FlattenSeq(keep) = none
    BY <1>1, <1>2, <1>4, EmptySeq DEF FlattenSeq
  <2>2. chosen = {}
    BY <1>1, <1>4
  <2> QED BY <1>3, <2>1, <2>2
<1>5. CASE Len(seq) # 0
  <2>0. Len(keep) \in Nat /\ Len(keep) # 0
    BY <1>1, <1>5
  <2>1. PICK flat : /\ FlattenSeq(keep) = flat[Len(keep)]
                    /\ flat[1] = keep[1]
                    /\ \A i \in 2..Len(keep) : flat[i] = flat[i - 1] \o keep[i]
    BY ONLY <2>0, FlattenIsLast
  <2> DEFINE UpTo(k) == {i \in chosen : i <= k}
             Holds(k) == \E at : Chooses(flat[k], seq, at, UpTo(k))
             Failing == {k \in 1..Len(seq) : ~Holds(k)}
  <2>2. ASSUME NEW k \in 1..Len(seq), NEW part, NEW at, NEW before,
               Chooses(part, seq, at, before), before = UpTo(k - 1), flat[k] = part \o keep[k]
        PROVE  Holds(k)
    <3>1. k \in DOMAIN seq /\ \A i \in before : i < k
      BY <1>1, <2>2
    <3>2. /\ Chooses(part \o << >>, seq, at, before)
          /\ Chooses(part \o << seq[k] >>, seq, Append(at, k), before \cup {k})
      BY <2>2, <3>1, ChooseFurther
    <3>3. UpTo(k) = IF k \in chosen THEN before \cup {k} ELSE before
      BY <1>1, <2>2
    <3>4. keep[k] = IF k \in chosen THEN << seq[k] >> ELSE << >>
      BY <1>1
    <3> QED BY <2>2, <3>2, <3>3, <3>4
  <2>3. Holds(1)
    <3>1. 1 \in 1..Len(seq) /\ {} = UpTo(1 - 1)
      BY <1>1, <1>5
    <3>2. none \o keep[1] = keep[1]
      BY <1>1, <1>2, <3>1
    <3> QED BY <1>3, <2>1, <2>2, <3>1, <3>2
  <2>4. ASSUME NEW k \in 2..Len(seq), Holds(k - 1) PROVE Holds(k)
    <3>1. PICK at : Chooses(flat[k - 1], seq, at, UpTo(k - 1))
      BY <2>4
    <3>2. k \in 1..Len(seq) /\ k \in 2..Len(keep)
      BY <1>1
    <3>3. flat[k] = flat[k - 1] \o keep[k]
      BY <2>1, <3>2
    <3> HIDE DEF Holds, UpTo
    <3> QED BY <2>2, <3>1, <3>2, <3>3
  <2>5. \A k \in 1..Len(seq) : Holds(k)
    <3>1. SUFFICES ASSUME Failing # {} PROVE FALSE
      OBVIOUS
    <3>2. PICK least \in Failing : \A k \in Failing : least <= k
      <4>1. Failing \subseteq Nat
        OBVIOUS
      <4> HIDE DEF Failing
      <4> QED BY <3>1, <4>1, LeastNatural
    <3> HIDE DEF Holds
    <3>3. least \in 2..Len(seq) /\ least - 1 \in 1..Len(seq) /\ ~(least <= least - 1)
      BY <2>3, <3>2
    <3>4. Holds(least - 1)
      BY <3>2, <3>3
    <3> QED BY <2>4, <3>2, <3>3, <3>4
  <2>6. Len(seq) \in 1..Len(seq) /\ UpTo(Len(seq)) = chosen
    BY <1>1, <1>5
  <2>7. PICK at : Chooses(flat[Len(seq)], seq, at, UpTo(Len(seq)))
    BY <2>5, <2>6
  <2> HIDE DEF UpTo
  <2>8. FlattenSeq(keep) = flat[Len(seq)]
    BY <1>1, <2>1
  <2> QED BY <2>6, <2>7, <2>8
<1> QED BY <1>4, <1>5

(* Filtering a sequence whose entries from some place on pass, and none    *)
(* before, leaves its end.                                                 *)
LEMMA FlattenSuffix ==
  ASSUME NEW S, NEW seq \in Seq(S), NEW j \in 0..Len(seq), NEW keep,
         keep = [i \in DOMAIN seq |-> IF i > j THEN << seq[i] >> ELSE << >>]
  PROVE  FlattenSeq(keep) = SubSeq(seq, j + 1, Len(seq))
<1>1. /\ DOMAIN keep = 1..Len(seq) /\ Len(keep) = Len(seq) /\ Len(seq) \in Nat
      /\ \A i \in 1..Len(seq) : keep[i] = IF i > j THEN << seq[i] >> ELSE << >>
  OBVIOUS
<1>2. CASE Len(seq) = 0
  <2>1. seq = << >> /\ keep = << >> /\ SubSeq(seq, j + 1, Len(seq)) = << >>
    BY <1>2
  <2>2. FlattenSeq(keep) = keep
    BY <1>1, <1>2 DEF FlattenSeq
  <2> QED BY <2>1, <2>2, Zenon
<1>3. CASE Len(seq) # 0
  <2>0. Len(keep) \in Nat /\ Len(keep) # 0
    BY <1>1, <1>3
  <2>1. PICK flat : /\ FlattenSeq(keep) = flat[Len(keep)]
                    /\ flat[1] = keep[1]
                    /\ \A i \in 2..Len(keep) : flat[i] = flat[i - 1] \o keep[i]
    BY ONLY <2>0, FlattenIsLast
  <2> DEFINE Holds(k) == flat[k] = SubSeq(seq, j + 1, k)
             Failing == {k \in 1..Len(seq) : ~Holds(k)}
  <2>2. Holds(1)
    <3>1. 1 \in 1..Len(seq) /\ flat[1] = IF 1 > j THEN << seq[1] >> ELSE << >>
      BY <1>1, <1>3, <2>1
    <3>2. CASE j = 0
      <4>1. SubSeq(seq, 1, 1) = << seq[1] >>
        <5>1. SubSeq(seq, 1, 1) \in Seq(S) /\ Len(SubSeq(seq, 1, 1)) = 1 /\ SubSeq(seq, 1, 1)[1] = seq[1]
          BY <3>1
        <5>2. << seq[1] >> \in Seq(S) /\ Len(<< seq[1] >>) = 1 /\ << seq[1] >>[1] = seq[1]
          BY <3>1
        <5> DEFINE one == SubSeq(seq, 1, 1) other == << seq[1] >>
        <5> HIDE DEF one, other
        <5>3. one \in Seq(S) /\ other \in Seq(S) /\ Len(one) = 1 /\ Len(other) = 1 /\ one[1] = other[1]
          BY <5>1, <5>2 DEF one, other
        <5>4. one = other
          BY <5>3, SeqEqual
        <5> QED BY <5>4 DEF one, other
      <4> QED BY <3>1, <3>2, <4>1
    <3>3. CASE j # 0
      <4>1. SubSeq(seq, j + 1, 1) = << >>
        BY <3>1, <3>3
      <4> QED BY <3>1, <3>3, <4>1
    <3> QED BY <3>2, <3>3
  <2>3. ASSUME NEW k \in 2..Len(seq), Holds(k - 1) PROVE Holds(k)
    <3>0. k \in 1..Len(seq) /\ k \in 2..Len(keep)
      BY <1>1
    <3>1. flat[k] = SubSeq(seq, j + 1, k - 1) \o keep[k] /\ k \in 1..Len(seq)
      BY <2>1, <2>3, <3>0, Zenon
    <3>2. CASE k > j
      <4>1. keep[k] = << seq[k] >>
        BY <1>1, <3>1, <3>2
      <4>2. SubSeq(seq, j + 1, k - 1) \o << seq[k] >> = SubSeq(seq, j + 1, k)
        BY <3>1, <3>2
      <4> QED BY <3>1, <4>1, <4>2, Zenon
    <3>3. CASE ~(k > j)
      <4>1. keep[k] = << >>
        BY <1>1, <3>1, <3>3
      <4>2. SubSeq(seq, j + 1, k - 1) = << >> /\ SubSeq(seq, j + 1, k) = << >>
        BY <3>1, <3>3
      <4>3. << >> \o << >> = << >>
        OBVIOUS
      <4> QED BY <3>1, <4>1, <4>2, <4>3, Zenon
    <3> QED BY <3>2, <3>3
  <2>4. \A k \in 1..Len(seq) : Holds(k)
    <3>1. SUFFICES ASSUME Failing # {} PROVE FALSE
      OBVIOUS
    <3>2. PICK least \in Failing : \A k \in Failing : least <= k
      <4>1. Failing \subseteq Nat
        OBVIOUS
      <4> HIDE DEF Failing
      <4> QED BY <3>1, <4>1, LeastNatural
    <3> HIDE DEF Holds
    <3>3. least \in 2..Len(seq) /\ least - 1 \in 1..Len(seq) /\ ~(least <= least - 1)
      BY <2>2, <3>2
    <3>4. Holds(least - 1)
      BY <3>2, <3>3
    <3> QED BY <2>3, <3>2, <3>3, <3>4
  <2>5. Len(seq) \in 1..Len(seq)
    BY <1>1, <1>3
  <2> QED BY <1>1, <2>1, <2>4, <2>5, Zenon
<1> QED BY <1>2, <1>3
(* The end of a longer sequence is the longer end.                         *)
LEMMA EndOfAppend ==
  ASSUME NEW S, NEW seq \in Seq(S), NEW e \in S, NEW j \in 0..Len(seq)
  PROVE  Append(SubSeq(seq, j + 1, Len(seq)), e) = SubSeq(Append(seq, e), j + 1, Len(seq) + 1)
<1> DEFINE a == Append(SubSeq(seq, j + 1, Len(seq)), e)
           whole == Append(seq, e)
           last == Len(seq) + 1
           b == SubSeq(whole, j + 1, last)
           size == last - j
<1>1. j \in Nat /\ Len(seq) \in Nat /\ last \in Nat /\ size \in Nat /\ j + 1 <= last
  OBVIOUS
<1>2. /\ a \in Seq(S) /\ Len(a) = size
      /\ \A i \in 1..Len(seq) - j : a[i] = seq[j + i]
      /\ a[size] = e
  OBVIOUS
<1>3. /\ \A i \in 1..Len(seq) : whole[i] = seq[i] /\ seq[i] \in S
      /\ whole[last] = e
  OBVIOUS
<1> HIDE DEF a, whole
<1>4. /\ b \in Seq(S) /\ Len(b) = last - (j + 1) + 1
      /\ \A i \in 1..last - (j + 1) + 1 : b[i] = whole[(j + 1) + i - 1]
  <2>1. \A i \in j + 1 .. last : whole[i] \in S
    BY <1>1, <1>3
  <2>2. j + 1 \in Int /\ last \in Int
    BY <1>1
  <2> PICK m : m = j + 1
    OBVIOUS
  <2> HIDE DEF last
  <2>3. /\ SubSeq(whole, m, last) \in Seq(S)
        /\ Len(SubSeq(whole, m, last)) = IF m <= last THEN last - m + 1 ELSE 0
        /\ \A i \in 1..last - m + 1 : SubSeq(whole, m, last)[i] = whole[m + i - 1]
    BY <2>1, <2>2, SubSeqProperties
  <2> QED BY <1>1, <2>3
<1> HIDE DEF b
<1>5. Len(b) = size /\ \A i \in 1..size : b[i] = whole[j + i]
  BY <1>1, <1>4
<1>6. ASSUME NEW i \in 1..size PROVE a[i] = b[i]
  <2>1. CASE i = size
    <3>1. j + i = last /\ size \in 1..size
      BY <1>1, <2>1
    <3> QED BY <1>2, <1>3, <1>5, <2>1, <3>1, Zenon
  <2>2. CASE i # size
    <3>1. i \in 1..Len(seq) - j /\ j + i \in 1..Len(seq)
      BY <1>1, <2>2
    <3> QED BY <1>2, <1>3, <1>5, <3>1, Zenon
  <2> QED BY <2>1, <2>2
<1>7. a = b
  BY <1>2, <1>4, <1>5, <1>6, SeqEqual
<1> QED BY <1>7, Zenon DEF a, b, whole, last
=============================================================================

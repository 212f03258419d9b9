----------------------------- MODULE WireProofs -----------------------------
(***************************************************************************)
(* Theorems about Wire and WireFile, for every base, chain of blocks and   *)
(* transaction: recover_cache leaves the indexed blocks and nothing else,  *)
(* the converter and the encoders make the same compact streams, and what  *)
(* a reader makes of them is the node's Sapling transactions.              *)
(*                                                                         *)
(* The functions over bytes recurse along their data.  Each is unfolded    *)
(* once (Recursion: there is a function that follows the recursion's step; *)
(* CHOOSE then takes one such), and what it does follows by induction over *)
(* positions (UpTo).                                                       *)
(***************************************************************************)
EXTENDS WireFile, SequenceTheorems, WellFoundedInduction, TLAPS

----------------------------------------------------------------------------
(* Induction and recursion over the positions of a sequence.               *)

\* A set of naturals has a least one.
LEMMA LeastNat ==
    ASSUME NEW T \in SUBSET Nat, T # {}
    PROVE  \E k \in T : \A n \in T : k <= n
<1>. DEFINE R == {ss \in Nat \X Nat : ss[1] < ss[2]}
<1>1. IsWellFoundedOn(R, Nat)
  BY NatLessThanWellFounded DEF OpToRel
<1>2. PICK k \in T : \A n \in T : <<n, k>> \notin R
  <2>. HIDE DEF R
  <2>. QED  BY <1>1, WFMin, Zenon
<1>3. ASSUME NEW n \in T PROVE k <= n
  <2>1. <<n, k>>[1] = n /\ <<n, k>>[2] = k /\ <<n, k>> \in Nat \X Nat
    OBVIOUS
  <2>2. ~(n < k)
    BY <1>2, <2>1, Zenon
  <2>. QED  BY <2>2
<1>. QED  BY <1>3

\* A set of naturals with 0 that has the successor below m of each of its
\* members has all naturals up to m.
LEMMA UpTo ==
    ASSUME NEW m \in Nat, NEW T, 0 \in T,
           \A k \in 1..m : k - 1 \in T => k \in T
    PROVE  \A k \in 0..m : k \in T
<1>. DEFINE Wrong == {k \in 0..m : k \notin T}
<1>. SUFFICES ASSUME Wrong # {} PROVE FALSE
  OBVIOUS
<1>1. PICK k \in Wrong : \A n \in Wrong : k <= n
  <2>1. Wrong \in SUBSET Nat
    OBVIOUS
  <2>. HIDE DEF Wrong
  <2>. QED  BY <2>1, LeastNat
<1>2. k \in 1..m /\ k - 1 \in 0..m
  OBVIOUS
<1>3. k - 1 \notin Wrong
  BY <1>1, <1>2
<1>. QED  BY <1>2, <1>3

\* f follows step from a on.
Follows(f, n, a, step) == f[0] = a /\ \A i \in 1..n : f[i] = step[<<f[i - 1], i>>]

\* There is a function that starts with a and follows step.
LEMMA Recursion ==
    ASSUME NEW S, NEW n \in Nat, NEW a \in S, NEW step \in [S \X (1..n) -> S]
    PROVE  \E f \in [0..n -> S] : Follows(f, n, a, step)
<1>. DEFINE T == {m \in 0..n : \E f \in [0..m -> S] : Follows(f, m, a, step)}
<1>1. 0 \in T
  <2>. DEFINE f == [i \in 0..0 |-> a]
  <2>1. f \in [0..0 -> S] /\ Follows(f, 0, a, step)
    BY DEF Follows
  <2>. QED  BY <2>1
<1>2. ASSUME NEW k \in 1..n, k - 1 \in T PROVE k \in T
  <2>1. PICK g \in [0..(k - 1) -> S] : Follows(g, k - 1, a, step)
    BY <1>2
  <2>. DEFINE f == [i \in 0..k |-> IF i < k THEN g[i] ELSE step[<<g[k - 1], k>>]]
  <2>2. g[k - 1] \in S /\ step[<<g[k - 1], k>>] \in S
    OBVIOUS
  <2>3. f \in [0..k -> S]
    <3>. SUFFICES ASSUME NEW i \in 0..k PROVE f[i] \in S
      OBVIOUS
    <3>1. CASE i < k
      <4>1. i \in 0..(k - 1)
        BY <3>1
      <4>. QED  BY <3>1, <4>1
    <3>2. CASE i = k
      BY <3>2, <2>2
    <3>. QED  BY <3>1, <3>2
  <2>4. Follows(f, k, a, step)
    <3>1. f[0] = a
      BY <2>1 DEF Follows
    <3>2. ASSUME NEW i \in 1..k PROVE f[i] = step[<<f[i - 1], i>>]
      <4>1. f[i - 1] = g[i - 1]
        OBVIOUS
      <4>2. CASE i < k
        <5>1. i \in 1..(k - 1) /\ f[i] = g[i]
          BY <4>2
        <5>. QED  BY <2>1, <4>1, <5>1 DEF Follows
      <4>3. CASE i = k
        <5>1. f[k] = step[<<g[k - 1], k>>]
          OBVIOUS
        <5>. HIDE DEF f
        <5>. QED  BY <4>1, <4>3, <5>1
      <4>. QED  BY <4>2, <4>3
    <3>. HIDE DEF f
    <3>. QED  BY <3>1, <3>2 DEF Follows
  <2>. HIDE DEF f
  <2>. QED  BY <2>3, <2>4
<1>3. n \in T
  <2>. HIDE DEF T
  <2>. QED  BY <1>1, <1>2, UpTo
<1>. QED  BY <1>3

----------------------------------------------------------------------------
(* Digits.                                                                 *)

LEMMA DivMod ==
    ASSUME NEW b \in Nat, b > 0, NEW n \in Nat
    PROVE  /\ n \div b \in Nat /\ n % b \in Nat /\ n % b < b
           /\ n = b * (n \div b) + (n % b)
OBVIOUS

LEMMA DivBelow ==
    ASSUME NEW b \in Nat, b > 0, NEW n \in Nat, NEW c \in Nat, n < b * c
    PROVE  n \div b < c
<1>1. n \div b \in Nat /\ n >= b * (n \div b)
  BY DivMod
<1>. SUFFICES ASSUME n \div b >= c PROVE FALSE
  BY <1>1
<1>2. b * (n \div b) >= b * c
  BY <1>1
<1>3. b * c \in Nat /\ b * (n \div b) \in Nat
  BY <1>1
<1>. QED  BY <1>1, <1>2, <1>3

LEMMA BaseNat == Base \in Nat /\ Base > 0
BY BaseAssumption

LEMMA Product ==
    ASSUME NEW a \in Nat, NEW b \in Nat
    PROVE  a * b \in Nat
OBVIOUS

\* The rest of n in front of each of its digits.
Rests(rest, w, n) == rest[0] = n /\ \A i \in 1..w : rest[i] = rest[i - 1] \div Base

LEMMA LEUnfolds ==
    ASSUME NEW n \in Nat, NEW w \in Nat
    PROVE  \E rest \in [0..w -> Nat] :
             Rests(rest, w, n) /\ LE(w, n) = [i \in 1..w |-> rest[i - 1] % Base]
<1>. DEFINE step == [p \in Nat \X (1..w) |-> p[1] \div Base]
            Is(rest) == rest = [i \in 0..w |-> IF i = 0 THEN n ELSE rest[i - 1] \div Base]
<1>1. step \in [Nat \X (1..w) -> Nat]
  BY BaseNat, DivMod
<1>2. PICK f \in [0..w -> Nat] : Follows(f, w, n, step)
  <2>. HIDE DEF step
  <2>. QED  BY <1>1, Recursion
<1>3. f[0] = n /\ \A i \in 1..w : f[i] = f[i - 1] \div Base
  <2>1. \A i \in 1..w : f[i - 1] \in Nat
    OBVIOUS
  <2>. QED  BY <1>2, <2>1 DEF Follows
<1>4. Is(f)
  <2>1. ASSUME NEW i \in 0..w PROVE f[i] = IF i = 0 THEN n ELSE f[i - 1] \div Base
    BY <1>3
  <2>. QED  BY <2>1
<1>5. LE(w, n) = [i \in 1..w |-> (CHOOSE rest : Is(rest))[i - 1] % Base]
  BY DEF LE
<1>6. PICK rest : Is(rest) /\ LE(w, n) = [i \in 1..w |-> rest[i - 1] % Base]
  <2>. HIDE DEF Is
  <2>. QED  BY <1>4, <1>5
<1>7. Rests(rest, w, n)
  <2>1. \A i \in 0..w : rest[i] = IF i = 0 THEN n ELSE rest[i - 1] \div Base
    BY <1>6
  <2>. QED  BY <2>1 DEF Rests
<1>8. \A i \in 0..w : rest[i] \in Nat
  <2>. DEFINE T == {i \in 0..w : rest[i] \in Nat}
  <2>1. 0 \in T
    BY <1>7 DEF Rests
  <2>2. ASSUME NEW k \in 1..w, k - 1 \in T PROVE k \in T
    <3>1. rest[k - 1] \in Nat /\ k \in 0..w
      BY <2>2
    <3>2. rest[k] = rest[k - 1] \div Base
      BY <1>7 DEF Rests
    <3>3. rest[k - 1] \div Base \in Nat
      <4>. HIDE DEF T, Is, step
      <4>. QED  BY <3>1, BaseNat, DivMod
    <3>. QED  BY <3>1, <3>2, <3>3
  <2>3. \A i \in 0..w : i \in T
    <3>. HIDE DEF T
    <3>. QED  BY <2>1, <2>2, UpTo
  <2>. QED  BY <2>3
<1>9. rest \in [0..w -> Nat]
  <2>1. rest = [i \in 0..w |-> rest[i]]
    BY <1>6
  <2>. HIDE DEF Is
  <2>. QED  BY <1>8, <2>1
<1>. HIDE DEF Is
<1>. QED  BY <1>6, <1>7, <1>9

LEMMA LEType ==
    ASSUME NEW n \in Nat, NEW w \in Nat
    PROVE  /\ LE(w, n) \in Seq(Nat) /\ Len(LE(w, n)) = w
           /\ \A i \in 1..w : LE(w, n)[i] < Base
<1>1. PICK rest \in [0..w -> Nat] : LE(w, n) = [i \in 1..w |-> rest[i - 1] % Base]
  BY LEUnfolds
<1>2. ASSUME NEW i \in 1..w
      PROVE  LE(w, n)[i] \in Nat /\ LE(w, n)[i] < Base
  <2>1. rest[i - 1] \in Nat
    OBVIOUS
  <2>2. LE(w, n)[i] = rest[i - 1] % Base
    BY <1>1
  <2>. QED  BY <2>1, <2>2, BaseNat, DivMod
<1>3. LE(w, n) \in [1..w -> Nat]
  BY <1>1, <1>2
<1>. QED  BY <1>2, <1>3

\* The value of the digits behind each position of s.
Values(value, s) ==
    value[Len(s)] = 0 /\ \A i \in 1..Len(s) : value[i - 1] = s[i] + Base * value[i]

LEMMA FromLEUnfolds ==
    ASSUME NEW s \in Seq(Nat)
    PROVE  \E value \in [0..Len(s) -> Nat] : Values(value, s) /\ FromLE(s) = value[0]
<1>. DEFINE w == Len(s)
            step == [p \in Nat \X (1..w) |-> s[w - p[2] + 1] + Base * p[1]]
            Is(value) == value = [i \in 0..w |-> IF i = w THEN 0
                                                 ELSE s[i + 1] + Base * value[i + 1]]
<1>1. step \in [Nat \X (1..w) -> Nat]
  <2>1. ASSUME NEW m \in Nat, NEW j \in 1..w PROVE s[w - j + 1] + Base * m \in Nat
    <3>1. w - j + 1 \in 1..Len(s)
      OBVIOUS
    <3>2. s[w - j + 1] \in Nat
      BY <3>1
    <3>3. Base * m \in Nat
      BY BaseNat
    <3>. QED  BY <3>2, <3>3
  <2>. QED  BY <2>1
<1>2. w \in Nat /\ 0 \in Nat
  OBVIOUS
<1>3. PICK f \in [0..w -> Nat] : Follows(f, w, 0, step)
  <2>. HIDE DEF step, w
  <2>. QED  BY <1>1, <1>2, Recursion
<1>. DEFINE g == [i \in 0..w |-> f[w - i]]
<1>4. Is(g)
  <2>1. ASSUME NEW i \in 0..w, i # w PROVE g[i] = s[i + 1] + Base * g[i + 1]
    <3>1. w - i \in 1..w /\ w - (w - i) + 1 = i + 1 /\ (w - i) - 1 = w - (i + 1)
          /\ i + 1 \in 0..w
      BY <2>1
    <3>2. f[w - (i + 1)] \in Nat /\ g[i + 1] = f[w - (i + 1)] /\ g[i] = f[w - i]
      BY <3>1, SMTT(30)
    <3>3. f[w - i] = step[<<f[w - (i + 1)], w - i>>]
      <4>. HIDE DEF step
      <4>. QED  BY <1>3, <3>1 DEF Follows
    <3>4. step[<<f[w - (i + 1)], w - i>>] = s[i + 1] + Base * f[w - (i + 1)]
      BY <3>1, <3>2
    <3>. QED  BY <3>2, <3>3, <3>4
  <2>2. g[w] = 0
    BY <1>3 DEF Follows
  <2>3. g = [i \in 0..w |-> g[i]]
    OBVIOUS
  <2>. HIDE DEF g
  <2>. QED  BY <2>1, <2>2, <2>3
<1>5. FromLE(s) = (CHOOSE value : Is(value))[0]
  BY DEF FromLE
<1>6. PICK value : Is(value) /\ FromLE(s) = value[0]
  <2>. HIDE DEF Is, g
  <2>. QED  BY <1>4, <1>5
<1>7. \A i \in 0..w : value[i] = IF i = w THEN 0 ELSE s[i + 1] + Base * value[i + 1]
  BY <1>6
<1>8. Values(value, s)
  <2>1. value[w] = 0
    BY <1>7
  <2>2. ASSUME NEW i \in 1..w PROVE value[i - 1] = s[i] + Base * value[i]
    <3>1. i - 1 \in 0..w /\ i - 1 # w /\ (i - 1) + 1 = i
      OBVIOUS
    <3>. QED  BY <1>7, <3>1
  <2>. QED  BY <2>1, <2>2 DEF Values
<1>9. \A i \in 0..w : value[i] \in Nat
  <2>. DEFINE T == {j \in 0..w : value[w - j] \in Nat}
  <2>1. 0 \in T
    BY <1>7
  <2>2. ASSUME NEW k \in 1..w, k - 1 \in T PROVE k \in T
    <3>1. w - k \in 0..w /\ w - k # w /\ (w - k) + 1 = w - (k - 1) /\ (w - k) + 1 \in 1..Len(s)
      OBVIOUS
    <3>2. value[w - k] = s[(w - k) + 1] + Base * value[(w - k) + 1]
      BY <1>7, <3>1
    <3>3. s[(w - k) + 1] \in Nat /\ value[(w - k) + 1] \in Nat
      BY <2>2, <3>1
    <3>4. Base * value[(w - k) + 1] \in Nat
      <4>. HIDE DEF T, Is, step, w, g
      <4>. QED  BY <3>3, BaseNat, Product
    <3>5. value[w - k] \in Nat
      <4>. HIDE DEF T, Is, step, w, g
      <4>. QED  BY <3>2, <3>3, <3>4
    <3>. QED  BY <3>5
  <2>3. \A j \in 0..w : j \in T
    <3>. HIDE DEF T
    <3>. QED  BY <1>2, <2>1, <2>2, UpTo
  <2>4. ASSUME NEW i \in 0..w PROVE value[i] \in Nat
    <3>1. w - i \in 0..w /\ w - (w - i) = i
      OBVIOUS
    <3>. QED  BY <2>3, <3>1
  <2>. QED  BY <2>4
<1>10. value \in [0..w -> Nat]
  <2>1. value = [i \in 0..w |-> value[i]]
    BY <1>6
  <2>. HIDE DEF Is
  <2>. QED  BY <1>9, <2>1
<1>. HIDE DEF Is
<1>. QED  BY <1>6, <1>8, <1>10

LEMMA FromLEType ==
    ASSUME NEW s \in Seq(Nat)
    PROVE  FromLE(s) \in Nat
<1>1. PICK value \in [0..Len(s) -> Nat] : FromLE(s) = value[0]
  BY FromLEUnfolds
<1>. QED  BY <1>1

\* The digits read back, when they are enough.
LEMMA ReadsBack ==
    ASSUME NEW n \in Nat, NEW w \in Nat,
           \A rest : Rests(rest, w, n) => rest[w] = 0
    PROVE  FromLE(LE(w, n)) = n
<1>1. PICK rest \in [0..w -> Nat] :
        Rests(rest, w, n) /\ LE(w, n) = [i \in 1..w |-> rest[i - 1] % Base]
  BY LEUnfolds
<1>. DEFINE s == LE(w, n)
<1>2. s \in Seq(Nat) /\ Len(s) = w
  BY LEType
<1>3. PICK value \in [0..Len(s) -> Nat] : Values(value, s) /\ FromLE(s) = value[0]
  <2>. HIDE DEF s
  <2>. QED  BY <1>2, FromLEUnfolds
<1>. DEFINE T == {j \in 0..w : value[w - j] = rest[w - j]}
<1>4. 0 \in T
  <2>1. rest[w] = 0
    BY <1>1
  <2>. QED  BY <1>2, <1>3, <2>1 DEF Values
<1>5. ASSUME NEW k \in 1..w, k - 1 \in T PROVE k \in T
  <2>. DEFINE i == (w - k) + 1
  <2>1. i \in 1..w /\ i - 1 = w - k /\ i = w - (k - 1)
    OBVIOUS
  <2>2. value[i - 1] = s[i] + Base * value[i]
    <3>. HIDE DEF i, s
    <3>. QED  BY <1>2, <1>3, <2>1 DEF Values
  <2>3. s[i] = rest[i - 1] % Base /\ rest[i] = rest[i - 1] \div Base /\ rest[i - 1] \in Nat
    <3>. HIDE DEF i
    <3>. QED  BY <1>1, <2>1 DEF Rests
  <2>4. value[i] = rest[i]
    BY <1>5, <2>1
  <2>5. rest[i - 1] = Base * (rest[i - 1] \div Base) + (rest[i - 1] % Base)
        /\ rest[i - 1] \div Base \in Nat /\ rest[i - 1] % Base \in Nat
    <3>. HIDE DEF i, s
    <3>. QED  BY <2>3, BaseNat, DivMod
  <2>6. value[i - 1] = rest[i - 1]
    <3>1. Base * (rest[i - 1] \div Base) \in Nat
      <4>. HIDE DEF i, s
      <4>. QED  BY <2>5, BaseNat, Product
    <3>. HIDE DEF i, s
    <3>. QED  BY <2>2, <2>3, <2>4, <2>5, <3>1
  <2>. QED  BY <2>1, <2>6
<1>6. \A j \in 0..w : j \in T
  <2>. HIDE DEF T
  <2>. QED  BY <1>4, <1>5, UpTo
<1>7. value[0] = rest[0]
  <2>1. w \in T
    <3>. HIDE DEF T
    <3>. QED  BY <1>6
  <2>. QED  BY <2>1
<1>. QED  BY <1>1, <1>3, <1>7 DEF Rests

LEMMA ReadsBack2 ==
    ASSUME NEW n \in Nat, n <= U16Max
    PROVE  FromLE(LE(2, n)) = n
<1>1. ASSUME NEW rest, Rests(rest, 2, n) PROVE rest[2] = 0
  <2>1. rest[0] = n /\ rest[1] = rest[0] \div Base /\ rest[2] = rest[1] \div Base
    BY <1>1 DEF Rests
  <2>2. n < Base * Base
    BY BaseNat DEF U16Max
  <2>3. rest[1] \in Nat /\ rest[1] < Base * 1
    BY <2>1, <2>2, BaseNat, DivMod, DivBelow
  <2>4. rest[2] \in Nat /\ rest[2] < 1
    BY <2>1, <2>3, BaseNat, DivMod, DivBelow
  <2>. QED  BY <2>4
<1>. QED  BY <1>1, ReadsBack

LEMMA ReadsBack4 ==
    ASSUME NEW n \in Nat, n <= U32Max
    PROVE  FromLE(LE(4, n)) = n
<1>1. ASSUME NEW rest, Rests(rest, 4, n) PROVE rest[4] = 0
  <2>1. /\ rest[0] = n /\ rest[1] = rest[0] \div Base /\ rest[2] = rest[1] \div Base
        /\ rest[3] = rest[2] \div Base /\ rest[4] = rest[3] \div Base
    BY <1>1 DEF Rests
  <2>. DEFINE b2 == Base * Base
              b3 == Base * b2
  <2>2. b2 \in Nat /\ b3 \in Nat
    BY BaseNat
  <2>3. n < Base * b3
    <3>1. Base * Base * Base * Base = Base * b3
      BY BaseNat
    <3>2. Base * b3 \in Nat
      BY <2>2, BaseNat
    <3>. QED  BY <3>1, <3>2 DEF U32Max
  <2>4. rest[1] \in Nat /\ rest[1] < b3
    <3>. HIDE DEF b3
    <3>. QED  BY <2>1, <2>2, <2>3, BaseNat, DivMod, DivBelow
  <2>5. rest[2] \in Nat /\ rest[2] < b2
    <3>1. rest[1] < Base * b2
      BY <2>4
    <3>. HIDE DEF b2, b3
    <3>. QED  BY <2>1, <2>2, <2>4, <3>1, BaseNat, DivMod, DivBelow
  <2>6. rest[3] \in Nat /\ rest[3] < Base * 1
    <3>1. rest[2] < Base * Base
      BY <2>5
    <3>. HIDE DEF b2, b3
    <3>. QED  BY <2>1, <2>5, <3>1, BaseNat, DivMod, DivBelow
  <2>7. rest[4] \in Nat /\ rest[4] < 1
    <3>. HIDE DEF b2, b3
    <3>. QED  BY <2>1, <2>6, BaseNat, DivMod, DivBelow
  <2>. QED  BY <2>7
<1>. QED  BY <1>1, ReadsBack

----------------------------------------------------------------------------
(* Concatenations.                                                         *)

\* Concatenation, by a name the provers do not look into.
Cat(s, t) == s \o t

LEMMA CatType ==
    ASSUME NEW S, NEW s \in Seq(S), NEW t \in Seq(S)
    PROVE  Cat(s, t) \in Seq(S) /\ Len(Cat(s, t)) = Len(s) + Len(t)
BY ConcatProperties DEF Cat

LEMMA CatFront ==
    ASSUME NEW S, NEW s \in Seq(S), NEW t \in Seq(S)
    PROVE  \A i \in 1..Len(s) : Cat(s, t)[i] = s[i]
BY ConcatProperties DEF Cat

LEMMA CatBack ==
    ASSUME NEW S, NEW s \in Seq(S), NEW t \in Seq(S)
    PROVE  \A i \in 1..Len(t) : Cat(s, t)[Len(s) + i] = t[i]
BY ConcatProperties DEF Cat

LEMMA CatEmpty ==
    ASSUME NEW S, NEW s \in Seq(S)
    PROVE  Cat(<<>>, s) = s /\ Cat(s, <<>>) = s
BY ConcatEmptySeq DEF Cat

LEMMA CatAssociative ==
    ASSUME NEW S, NEW s \in Seq(S), NEW t \in Seq(S), NEW u \in Seq(S)
    PROVE  Cat(Cat(s, t), u) = Cat(s, Cat(t, u))
BY ConcatAssociative DEF Cat

LEMMA CatAppend ==
    ASSUME NEW S, NEW s \in Seq(S), NEW t \in Seq(S), NEW x \in S
    PROVE  Cat(s, Append(t, x)) = Append(Cat(s, t), x)
BY DEF Cat

\* What FlattenSeq has concatenated after each sequence.
Joins(flat, ss) == flat[0] = <<>> /\ \A i \in 1..Len(ss) : flat[i] = Cat(flat[i - 1], ss[i])

LEMMA FlattenUnfolds ==
    ASSUME NEW T, NEW ss \in Seq(Seq(T))
    PROVE  \E flat \in [0..Len(ss) -> Seq(T)] :
             Joins(flat, ss) /\ FlattenSeq(ss) = flat[Len(ss)]
<1>. DEFINE n == Len(ss)
            step == [p \in Seq(T) \X (1..n) |-> Cat(p[1], ss[p[2]])]
            Is(g) == g = [i \in 1..n |-> IF i = 1 THEN ss[i] ELSE Cat(g[i - 1], ss[i])]
<1>1. n \in Nat /\ <<>> \in Seq(T) /\ \A i \in 1..n : ss[i] \in Seq(T)
  OBVIOUS
<1>2. step \in [Seq(T) \X (1..n) -> Seq(T)]
  <2>1. ASSUME NEW s \in Seq(T), NEW i \in 1..n PROVE Cat(s, ss[i]) \in Seq(T)
    BY <1>1, CatType
  <2>. QED  BY <2>1
<1>3. PICK f \in [0..n -> Seq(T)] : Follows(f, n, <<>>, step)
  <2>. HIDE DEF step, n
  <2>. QED  BY <1>1, <1>2, Recursion
<1>4. f[0] = <<>> /\ \A i \in 1..n : f[i] = Cat(f[i - 1], ss[i])
  <2>1. ASSUME NEW i \in 1..n PROVE f[i - 1] \in Seq(T)
    <3>1. i - 1 \in 0..n
      BY <1>1
    <3>. QED  BY <3>1
  <2>2. \A i \in 1..n : step[<<f[i - 1], i>>] = Cat(f[i - 1], ss[i])
    BY <2>1
  <2>. HIDE DEF step, n
  <2>. QED  BY <1>3, <2>2 DEF Follows
<1>5. CASE n = 0
  <2>1. FlattenSeq(ss) = <<>>
    BY <1>5 DEF FlattenSeq
  <2>. QED  BY <1>4, <1>5, <2>1 DEF Joins
<1>6. CASE n > 0
  <2>. DEFINE g == [i \in 1..n |-> f[i]]
  <2>1. Is(g)
    <3>1. g[1] = ss[1]
      <4>1. f[1] = Cat(<<>>, ss[1]) /\ ss[1] \in Seq(T)
        BY <1>1, <1>4, <1>6
      <4>2. Cat(<<>>, ss[1]) = ss[1]
        BY <4>1, CatEmpty
      <4>. QED  BY <1>1, <1>6, <4>1, <4>2
    <3>2. ASSUME NEW i \in 1..n, i # 1 PROVE g[i] = Cat(g[i - 1], ss[i])
      <4>1. i - 1 \in 1..n
        BY <3>2
      <4>2. g[i] = f[i] /\ g[i - 1] = f[i - 1]
        BY <4>1
      <4>. HIDE DEF g
      <4>. QED  BY <1>4, <4>2
    <3>3. g = [i \in 1..n |-> g[i]]
      OBVIOUS
    <3>. HIDE DEF g
    <3>. QED  BY <3>1, <3>2, <3>3
  <2>2. FlattenSeq(ss) = (CHOOSE c : Is(c))[n]
    BY <1>6 DEF FlattenSeq, Cat
  <2>3. PICK c : Is(c) /\ FlattenSeq(ss) = c[n]
    <3>. HIDE DEF Is, g
    <3>. QED  BY <2>1, <2>2
  <2>4. \A i \in 1..n : c[i] = IF i = 1 THEN ss[i] ELSE Cat(c[i - 1], ss[i])
    BY <2>3
  <2>. DEFINE A == {i \in 0..n : i = 0 \/ c[i] = f[i]}
  <2>5. 0 \in A
    BY <1>1
  <2>6. ASSUME NEW k \in 1..n, k - 1 \in A PROVE k \in A
    <3>1. CASE k = 1
      <4>1. f[1] = Cat(<<>>, ss[1]) /\ ss[1] \in Seq(T) /\ c[1] = ss[1]
        BY <1>1, <1>4, <1>6, <2>4
      <4>2. Cat(<<>>, ss[1]) = ss[1]
        BY <4>1, CatEmpty
      <4>. QED  BY <1>1, <3>1, <4>1, <4>2
    <3>2. CASE k # 1
      <4>1. c[k - 1] = f[k - 1]
        BY <2>6, <3>2
      <4>2. c[k] = Cat(c[k - 1], ss[k]) /\ f[k] = Cat(f[k - 1], ss[k])
        BY <1>4, <2>4, <3>2
      <4>. QED  BY <4>1, <4>2
    <3>. QED  BY <3>1, <3>2
  <2>7. \A i \in 0..n : i \in A
    <3>. HIDE DEF A, n
    <3>. QED  BY <1>1, <2>5, <2>6, UpTo
  <2>8. c[n] = f[n]
    BY <1>1, <1>6, <2>7
  <2>. QED  BY <1>4, <2>3, <2>8 DEF Joins
<1>. QED  BY <1>1, <1>5, <1>6

LEMMA FlattenType ==
    ASSUME NEW T, NEW ss \in Seq(Seq(T))
    PROVE  FlattenSeq(ss) \in Seq(T)
<1>1. PICK flat \in [0..Len(ss) -> Seq(T)] : FlattenSeq(ss) = flat[Len(ss)]
  BY FlattenUnfolds
<1>. QED  BY <1>1

LEMMA FlattenEmpty == FlattenSeq(<<>>) = <<>>
BY DEF FlattenSeq

\* The same sequences in front are the same concatenation.
LEMMA JoinsAgree ==
    ASSUME NEW f, NEW g, NEW ss, NEW tt, NEW n \in Nat, n <= Len(ss), n <= Len(tt),
           Len(ss) \in Nat, Len(tt) \in Nat,
           \A i \in 1..n : ss[i] = tt[i], Joins(f, ss), Joins(g, tt)
    PROVE  f[n] = g[n]
<1>. DEFINE A == {i \in 0..n : f[i] = g[i]}
<1>1. 0 \in A
  BY DEF Joins
<1>2. ASSUME NEW k \in 1..n, k - 1 \in A PROVE k \in A
  <2>1. f[k - 1] = g[k - 1] /\ k \in 1..Len(ss) /\ k \in 1..Len(tt)
    BY <1>2
  <2>2. f[k] = Cat(f[k - 1], ss[k]) /\ g[k] = Cat(g[k - 1], tt[k])
    BY <2>1 DEF Joins
  <2>. QED  BY <2>1, <2>2
<1>3. \A i \in 0..n : i \in A
  <2>. HIDE DEF A
  <2>. QED  BY <1>1, <1>2, UpTo
<1>. QED  BY <1>3

LEMMA FlattenAppend ==
    ASSUME NEW T, NEW ss \in Seq(Seq(T)), NEW s \in Seq(T)
    PROVE  FlattenSeq(Append(ss, s)) = Cat(FlattenSeq(ss), s)
<1>. DEFINE tt == Append(ss, s)
            n == Len(ss)
<1>1. tt \in Seq(Seq(T)) /\ Len(tt) = n + 1 /\ n \in Nat /\ tt[n + 1] = s
      /\ \A i \in 1..n : tt[i] = ss[i]
  OBVIOUS
<1>2. PICK f \in [0..n -> Seq(T)] : Joins(f, ss) /\ FlattenSeq(ss) = f[n]
  BY FlattenUnfolds
<1>3. PICK g : Joins(g, tt) /\ FlattenSeq(tt) = g[n + 1]
  <2>1. PICK g \in [0..Len(tt) -> Seq(T)] : Joins(g, tt) /\ FlattenSeq(tt) = g[Len(tt)]
    <3>. HIDE DEF tt, n
    <3>. QED  BY <1>1, FlattenUnfolds
  <2>. QED  BY <1>1, <2>1
<1>4. f[n] = g[n]
  <2>1. n <= Len(ss) /\ n <= Len(tt) /\ Len(ss) \in Nat /\ Len(tt) \in Nat
    BY <1>1
  <2>. HIDE DEF tt, n
  <2>. QED  BY <1>1, <1>2, <1>3, <2>1, JoinsAgree
<1>5. g[n + 1] = Cat(g[n], s)
  <2>1. n + 1 \in 1..Len(tt) /\ (n + 1) - 1 = n
    BY <1>1
  <2>. HIDE DEF tt, n
  <2>. QED  BY <1>1, <1>3, <2>1 DEF Joins
<1>. HIDE DEF tt
<1>. QED  BY <1>2, <1>3, <1>4, <1>5, SMTT(30)

\* All but the last, and the last.
LEMMA SplitLast ==
    ASSUME NEW S, NEW s \in Seq(S), NEW k \in 1..Len(s)
    PROVE  /\ SubSeq(s, 1, k - 1) \in Seq(S) /\ Len(SubSeq(s, 1, k - 1)) = k - 1
           /\ s[k] \in S
           /\ SubSeq(s, 1, k) = Append(SubSeq(s, 1, k - 1), s[k])
<1>1. k - 1 \in Int /\ \A i \in 1..(k - 1) : s[i] \in S
  OBVIOUS
<1>2. /\ SubSeq(s, 1, k - 1) \in Seq(S) /\ Len(SubSeq(s, 1, k - 1)) = k - 1
      /\ \A i \in 1..(k - 1) : SubSeq(s, 1, k - 1)[i] = s[i]
  BY <1>1, SubSeqProperties
<1>3. /\ SubSeq(s, 1, k) \in Seq(S) /\ Len(SubSeq(s, 1, k)) = k
      /\ \A i \in 1..k : SubSeq(s, 1, k)[i] = s[i]
  OBVIOUS
<1>4. Append(SubSeq(s, 1, k - 1), s[k]) \in Seq(S)
      /\ Len(Append(SubSeq(s, 1, k - 1), s[k])) = k
  BY <1>2
<1>5. \A i \in 1..k : SubSeq(s, 1, k)[i] = Append(SubSeq(s, 1, k - 1), s[k])[i]
  <2>1. ASSUME NEW i \in 1..k PROVE SubSeq(s, 1, k)[i] = Append(SubSeq(s, 1, k - 1), s[k])[i]
    <3>1. CASE i = k
      BY <1>2, <1>3, <3>1
    <3>2. CASE i \in 1..(k - 1)
      BY <1>2, <1>3, <3>2
    <3>. QED  BY <3>1, <3>2
  <2>. QED  BY <2>1
<1>. QED  BY <1>2, <1>3, <1>4, <1>5, SeqEqual

LEMMA FlattenConcat ==
    ASSUME NEW T, NEW ss \in Seq(Seq(T)), NEW tt \in Seq(Seq(T))
    PROVE  FlattenSeq(Cat(ss, tt)) = Cat(FlattenSeq(ss), FlattenSeq(tt))
<1>. DEFINE n == Len(tt)
            front(i) == SubSeq(tt, 1, i)
            A == {i \in 0..n : FlattenSeq(Cat(ss, front(i))) = Cat(FlattenSeq(ss), FlattenSeq(front(i)))}
<1>0. n \in Nat /\ FlattenSeq(ss) \in Seq(T)
  BY FlattenType
<1>1. 0 \in A
  <2>1. front(0) = <<>>
    BY SubSeqEmpty
  <2>2. Cat(ss, <<>>) = ss /\ Cat(FlattenSeq(ss), <<>>) = FlattenSeq(ss)
    BY <1>0, CatEmpty
  <2>3. FlattenSeq(Cat(ss, front(0))) = Cat(FlattenSeq(ss), FlattenSeq(front(0)))
    BY <2>1, <2>2, FlattenEmpty
  <2>. QED  BY <1>0, <2>3
<1>2. ASSUME NEW k \in 1..n, k - 1 \in A PROVE k \in A
  <2>1. /\ front(k - 1) \in Seq(Seq(T)) /\ tt[k] \in Seq(T)
        /\ front(k) = Append(front(k - 1), tt[k])
    BY SplitLast
  <2>. DEFINE u == front(k - 1)
              x == tt[k]
  <2>2. u \in Seq(Seq(T)) /\ x \in Seq(T) /\ front(k) = Append(u, x)
        /\ FlattenSeq(Cat(ss, u)) = Cat(FlattenSeq(ss), FlattenSeq(u))
    BY <1>2, <2>1
  <2>. HIDE DEF u, x, front
  <2>3. Cat(ss, Append(u, x)) = Append(Cat(ss, u), x) /\ Cat(ss, u) \in Seq(Seq(T))
    BY <2>2, CatAppend, CatType
  <2>4. FlattenSeq(Append(Cat(ss, u), x)) = Cat(FlattenSeq(Cat(ss, u)), x)
    BY <2>2, <2>3, FlattenAppend
  <2>5. FlattenSeq(Append(u, x)) = Cat(FlattenSeq(u), x) /\ FlattenSeq(u) \in Seq(T)
    BY <2>2, FlattenAppend, FlattenType
  <2>6. Cat(Cat(FlattenSeq(ss), FlattenSeq(u)), x) = Cat(FlattenSeq(ss), Cat(FlattenSeq(u), x))
    BY <1>0, <2>2, <2>5, CatAssociative
  <2>7. FlattenSeq(Cat(ss, front(k))) = Cat(FlattenSeq(ss), FlattenSeq(front(k)))
    BY <2>2, <2>3, <2>4, <2>5, <2>6
  <2>. QED  BY <2>7
<1>3. \A i \in 0..n : i \in A
  <2>. HIDE DEF A, n
  <2>. QED  BY <1>0, <1>1, <1>2, UpTo
<1>4. n \in A /\ front(n) = tt
  <2>1. n \in A
    <3>. HIDE DEF A
    <3>. QED  BY <1>0, <1>3
  <2>. QED  BY <2>1, SubSeqFull
<1>5. FlattenSeq(Cat(ss, front(n))) = Cat(FlattenSeq(ss), FlattenSeq(front(n)))
  BY <1>4
<1>. HIDE DEF front
<1>. QED  BY <1>4, <1>5

----------------------------------------------------------------------------
(* Packets.                                                                *)

\* What a packet can hold: its length is a u32.
Short == {x \in Seq(Nat) : Len(x) <= U32Max}

\* Packets one behind the other.
Framed(xs) == Concat(Packet, xs)

LEMMA PacketType ==
    ASSUME NEW x \in Seq(Nat)
    PROVE  /\ Packet(x) = Cat(LE(4, Len(x)), x)
           /\ Packet(x) \in Seq(Nat) /\ Len(Packet(x)) = 4 + Len(x)
           /\ \A i \in 1..4 : Packet(x)[i] = LE(4, Len(x))[i]
           /\ \A i \in 1..Len(x) : Packet(x)[4 + i] = x[i]
<1>1. Len(x) \in Nat
  OBVIOUS
<1>2. LE(4, Len(x)) \in Seq(Nat) /\ Len(LE(4, Len(x))) = 4
  BY <1>1, LEType
<1>3. Packet(x) = Cat(LE(4, Len(x)), x)
  BY DEF Packet, Cat
<1>. DEFINE l == LE(4, Len(x))
<1>4. l \in Seq(Nat)
  BY <1>2
<1>8. Len(l) = 4
  BY <1>2
<1>. HIDE DEF l
<1>5. Cat(l, x) \in Seq(Nat) /\ Len(Cat(l, x)) = Len(l) + Len(x)
  BY <1>4, CatType
<1>6. \A i \in 1..Len(l) : Cat(l, x)[i] = l[i]
  BY <1>4, CatFront
<1>7. \A i \in 1..Len(x) : Cat(l, x)[Len(l) + i] = x[i]
  BY <1>4, CatBack
<1>. QED  BY <1>1, <1>3, <1>4, <1>5, <1>6, <1>7, <1>8 DEF l

LEMMA PacketsType ==
    ASSUME NEW xs \in Seq(Seq(Nat))
    PROVE  LET ps == [i \in 1..Len(xs) |-> Packet(xs[i])]
           IN  /\ ps \in Seq(Seq(Nat)) /\ Len(ps) = Len(xs)
               /\ \A i \in 1..Len(xs) : ps[i] = Packet(xs[i])
<1>1. ASSUME NEW i \in 1..Len(xs) PROVE Packet(xs[i]) \in Seq(Nat)
  <2>1. xs[i] \in Seq(Nat)
    OBVIOUS
  <2>. QED  BY <2>1, PacketType
<1>. QED  BY <1>1

LEMMA FramedType ==
    ASSUME NEW xs \in Seq(Seq(Nat))
    PROVE  Framed(xs) \in Seq(Nat)
<1>1. Framed(xs) = FlattenSeq([i \in 1..Len(xs) |-> Packet(xs[i])])
  BY DEF Framed, Concat
<1>. QED  BY <1>1, PacketsType, FlattenType

LEMMA FramedEmpty == Framed(<<>>) = <<>>
<1>1. [i \in 1..0 |-> Packet(<<>>[i])] = <<>>
  OBVIOUS
<1>2. Framed(<<>>) = FlattenSeq([i \in 1..0 |-> Packet(<<>>[i])])
  BY DEF Framed, Concat
<1>. QED  BY <1>1, <1>2, FlattenEmpty

LEMMA FramedConcat ==
    ASSUME NEW xs \in Seq(Seq(Nat)), NEW ys \in Seq(Seq(Nat))
    PROVE  Framed(Cat(xs, ys)) = Cat(Framed(xs), Framed(ys))
<1>. DEFINE ps(zs) == [i \in 1..Len(zs) |-> Packet(zs[i])]
            zz == Cat(xs, ys)
<1>1. \A zs \in Seq(Seq(Nat)) :
        /\ ps(zs) \in Seq(Seq(Nat)) /\ Len(ps(zs)) = Len(zs)
        /\ \A i \in 1..Len(zs) : ps(zs)[i] = Packet(zs[i])
  BY PacketsType
<1>2. \A zs : Framed(zs) = FlattenSeq(ps(zs))
  BY DEF Framed, Concat
<1>3. /\ zz \in Seq(Seq(Nat)) /\ Len(zz) = Len(xs) + Len(ys)
      /\ Len(xs) \in Nat /\ Len(ys) \in Nat
      /\ \A i \in 1..Len(xs) : zz[i] = xs[i]
      /\ \A i \in 1..Len(ys) : zz[Len(xs) + i] = ys[i]
  <2>1. Len(xs) \in Nat /\ Len(ys) \in Nat
    OBVIOUS
  <2>2. zz \in Seq(Seq(Nat)) /\ Len(zz) = Len(xs) + Len(ys)
    BY CatType
  <2>3. \A i \in 1..Len(xs) : zz[i] = xs[i]
    BY CatFront
  <2>4. \A i \in 1..Len(ys) : zz[Len(xs) + i] = ys[i]
    BY CatBack
  <2>. HIDE DEF zz
  <2>. QED  BY <2>1, <2>2, <2>3, <2>4
<1>. HIDE DEF ps, zz
<1>4. ps(zz) = Cat(ps(xs), ps(ys))
  <2>1. /\ Cat(ps(xs), ps(ys)) \in Seq(Seq(Nat))
        /\ Len(Cat(ps(xs), ps(ys))) = Len(xs) + Len(ys)
        /\ \A i \in 1..Len(xs) : Cat(ps(xs), ps(ys))[i] = ps(xs)[i]
        /\ \A i \in 1..Len(ys) : Cat(ps(xs), ps(ys))[Len(xs) + i] = ps(ys)[i]
    <3>1. ps(xs) \in Seq(Seq(Nat)) /\ ps(ys) \in Seq(Seq(Nat))
          /\ Len(ps(xs)) = Len(xs) /\ Len(ps(ys)) = Len(ys)
      BY <1>1
    <3>. DEFINE u == ps(xs)
                v == ps(ys)
    <3>2. u \in Seq(Seq(Nat)) /\ v \in Seq(Seq(Nat)) /\ Len(u) = Len(xs) /\ Len(v) = Len(ys)
      BY <3>1
    <3>. HIDE DEF u, v
    <3>3. Cat(u, v) \in Seq(Seq(Nat)) /\ Len(Cat(u, v)) = Len(u) + Len(v)
      BY <3>2, CatType
    <3>4. \A i \in 1..Len(u) : Cat(u, v)[i] = u[i]
      BY <3>2, CatFront
    <3>5. \A i \in 1..Len(v) : Cat(u, v)[Len(u) + i] = v[i]
      BY <3>2, CatBack
    <3>. QED  BY <3>2, <3>3, <3>4, <3>5 DEF u, v
  <2>2. ASSUME NEW i \in 1..(Len(xs) + Len(ys)) PROVE ps(zz)[i] = Cat(ps(xs), ps(ys))[i]
    <3>1. ps(zz)[i] = Packet(zz[i])
      BY <1>1, <1>3
    <3>2. CASE i \in 1..Len(xs)
      BY <1>1, <1>3, <2>1, <3>1, <3>2
    <3>3. CASE i \notin 1..Len(xs)
      <4>1. i - Len(xs) \in 1..Len(ys) /\ Len(xs) + (i - Len(xs)) = i
        BY <1>3, <3>3
      <4>2. zz[i] = ys[i - Len(xs)] /\ Cat(ps(xs), ps(ys))[i] = ps(ys)[i - Len(xs)]
        BY <1>3, <2>1, <4>1
      <4>3. ps(ys)[i - Len(xs)] = Packet(ys[i - Len(xs)])
        BY <1>1, <4>1
      <4>. QED  BY <3>1, <4>2, <4>3
    <3>. QED  BY <3>2, <3>3
  <2>3. ps(zz) \in Seq(Seq(Nat)) /\ Len(ps(zz)) = Len(xs) + Len(ys)
    BY <1>1, <1>3
  <2>. QED  BY <2>1, <2>2, <2>3, SeqEqual
<1>5. ps(xs) \in Seq(Seq(Nat)) /\ ps(ys) \in Seq(Seq(Nat))
  BY <1>1
<1>6. FlattenSeq(Cat(ps(xs), ps(ys))) = Cat(FlattenSeq(ps(xs)), FlattenSeq(ps(ys)))
  BY <1>5, FlattenConcat
<1>. QED  BY <1>2, <1>4, <1>6 DEF zz

LEMMA FramedOne ==
    ASSUME NEW x \in Seq(Nat)
    PROVE  Framed(<<x>>) = Packet(x)
<1>1. Packet(x) \in Seq(Nat) /\ <<>> \in Seq(Seq(Nat)) /\ <<>> \in Seq(Nat)
  BY PacketType
<1>2. [i \in 1..1 |-> Packet(<<x>>[i])] = Append(<<>>, Packet(x))
  <2>1. [i \in 1..1 |-> Packet(<<x>>[i])] = [i \in 1..1 |-> Packet(x)]
    <3>1. \A i \in 1..1 : <<x>>[i] = x
      OBVIOUS
    <3>. QED  BY <3>1
  <2>2. Append(<<>>, Packet(x)) = <<Packet(x)>>
    BY <1>1
  <2>3. [i \in 1..1 |-> Packet(x)] = <<Packet(x)>>
    OBVIOUS
  <2>. QED  BY <2>1, <2>2, <2>3
<1>3. Framed(<<x>>) = FlattenSeq([i \in 1..1 |-> Packet(<<x>>[i])])
  BY DEF Framed, Concat
<1>4. FlattenSeq(Append(<<>>, Packet(x))) = Cat(FlattenSeq(<<>>), Packet(x))
  BY <1>1, FlattenAppend
<1>. QED  BY <1>1, <1>2, <1>3, <1>4, FlattenEmpty, CatEmpty

\* s up to position i, and behind it.
Prefix(s, i) == SubSeq(s, 1, i)
Suffix(s, i) == SubSeq(s, i + 1, Len(s))

LEMMA Parts ==
    ASSUME NEW S, NEW s \in Seq(S), NEW i \in 0..Len(s)
    PROVE  /\ Prefix(s, i) \in Seq(S) /\ Len(Prefix(s, i)) = i
           /\ Suffix(s, i) \in Seq(S) /\ Len(Suffix(s, i)) = Len(s) - i
           /\ s = Cat(Prefix(s, i), Suffix(s, i))
<1>1. Prefix(s, i) \in Seq(S) /\ Len(Prefix(s, i)) = i
  <2>1. \A j \in 1..i : s[j] \in S
    OBVIOUS
  <2>. QED  BY <2>1, SubSeqProperties DEF Prefix
<1>2. Suffix(s, i) \in Seq(S) /\ Len(Suffix(s, i)) = Len(s) - i
  <2>1. \A j \in (i + 1)..Len(s) : s[j] \in S
    OBVIOUS
  <2>. QED  BY <2>1, SubSeqProperties DEF Suffix
<1>3. s = Cat(Prefix(s, i), Suffix(s, i))
  <2>. DEFINE m == 1
              n == Len(s)
  <2>1. m \in 1..(Len(s) + 1) /\ i \in (m - 1)..Len(s) /\ n \in i..Len(s)
    OBVIOUS
  <2>2. SubSeq(s, m, i) \o SubSeq(s, i + 1, n) = SubSeq(s, m, n)
    <3>. HIDE DEF m, n
    <3>. QED  BY <2>1, ConcatAdjacentSubSeq
  <2>. QED  BY <2>2, SubSeqFull DEF Cat, Prefix, Suffix
<1>. QED  BY <1>1, <1>2, <1>3

LEMMA PrefixElements ==
    ASSUME NEW S, NEW s \in Seq(S), NEW i \in 0..Len(s), NEW j \in 1..i
    PROVE  Prefix(s, i)[j] = s[j]
BY DEF Prefix

LEMMA PrefixMoves ==
    ASSUME NEW S, NEW s \in Seq(S), NEW i \in 1..Len(s)
    PROVE  Prefix(s, i) = Cat(Prefix(s, i - 1), <<s[i]>>)
<1>1. SubSeq(s, 1, i - 1) \in Seq(S) /\ s[i] \in S
      /\ SubSeq(s, 1, i) = Append(SubSeq(s, 1, i - 1), s[i])
  BY SplitLast
<1>2. Append(SubSeq(s, 1, i - 1), s[i]) = SubSeq(s, 1, i - 1) \o <<s[i]>>
  BY <1>1, AppendIsConcat
<1>. QED  BY <1>1, <1>2 DEF Prefix, Cat

LEMMA Middle ==
    ASSUME NEW S, NEW a \in Seq(S), NEW b \in Seq(S), NEW c \in Seq(S)
    PROVE  SubSeq(Cat(a, Cat(b, c)), Len(a) + 1, Len(a) + Len(b)) = b
<1>. DEFINE e == Cat(b, c)
            d == Cat(a, e)
            s == SubSeq(d, Len(a) + 1, Len(a) + Len(b))
<1>1. e \in Seq(S) /\ Len(e) = Len(b) + Len(c)
  BY CatType
<1>2. \A i \in 1..Len(b) : e[i] = b[i]
  BY CatFront
<1>. HIDE DEF e
<1>3. d \in Seq(S) /\ Len(d) = Len(a) + Len(e)
  BY <1>1, CatType
<1>4. \A i \in 1..Len(e) : d[Len(a) + i] = e[i]
  BY <1>1, CatBack
<1>. HIDE DEF d
<1>5. Len(a) \in Nat /\ Len(b) \in Nat /\ Len(c) \in Nat
  OBVIOUS
<1>6. s \in Seq(S) /\ Len(s) = Len(b)
  <2>1. \A i \in (Len(a) + 1)..(Len(a) + Len(b)) : d[i] \in S
    BY <1>1, <1>3, <1>5
  <2>. QED  BY <1>5, <2>1, SubSeqProperties
<1>7. ASSUME NEW i \in 1..Len(b) PROVE s[i] = b[i]
  <2>1. s[i] = d[Len(a) + i]
    BY <1>1, <1>3, <1>5
  <2>2. i \in 1..Len(e)
    BY <1>1, <1>5
  <2>3. d[Len(a) + i] = e[i] /\ e[i] = b[i]
    BY <1>2, <1>4, <2>2
  <2>. QED  BY <2>1, <2>3
<1>8. s = b
  <2>. HIDE DEF s
  <2>. QED  BY <1>6, <1>7, SeqEqual
<1>. QED  BY <1>8 DEF s, d, e

\* Where the packets of the first i of xs end.
End(xs, i) == Len(Framed(Prefix(xs, i)))

LEMMA EndStart ==
    ASSUME NEW xs \in Seq(Seq(Nat))
    PROVE  End(xs, 0) = 0 /\ End(xs, Len(xs)) = Len(Framed(xs))
<1>1. Prefix(xs, 0) = <<>>
  BY SubSeqEmpty DEF Prefix
<1>2. Prefix(xs, Len(xs)) = xs
  BY SubSeqFull DEF Prefix
<1>. QED  BY <1>1, <1>2, FramedEmpty DEF End

LEMMA EndType ==
    ASSUME NEW xs \in Seq(Seq(Nat)), NEW i \in 0..Len(xs)
    PROVE  End(xs, i) \in Nat /\ End(xs, i) <= Len(Framed(xs))
<1>1. /\ Prefix(xs, i) \in Seq(Seq(Nat)) /\ Suffix(xs, i) \in Seq(Seq(Nat))
      /\ xs = Cat(Prefix(xs, i), Suffix(xs, i))
  BY Parts
<1>2. Framed(xs) = Cat(Framed(Prefix(xs, i)), Framed(Suffix(xs, i)))
  BY <1>1, FramedConcat
<1>. DEFINE f == Framed(Prefix(xs, i))
            b == Framed(Suffix(xs, i))
<1>3. f \in Seq(Nat) /\ b \in Seq(Nat)
  BY <1>1, FramedType
<1>4. Len(Cat(f, b)) = Len(f) + Len(b) /\ Len(f) \in Nat /\ Len(b) \in Nat
  <2>. HIDE DEF f, b
  <2>1. Len(f) \in Nat /\ Len(b) \in Nat
    BY <1>3
  <2>. QED  BY <1>3, <2>1, CatType
<1>. QED  BY <1>2, <1>4 DEF End

\* d has the packets of xs in front.
Laid(d, xs) ==
    \A i \in 1..Len(xs) :
      /\ End(xs, i - 1) \in Nat
      /\ End(xs, i) = End(xs, i - 1) + 4 + Len(xs[i])
      /\ End(xs, i) <= Len(d)
      /\ SubSeq(d, End(xs, i - 1) + 1, End(xs, i - 1) + 4) = LE(4, Len(xs[i]))
      /\ SubSeq(d, End(xs, i - 1) + 4 + 1, End(xs, i)) = xs[i]

\* The packets of xs are where End says they are, whatever follows them.
LEMMA FramedLaid ==
    ASSUME NEW xs \in Seq(Seq(Nat)), NEW t \in Seq(Nat)
    PROVE  Laid(Cat(Framed(xs), t), xs)
<1>. SUFFICES ASSUME NEW i \in 1..Len(xs)
              PROVE  /\ End(xs, i - 1) \in Nat
                     /\ End(xs, i) = End(xs, i - 1) + 4 + Len(xs[i])
                     /\ End(xs, i) <= Len(Cat(Framed(xs), t))
                     /\ SubSeq(Cat(Framed(xs), t), End(xs, i - 1) + 1, End(xs, i - 1) + 4)
                          = LE(4, Len(xs[i]))
                     /\ SubSeq(Cat(Framed(xs), t), End(xs, i - 1) + 4 + 1, End(xs, i))
                          = xs[i]
  BY DEF Laid
<1>. DEFINE x == xs[i]
            a == Framed(Prefix(xs, i - 1))
            b == Framed(Suffix(xs, i))
            l == LE(4, Len(x))
            c == Cat(b, t)
            d == Cat(Framed(xs), t)
<1>1. x \in Seq(Nat) /\ Len(x) \in Nat
  OBVIOUS
<1>2. l \in Seq(Nat) /\ Len(l) = 4
  BY <1>1, LEType
<1>3. Packet(x) = Cat(l, x) /\ Packet(x) \in Seq(Nat)
  BY <1>1, PacketType
<1>4. /\ Prefix(xs, i - 1) \in Seq(Seq(Nat)) /\ Prefix(xs, i) \in Seq(Seq(Nat))
      /\ Suffix(xs, i) \in Seq(Seq(Nat)) /\ xs = Cat(Prefix(xs, i), Suffix(xs, i))
  <2>1. i - 1 \in 0..Len(xs) /\ i \in 0..Len(xs)
    OBVIOUS
  <2>2. Prefix(xs, i - 1) \in Seq(Seq(Nat))
    BY <2>1, Parts
  <2>3. /\ Prefix(xs, i) \in Seq(Seq(Nat)) /\ Suffix(xs, i) \in Seq(Seq(Nat))
        /\ xs = Cat(Prefix(xs, i), Suffix(xs, i))
    BY <2>1, Parts
  <2>. QED  BY <2>2, <2>3
<1>5. Framed(Prefix(xs, i)) = Cat(a, Packet(x))
  <2>1. Prefix(xs, i) = Cat(Prefix(xs, i - 1), <<x>>)
    BY PrefixMoves
  <2>2. <<x>> \in Seq(Seq(Nat))
    BY <1>1
  <2>3. Framed(Cat(Prefix(xs, i - 1), <<x>>)) = Cat(a, Framed(<<x>>))
    BY <1>4, <2>2, FramedConcat
  <2>. QED  BY <1>1, <2>1, <2>3, FramedOne
<1>6. Framed(xs) = Cat(Framed(Prefix(xs, i)), b)
  BY <1>4, FramedConcat
<1>7. a \in Seq(Nat) /\ b \in Seq(Nat)
  BY <1>4, FramedType
<1>. HIDE DEF x, a, b, l
<1>8. c \in Seq(Nat)
  BY <1>7, CatType
<1>9. d = Cat(a, Cat(l, Cat(x, c)))
  <2>1. d = Cat(Cat(Cat(a, Packet(x)), b), t)
    BY <1>5, <1>6
  <2>2. Cat(a, Packet(x)) \in Seq(Nat)
    BY <1>3, <1>7, CatType
  <2>3. Cat(Cat(Cat(a, Packet(x)), b), t) = Cat(Cat(a, Packet(x)), c)
    BY <1>7, <2>2, CatAssociative
  <2>. HIDE DEF c, d
  <2>4. Cat(Cat(a, Packet(x)), c) = Cat(a, Cat(Packet(x), c))
    BY <1>3, <1>7, <1>8, CatAssociative
  <2>5. Cat(Cat(l, x), c) = Cat(l, Cat(x, c))
    BY <1>1, <1>2, <1>8, CatAssociative
  <2>. QED  BY <1>3, <2>1, <2>3, <2>4, <2>5
<1>. HIDE DEF c, d
<1>10. Cat(x, c) \in Seq(Nat)
  BY <1>1, <1>8, CatType
<1>11. SubSeq(d, Len(a) + 1, Len(a) + Len(l)) = l
  BY <1>2, <1>7, <1>9, <1>10, Middle
<1>12. Cat(a, l) \in Seq(Nat) /\ Len(Cat(a, l)) = Len(a) + Len(l)
  BY <1>2, <1>7, CatType
<1>13. SubSeq(d, Len(a) + Len(l) + 1, Len(a) + Len(l) + Len(x)) = x
  <2>1. d = Cat(Cat(a, l), Cat(x, c))
    BY <1>2, <1>7, <1>9, <1>10, CatAssociative
  <2>. DEFINE e == Cat(a, l)
  <2>2. e \in Seq(Nat) /\ Len(e) = Len(a) + Len(l) /\ d = Cat(e, Cat(x, c))
    BY <1>12, <2>1
  <2>. HIDE DEF e
  <2>3. SubSeq(Cat(e, Cat(x, c)), Len(e) + 1, Len(e) + Len(x)) = x
    BY <1>1, <1>8, <2>2, Middle
  <2>. QED  BY <2>2, <2>3
<1>14. End(xs, i - 1) = Len(a) /\ Len(a) \in Nat
  <2>1. Len(a) \in Nat
    BY <1>7
  <2>. QED  BY <2>1 DEF End, a
<1>15. End(xs, i) = Len(a) + 4 + Len(x)
  <2>1. Len(Cat(a, Packet(x))) = Len(a) + Len(Packet(x))
    BY <1>3, <1>7, CatType
  <2>2. Len(Packet(x)) = 4 + Len(x)
    BY <1>1, PacketType
  <2>. QED  BY <1>1, <1>5, <1>14, <2>1, <2>2 DEF End
<1>16. End(xs, i) <= Len(d)
  <2>1. i \in 0..Len(xs)
    OBVIOUS
  <2>2. End(xs, i) \in Nat /\ End(xs, i) <= Len(Framed(xs))
    BY <2>1, EndType
  <2>3. Framed(xs) \in Seq(Nat)
    BY FramedType
  <2>4. Len(Cat(Framed(xs), t)) = Len(Framed(xs)) + Len(t)
    BY <2>3, CatType
  <2>5. Len(Framed(xs)) \in Nat /\ Len(t) \in Nat
    BY <2>3
  <2>. QED  BY <2>2, <2>4, <2>5 DEF d
<1>17. /\ SubSeq(d, Len(a) + 1, Len(a) + 4) = l
       /\ SubSeq(d, Len(a) + 4 + 1, Len(a) + 4 + Len(x)) = x
  BY <1>2, <1>11, <1>13
<1>. QED  BY <1>14, <1>15, <1>16, <1>17 DEF d, l, x

\* The length at p, and the step of the walk over d there.
SizeAt(d, p) == FromLE(SubSeq(d, p + 1, p + 4))
Goes(d, stop, p) ==
    /\ p + 4 <= Len(d) /\ p + 4 + SizeAt(d, p) <= Len(d)
    /\ stop => SizeAt(d, p) # 0
Steps(walk, d, stop, p) ==
    walk[p] = IF ~Goes(d, stop, p) THEN <<>>
              ELSE <<[from |-> p + 4, to |-> p + 4 + SizeAt(d, p)]>>
                     \o walk[p + 4 + SizeAt(d, p)]

LEMMA SizeType ==
    ASSUME NEW d \in Seq(Nat), NEW p \in Nat, p + 4 <= Len(d)
    PROVE  SizeAt(d, p) \in Nat
<1>1. \A i \in (p + 1)..(p + 4) : d[i] \in Nat
  OBVIOUS
<1>2. SubSeq(d, p + 1, p + 4) \in Seq(Nat)
  BY <1>1, SubSeqProperties
<1>. QED  BY <1>2, FromLEType DEF SizeAt

\* The walk of Packets, step by step.
LEMMA WalkUnfolds ==
    ASSUME NEW d \in Seq(Nat), NEW stop \in BOOLEAN
    PROVE  \E walk : /\ Packets(d, stop) = walk[0]
                     /\ \A p \in 0..Len(d) : Steps(walk, d, stop, p)
<1>. DEFINE L == Len(d)
            Then(walk, p) ==
              IF p + 4 > Len(d) THEN <<>>
              ELSE LET size == FromLE(SubSeq(d, p + 1, p + 4))
                       end  == p + 4 + size
                   IN  IF end > Len(d) \/ (stop /\ size = 0) THEN <<>>
                       ELSE <<[from |-> p + 4, to |-> end]>> \o walk[end]
            Is(walk) == walk = [p \in 0..Len(d) |-> Then(walk, p)]
            T == {m \in 0..L : \E g : \A p \in (L - m)..L : g[p] = Then(g, p)}
<1>1. L \in Nat
  OBVIOUS
<1>2. ASSUME NEW p \in 0..L, NEW g, NEW h, \A q \in (p + 1)..L : g[q] = h[q]
      PROVE  Then(g, p) = Then(h, p)
  <2>1. CASE p + 4 > L
    BY <2>1
  <2>2. CASE p + 4 <= L
    <3>1. SizeAt(d, p) \in Nat
      BY <2>2, SizeType
    <3>. DEFINE end == p + 4 + SizeAt(d, p)
    <3>2. CASE end > L \/ (stop /\ SizeAt(d, p) = 0)
      BY <2>2, <3>2 DEF SizeAt
    <3>3. CASE ~(end > L \/ (stop /\ SizeAt(d, p) = 0))
      <4>1. end \in (p + 1)..L
        BY <1>1, <3>1, <3>3
      <4>2. g[end] = h[end]
        BY <1>2, <4>1
      <4>3. Then(g, p) = <<[from |-> p + 4, to |-> end]>> \o g[end]
        BY <2>2, <3>3 DEF SizeAt
      <4>4. Then(h, p) = <<[from |-> p + 4, to |-> end]>> \o h[end]
        BY <2>2, <3>3 DEF SizeAt
      <4>. HIDE DEF Then, end
      <4>. QED  BY <4>2, <4>3, <4>4, Zenon
    <3>. QED  BY <3>2, <3>3
  <2>. QED  BY <1>1, <2>1, <2>2
<1>3. 0 \in T
  <2>. DEFINE g == [p \in 0..L |-> Then(<<>>, p)]
  <2>1. ASSUME NEW p \in (L - 0)..L PROVE g[p] = Then(g, p)
    <3>1. p \in 0..L /\ \A q \in (p + 1)..L : g[q] = <<>>[q]
      BY <1>1
    <3>. DEFINE h == <<>>
    <3>2. Then(g, p) = Then(h, p)
      <4>1. \A q \in (p + 1)..L : g[q] = h[q]
        BY <3>1
      <4>. HIDE DEF Then, g, h
      <4>. QED  BY <1>2, <3>1, <4>1
    <3>3. g[p] = Then(h, p)
      <4>. HIDE DEF Then
      <4>. QED  BY <3>1
    <3>. HIDE DEF Then, g, h
    <3>. QED  BY <3>2, <3>3
  <2>. HIDE DEF g, Then
  <2>. QED  BY <1>1, <2>1
<1>4. ASSUME NEW k \in 1..L, k - 1 \in T PROVE k \in T
  <2>. HIDE DEF Then
  <2>1. PICK g : \A p \in (L - (k - 1))..L : g[p] = Then(g, p)
    BY <1>4
  <2>. DEFINE h == [p \in 0..L |-> IF p = L - k THEN Then(g, p) ELSE g[p]]
  <2>2. ASSUME NEW p \in (L - k)..L PROVE h[p] = Then(h, p)
    <3>1. p \in 0..L /\ \A q \in (p + 1)..L : q \in 0..L /\ q # L - k
      BY <1>1
    <3>2. \A q \in (p + 1)..L : g[q] = h[q]
      BY <3>1
    <3>3. Then(g, p) = Then(h, p)
      <4>. HIDE DEF h
      <4>. QED  BY <1>2, <3>1, <3>2
    <3>4. h[p] = Then(g, p)
      <4>1. CASE p = L - k
        BY <3>1, <4>1
      <4>2. CASE p # L - k
        <5>1. p \in (L - (k - 1))..L
          BY <1>1, <4>2
        <5>2. h[p] = g[p]
          BY <3>1, <4>2
        <5>. HIDE DEF h
        <5>. QED  BY <2>1, <5>1, <5>2
      <4>. QED  BY <4>1, <4>2
    <3>. HIDE DEF h
    <3>. QED  BY <3>3, <3>4
  <2>. HIDE DEF h
  <2>. QED  BY <2>2
<1>5. \A m \in 0..L : m \in T
  <2>. HIDE DEF T, L
  <2>. QED  BY <1>1, <1>3, <1>4, UpTo
<1>6. PICK g : \A p \in 0..L : g[p] = Then(g, p)
  <2>. HIDE DEF Then
  <2>1. L \in T /\ L - L = 0
    BY <1>1, <1>5
  <2>. QED  BY <2>1
<1>7. \E h : Is(h)
  <2>. HIDE DEF Then
  <2>. DEFINE h == [p \in 0..L |-> g[p]]
  <2>1. ASSUME NEW p \in 0..L PROVE h[p] = Then(h, p)
    <3>1. \A q \in (p + 1)..L : g[q] = h[q]
      BY <1>1
    <3>2. Then(g, p) = Then(h, p)
      <4>. HIDE DEF h
      <4>. QED  BY <1>2, <3>1
    <3>3. h[p] = g[p]
      OBVIOUS
    <3>. HIDE DEF h
    <3>. QED  BY <1>6, <3>2, <3>3
  <2>2. h = [p \in 0..L |-> h[p]]
    OBVIOUS
  <2>. HIDE DEF h
  <2>3. h = [p \in 0..Len(d) |-> Then(h, p)]
    BY <2>1, <2>2
  <2>. QED  BY <2>3
<1>8. Packets(d, stop) = (CHOOSE walk : Is(walk))[0]
  BY DEF Packets
<1>9. PICK walk : Is(walk) /\ Packets(d, stop) = walk[0]
  <2>. HIDE DEF Is
  <2>. QED  BY <1>7, <1>8
<1>10. ASSUME NEW p \in 0..L PROVE Steps(walk, d, stop, p)
  <2>1. walk[p] = Then(walk, p)
    <3>. HIDE DEF Then
    <3>. QED  BY <1>9
  <2>2. CASE p + 4 > L
    <3>1. ~Goes(d, stop, p)
      BY <1>1, <2>2 DEF Goes
    <3>. QED  BY <2>1, <2>2, <3>1 DEF Steps
  <2>3. CASE p + 4 <= L
    <3>1. SizeAt(d, p) \in Nat
      BY <2>3, SizeType
    <3>. DEFINE end == p + 4 + SizeAt(d, p)
    <3>2. CASE end > L \/ (stop /\ SizeAt(d, p) = 0)
      <4>1. Then(walk, p) = <<>>
        BY <2>3, <3>2 DEF SizeAt
      <4>2. ~Goes(d, stop, p)
        BY <1>1, <3>1, <3>2 DEF Goes
      <4>. QED  BY <2>1, <4>1, <4>2 DEF Steps
    <3>3. CASE ~(end > L \/ (stop /\ SizeAt(d, p) = 0))
      <4>1. Then(walk, p) = <<[from |-> p + 4, to |-> end]>> \o walk[end]
        BY <2>3, <3>3 DEF SizeAt
      <4>2. Goes(d, stop, p)
        BY <1>1, <2>3, <3>1, <3>3 DEF Goes
      <4>. HIDE DEF Then
      <4>. QED  BY <2>1, <4>1, <4>2 DEF Steps
    <3>. QED  BY <3>2, <3>3
  <2>. QED  BY <1>1, <2>2, <2>3
<1>. QED  BY <1>9, <1>10

\* The packets of xs, as Packets lists them.
Span(xs, i) == [from |-> End(xs, i - 1) + 4, to |-> End(xs, i)]
Listing(xs) == [i \in 1..Len(xs) |-> Span(xs, i)]

\* The length in front of each packet reads back as its length.
LEMMA SizeLaid ==
    ASSUME NEW d, NEW xs \in Seq(Short), Laid(d, xs), NEW i \in 1..Len(xs)
    PROVE  /\ SizeAt(d, End(xs, i - 1)) = Len(xs[i]) /\ Len(xs[i]) \in Nat
           /\ End(xs, i - 1) \in Nat /\ End(xs, i) \in Nat
           /\ End(xs, i) = End(xs, i - 1) + 4 + Len(xs[i])
           /\ End(xs, i) <= Len(d)
<1>1. xs[i] \in Seq(Nat) /\ Len(xs[i]) \in Nat /\ Len(xs[i]) <= U32Max
  <2>1. xs[i] \in Short
    OBVIOUS
  <2>. QED  BY <2>1 DEF Short
<1>2. /\ End(xs, i - 1) \in Nat
      /\ End(xs, i) = End(xs, i - 1) + 4 + Len(xs[i])
      /\ End(xs, i) <= Len(d)
      /\ SubSeq(d, End(xs, i - 1) + 1, End(xs, i - 1) + 4) = LE(4, Len(xs[i]))
  BY DEF Laid
<1>3. FromLE(LE(4, Len(xs[i]))) = Len(xs[i])
  BY <1>1, ReadsBack4
<1>4. SizeAt(d, End(xs, i - 1)) = Len(xs[i])
  BY <1>2, <1>3, Zenon DEF SizeAt
<1>5. End(xs, i) \in Nat
  BY <1>1, <1>2
<1>. QED  BY <1>1, <1>2, <1>4, <1>5

\* The walk lists the packets of xs, if it cannot go on behind them.
LEMMA WalkLaid ==
    ASSUME NEW d \in Seq(Nat), NEW xs \in Seq(Short), Laid(d, xs), NEW stop \in BOOLEAN,
           stop => \A i \in 1..Len(xs) : Len(xs[i]) # 0,
           ~Goes(d, stop, End(xs, Len(xs))),
           End(xs, Len(xs)) \in 0..Len(d)
    PROVE  Packets(d, stop) = Listing(xs)
<1>. DEFINE n == Len(xs)
<1>1. PICK walk : /\ Packets(d, stop) = walk[0]
                  /\ \A p \in 0..Len(d) : Steps(walk, d, stop, p)
  BY WalkUnfolds
<1>. DEFINE rest(j) == [i \in 1..j |-> Span(xs, n - j + i)]
            T == {j \in 0..n : walk[End(xs, n - j)] = rest(j)}
<1>2. n \in Nat /\ Len(d) \in Nat
  OBVIOUS
<1>3. 0 \in T
  <2>1. walk[End(xs, n)] = <<>>
    BY <1>1 DEF Steps
  <2>2. rest(0) = <<>>
    OBVIOUS
  <2>3. n - 0 = n
    BY <1>2
  <2>. HIDE DEF rest, n
  <2>. QED  BY <1>2, <2>1, <2>2, <2>3
<1>4. ASSUME NEW k \in 1..n, k - 1 \in T PROVE k \in T
  <2>. DEFINE m == n - k + 1
  <2>1. m \in 1..n /\ m - 1 = n - k /\ m = n - (k - 1)
    BY <1>2
  <2>2. walk[End(xs, m)] = rest(k - 1)
    <3>. HIDE DEF m, rest
    <3>. QED  BY <1>4, <2>1
  <2>3. /\ SizeAt(d, End(xs, m - 1)) = Len(xs[m]) /\ Len(xs[m]) \in Nat
        /\ End(xs, m - 1) \in Nat /\ End(xs, m) \in Nat
        /\ End(xs, m) = End(xs, m - 1) + 4 + Len(xs[m])
        /\ End(xs, m) <= Len(d)
    <3>. HIDE DEF m
    <3>. QED  BY <2>1, SizeLaid
  <2>4. Goes(d, stop, End(xs, m - 1))
    <3>1. stop => Len(xs[m]) # 0
      <4>. HIDE DEF m
      <4>. QED  BY <2>1
    <3>. HIDE DEF m
    <3>. QED  BY <1>2, <2>3, <3>1, SMTT(30) DEF Goes
  <2>5. walk[End(xs, m - 1)]
          = <<[from |-> End(xs, m - 1) + 4, to |-> End(xs, m)]>> \o walk[End(xs, m)]
    <3>1. Steps(walk, d, stop, End(xs, m - 1))
      <4>. HIDE DEF m
      <4>. QED  BY <1>1, <1>2, <2>3
    <3>2. End(xs, m - 1) + 4 + SizeAt(d, End(xs, m - 1)) = End(xs, m)
      <4>. HIDE DEF m
      <4>. QED  BY <2>3
    <3>. HIDE DEF m
    <3>. QED  BY <2>4, <3>1, <3>2 DEF Steps
  <2>6. walk[End(xs, m - 1)] = Cat(<<Span(xs, m)>>, rest(k - 1))
    <3>. HIDE DEF m, rest
    <3>. QED  BY <2>2, <2>5, Zenon DEF Cat, Span
  <2>7. Cat(<<Span(xs, m)>>, rest(k - 1)) = rest(k)
    <3>. DEFINE S == {Span(xs, i) : i \in 1..n}
                u == <<Span(xs, m)>>
                v == rest(k - 1)
                w == rest(k)
    <3>1. ASSUME NEW j \in 0..k
          PROVE  /\ rest(j) \in Seq(S) /\ Len(rest(j)) = j
                 /\ \A i \in 1..j : rest(j)[i] = Span(xs, n - j + i)
      <4>1. \A i \in 1..j : n - j + i \in 1..n
        BY <1>2
      <4>2. \A i \in 1..j : Span(xs, n - j + i) \in S
        BY <4>1
      <4>3. j \in Nat
        OBVIOUS
      <4>. HIDE DEF S
      <4>. QED  BY <4>2, <4>3
    <3>2. u \in Seq(S) /\ Len(u) = 1 /\ u[1] = Span(xs, m)
      <4>1. Span(xs, m) \in S
        BY <2>1
      <4>. HIDE DEF S, m
      <4>. QED  BY <4>1
    <3>3. /\ v \in Seq(S) /\ Len(v) = k - 1
          /\ \A i \in 1..(k - 1) : v[i] = Span(xs, n - (k - 1) + i)
      <4>1. k - 1 \in 0..k
        OBVIOUS
      <4>. HIDE DEF rest, S
      <4>. QED  BY <3>1, <4>1
    <3>4. /\ w \in Seq(S) /\ Len(w) = k
          /\ \A i \in 1..k : w[i] = Span(xs, n - k + i)
      <4>1. k \in 0..k
        OBVIOUS
      <4>. HIDE DEF rest, S
      <4>. QED  BY <3>1, <4>1
    <3>. HIDE DEF u, v, w, S
    <3>5. Cat(u, v) \in Seq(S) /\ Len(Cat(u, v)) = Len(u) + Len(v)
      BY <3>2, <3>3, CatType
    <3>6. \A i \in 1..Len(u) : Cat(u, v)[i] = u[i]
      BY <3>2, <3>3, CatFront
    <3>7. \A i \in 1..Len(v) : Cat(u, v)[Len(u) + i] = v[i]
      <4>1. u \in Seq(S) /\ v \in Seq(S)
        BY <3>2, <3>3
      <4>. QED  BY <4>1, CatBack
    <3>8. ASSUME NEW i \in 1..k PROVE Cat(u, v)[i] = w[i]
      <4>1. CASE i = 1
        <5>1. Cat(u, v)[1] = u[1] /\ w[1] = Span(xs, n - k + 1)
          BY <3>2, <3>4, <3>6
        <5>. QED  BY <3>2, <4>1, <5>1
      <4>2. CASE i # 1
        <5>1. i - 1 \in 1..(k - 1) /\ 1 + (i - 1) = i /\ n - (k - 1) + (i - 1) = n - k + i
          BY <1>2, <4>2
        <5>2. Cat(u, v)[1 + (i - 1)] = v[i - 1]
          BY <3>2, <3>3, <3>7, <5>1
        <5>3. v[i - 1] = Span(xs, n - (k - 1) + (i - 1))
          BY <3>3, <5>1
        <5>4. w[i] = Span(xs, n - k + i)
          BY <3>4
        <5>. QED  BY <5>1, <5>2, <5>3, <5>4
      <4>. QED  BY <4>1, <4>2
    <3>9. Len(Cat(u, v)) = k
      BY <3>2, <3>3, <3>5
    <3>10. Cat(u, v) = w
      BY <3>4, <3>5, <3>8, <3>9, SeqEqual
    <3>. QED  BY <3>10 DEF u, v, w
  <2>8. walk[End(xs, n - k)] = rest(k)
    <3>. HIDE DEF m, rest
    <3>. QED  BY <2>1, <2>6, <2>7
  <2>. HIDE DEF m, rest
  <2>. QED  BY <2>8
<1>5. \A j \in 0..n : j \in T
  <2>. HIDE DEF T, n
  <2>. QED  BY <1>2, <1>3, <1>4, UpTo
<1>6. walk[0] = rest(n)
  <2>1. n \in 0..n /\ n - n = 0
    BY <1>2
  <2>2. walk[End(xs, n - n)] = rest(n)
    <3>. HIDE DEF rest, n
    <3>. QED  BY <1>5, <2>1
  <2>3. End(xs, 0) = 0
    <3>1. xs \in Seq(Seq(Nat))
      BY SeqMonotonic DEF Short
    <3>. QED  BY <3>1, EndStart
  <2>. HIDE DEF rest, n
  <2>. QED  BY <2>1, <2>2, <2>3
<1>7. rest(n) = Listing(xs)
  <2>1. \A i \in 1..n : n - n + i = i
    BY <1>2
  <2>. QED  BY <2>1 DEF Listing
<1>. HIDE DEF rest
<1>. QED  BY <1>1, <1>6, <1>7

LEMMA CutOfCat ==
    ASSUME NEW S, NEW a \in Seq(S), NEW b \in Seq(S), NEW k \in 0..Len(b)
    PROVE  SubSeq(Cat(a, b), 1, Len(a) + k) = Cat(a, SubSeq(b, 1, k))
<1>. DEFINE c == Cat(a, b)
            f == SubSeq(b, 1, k)
            l == SubSeq(c, 1, Len(a) + k)
            r == Cat(a, f)
<1>1. Len(a) \in Nat /\ Len(b) \in Nat
  OBVIOUS
<1>2. f \in Seq(S) /\ Len(f) = k
  <2>1. \A j \in 1..k : b[j] \in S
    OBVIOUS
  <2>. QED  BY <2>1, SubSeqProperties
<1>3. \A i \in 1..k : f[i] = b[i]
  OBVIOUS
<1>4. c \in Seq(S) /\ Len(c) = Len(a) + Len(b)
  BY CatType
<1>5. \A i \in 1..Len(a) : c[i] = a[i]
  BY CatFront
<1>6. \A i \in 1..Len(b) : c[Len(a) + i] = b[i]
  BY CatBack
<1>7. r \in Seq(S) /\ Len(r) = Len(a) + k
  <2>1. f \in Seq(S)
    BY <1>2
  <2>. HIDE DEF f
  <2>2. Cat(a, f) \in Seq(S) /\ Len(Cat(a, f)) = Len(a) + Len(f)
    BY <2>1, CatType
  <2>. QED  BY <1>2, <2>2
<1>8. \A i \in 1..Len(a) : r[i] = a[i]
  <2>1. f \in Seq(S)
    BY <1>2
  <2>. HIDE DEF f
  <2>. QED  BY <2>1, CatFront
<1>9. \A i \in 1..Len(f) : r[Len(a) + i] = f[i]
  <2>1. f \in Seq(S)
    BY <1>2
  <2>. HIDE DEF f
  <2>. QED  BY <2>1, CatBack
<1>. HIDE DEF c, f, r
<1>10. /\ l \in Seq(S) /\ Len(l) = Len(a) + k
       /\ \A i \in 1..(Len(a) + k) : l[i] = c[i]
  <2>1. \A j \in 1..(Len(a) + k) : c[j] \in S
    BY <1>1, <1>4
  <2>2. Len(a) + k \in Nat
    BY <1>1
  <2>3. l \in Seq(S) /\ Len(l) = Len(a) + k
    BY <2>1, <2>2, SubSeqProperties
  <2>4. \A i \in 1..(Len(a) + k) : l[i] = c[i]
    BY <1>1, <1>4
  <2>. QED  BY <2>3, <2>4
<1>11. ASSUME NEW i \in 1..(Len(a) + k) PROVE l[i] = r[i]
  <2>1. CASE i \in 1..Len(a)
    BY <1>5, <1>8, <1>10, <2>1
  <2>2. CASE i \notin 1..Len(a)
    <3>1. i - Len(a) \in 1..k /\ Len(a) + (i - Len(a)) = i
      BY <1>1, <2>2
    <3>2. c[i] = b[i - Len(a)] /\ r[i] = f[i - Len(a)]
      BY <1>1, <1>2, <1>6, <1>9, <3>1
    <3>3. f[i - Len(a)] = b[i - Len(a)]
      BY <1>3, <3>1
    <3>. QED  BY <1>10, <3>2, <3>3
  <2>. QED  BY <2>1, <2>2
<1>12. l = r
  <2>. HIDE DEF l
  <2>. QED  BY <1>7, <1>10, <1>11, SeqEqual
<1>. QED  BY <1>12 DEF l, r, f, c

LEMMA PrefixOfCat ==
    ASSUME NEW S, NEW a \in Seq(S), NEW b \in Seq(S)
    PROVE  Prefix(Cat(a, b), Len(a)) = a
<1>. DEFINE k == 0
<1>1. k \in 0..Len(b) /\ Len(a) + k = Len(a)
  OBVIOUS
<1>2. SubSeq(Cat(a, b), 1, Len(a) + k) = Cat(a, SubSeq(b, 1, k))
  <2>. HIDE DEF k
  <2>. QED  BY <1>1, CutOfCat
<1>3. SubSeq(b, 1, k) = <<>>
  BY SubSeqEmpty
<1>4. Cat(a, <<>>) = a
  BY CatEmpty
<1>. HIDE DEF k
<1>. QED  BY <1>1, <1>2, <1>3, <1>4 DEF Prefix

\* What is left of ys when it is cut: the packets of its first j, and a part
\* of the next.
LEMMA CutFramed ==
    ASSUME NEW ys \in Seq(Short), NEW k \in Nat, k < Len(Framed(ys))
    PROVE  \E j \in 0..(Len(ys) - 1) :
             /\ j + 1 \in 1..Len(ys)
             /\ End(ys, j) \in 0..k
             /\ k < End(ys, j) + 4 + Len(ys[j + 1])
             /\ SubSeq(Framed(ys), End(ys, j) + 1, End(ys, j) + 4) = LE(4, Len(ys[j + 1]))
             /\ \E t \in Seq(Nat) :
                  /\ SubSeq(Framed(ys), 1, k) = Cat(Framed(Prefix(ys, j)), t)
                  /\ Len(t) = k - End(ys, j)
<1>. DEFINE n == Len(ys)
            T == {j \in 0..n : End(ys, j) <= k}
<1>1. ys \in Seq(Seq(Nat)) /\ n \in Nat
  BY SeqMonotonic DEF Short
<1>2. Framed(ys) \in Seq(Nat)
  BY <1>1, FramedType
<1>3. \E j \in 1..n : j - 1 \in T /\ j \notin T
  <2>. SUFFICES ASSUME ~\E j \in 1..n : j - 1 \in T /\ j \notin T PROVE FALSE
    OBVIOUS
  <2>1. 0 \in T
    BY <1>1, EndStart
  <2>2. \A j \in 1..n : j - 1 \in T => j \in T
    OBVIOUS
  <2>3. \A j \in 0..n : j \in T
    <3>. HIDE DEF T, n
    <3>. QED  BY <1>1, <2>1, <2>2, UpTo
  <2>4. End(ys, n) <= k
    BY <1>1, <2>3
  <2>5. End(ys, n) = Len(Framed(ys)) /\ Len(Framed(ys)) \in Nat
    BY <1>1, <1>2, EndStart
  <2>. QED  BY <2>4, <2>5
<1>4. PICK j \in 1..n : j - 1 \in T /\ j \notin T
  BY <1>3
<1>5. Laid(Framed(ys), ys)
  <2>1. <<>> \in Seq(Nat)
    OBVIOUS
  <2>2. Laid(Cat(Framed(ys), <<>>), ys)
    BY <1>1, <2>1, FramedLaid
  <2>3. Cat(Framed(ys), <<>>) = Framed(ys)
    BY <1>2, CatEmpty
  <2>. QED  BY <2>2, <2>3
<1>6. /\ End(ys, j - 1) \in Nat
      /\ End(ys, j) = End(ys, j - 1) + 4 + Len(ys[j])
      /\ SubSeq(Framed(ys), End(ys, j - 1) + 1, End(ys, j - 1) + 4) = LE(4, Len(ys[j]))
  BY <1>4, <1>5 DEF Laid
<1>7. End(ys, j - 1) \in 0..k /\ k < End(ys, j - 1) + 4 + Len(ys[j])
  <2>1. ys[j] \in Seq(Nat)
    BY <1>1, <1>4
  <2>2. Len(ys[j]) \in Nat
    BY <2>1
  <2>. HIDE DEF n
  <2>. QED  BY <1>1, <1>4, <1>6, <2>2
<1>. DEFINE a == Framed(Prefix(ys, j - 1))
            b == Framed(Suffix(ys, j - 1))
            t == SubSeq(b, 1, k - Len(a))
<1>8. /\ a \in Seq(Nat) /\ b \in Seq(Nat) /\ Framed(ys) = Cat(a, b)
  <2>1. /\ Prefix(ys, j - 1) \in Seq(Seq(Nat)) /\ Suffix(ys, j - 1) \in Seq(Seq(Nat))
        /\ ys = Cat(Prefix(ys, j - 1), Suffix(ys, j - 1))
    <3>1. j - 1 \in 0..Len(ys)
      OBVIOUS
    <3>. QED  BY <1>1, <3>1, Parts, ZenonT(40)
  <2>2. a \in Seq(Nat) /\ b \in Seq(Nat)
    BY <2>1, FramedType
  <2>3. Framed(Cat(Prefix(ys, j - 1), Suffix(ys, j - 1))) = Cat(a, b)
    BY <2>1, FramedConcat
  <2>. QED  BY <2>1, <2>2, <2>3
<1>9. Len(a) = End(ys, j - 1)
  BY DEF End
<1>. HIDE DEF a, b
<1>10. Len(Cat(a, b)) = Len(a) + Len(b) /\ Len(a) \in Nat /\ Len(b) \in Nat
  <2>1. Len(a) \in Nat /\ Len(b) \in Nat
    BY <1>8
  <2>. QED  BY <1>8, <2>1, CatType
<1>11. k - Len(a) \in 0..Len(b) /\ Len(a) + (k - Len(a)) = k
  BY <1>7, <1>8, <1>9, <1>10
<1>12. t \in Seq(Nat) /\ Len(t) = k - Len(a)
  <2>1. \A i \in 1..(k - Len(a)) : b[i] \in Nat
    BY <1>8, <1>10, <1>11
  <2>2. k - Len(a) \in Nat
    BY <1>10, <1>11
  <2>. QED  BY <2>1, <2>2, SubSeqProperties
<1>13. SubSeq(Framed(ys), 1, k) = Cat(a, t)
  <2>. DEFINE m == k - Len(a)
  <2>1. m \in 0..Len(b) /\ Len(a) + m = k
    BY <1>11
  <2>. HIDE DEF m
  <2>2. SubSeq(Cat(a, b), 1, Len(a) + m) = Cat(a, SubSeq(b, 1, m))
    BY <1>8, <2>1, CutOfCat
  <2>. QED  BY <1>8, <2>1, <2>2 DEF m
<1>14. (j - 1) + 1 = j /\ j - 1 \in 0..(n - 1)
  BY <1>1
<1>. HIDE DEF t
<1>. QED  BY <1>4, <1>6, <1>7, <1>9, <1>12, <1>13, <1>14 DEF a

LEMMA ShortParts ==
    ASSUME NEW xs \in Seq(Short)
    PROVE  /\ xs \in Seq(Seq(Nat)) /\ Framed(xs) \in Seq(Nat) /\ Len(Framed(xs)) \in Nat
           /\ Len(xs) \in Nat
<1>1. xs \in Seq(Seq(Nat)) /\ Len(xs) \in Nat
  BY SeqMonotonic DEF Short
<1>2. Framed(xs) \in Seq(Nat)
  BY <1>1, FramedType
<1>. QED  BY <1>1, <1>2

\* The packets of a file that ends in a packet cut short, or behind one.
LEMMA PacketsCut ==
    ASSUME NEW xs \in Seq(Short), NEW ys \in Seq(Short),
           NEW k \in Nat, k < Len(Framed(ys))
    PROVE  \E j \in 0..(Len(ys) - 1) :
             LET zs == Cat(xs, Prefix(ys, j))
             IN  /\ zs \in Seq(Short) /\ Len(zs) = Len(xs) + j
                 /\ Prefix(ys, j) \in Seq(Short) /\ Len(Prefix(ys, j)) = j
                 /\ Laid(Cat(Framed(xs), SubSeq(Framed(ys), 1, k)), zs)
                 /\ Packets(Cat(Framed(xs), SubSeq(Framed(ys), 1, k)), FALSE) = Listing(zs)
<1>. DEFINE x == Framed(xs)
            y == Framed(ys)
            c == SubSeq(y, 1, k)
            d == Cat(x, c)
<1>1. xs \in Seq(Seq(Nat)) /\ ys \in Seq(Seq(Nat)) /\ Len(xs) \in Nat /\ Len(ys) \in Nat
  BY ShortParts
<1>2. x \in Seq(Nat) /\ y \in Seq(Nat) /\ Len(x) \in Nat /\ Len(y) \in Nat
  BY ShortParts
<1>3. PICK j \in 0..(Len(ys) - 1) :
             /\ j + 1 \in 1..Len(ys)
             /\ End(ys, j) \in 0..k
             /\ k < End(ys, j) + 4 + Len(ys[j + 1])
             /\ SubSeq(y, End(ys, j) + 1, End(ys, j) + 4) = LE(4, Len(ys[j + 1]))
             /\ \E t \in Seq(Nat) :
                  /\ c = Cat(Framed(Prefix(ys, j)), t)
                  /\ Len(t) = k - End(ys, j)
  BY CutFramed
<1>4. PICK t \in Seq(Nat) : c = Cat(Framed(Prefix(ys, j)), t) /\ Len(t) = k - End(ys, j)
  BY <1>3
<1>. DEFINE f == Prefix(ys, j)
            zs == Cat(xs, f)
<1>5. f \in Seq(Short) /\ Len(f) = j
  <2>1. j \in 0..Len(ys)
    BY <1>1
  <2>. QED  BY <2>1, Parts
<1>6. f \in Seq(Seq(Nat)) /\ Framed(f) \in Seq(Nat) /\ Len(Framed(f)) \in Nat
  <2>. HIDE DEF f
  <2>. QED  BY <1>5, ShortParts
<1>7. zs \in Seq(Short) /\ Len(zs) = Len(xs) + j
  <2>1. f \in Seq(Short)
    BY <1>5
  <2>. HIDE DEF f
  <2>2. Cat(xs, f) \in Seq(Short) /\ Len(Cat(xs, f)) = Len(xs) + Len(f)
    BY <2>1, CatType
  <2>. QED  BY <1>5, <2>2
<1>8. Framed(zs) = Cat(x, Framed(f))
  <2>. HIDE DEF f
  <2>. QED  BY <1>1, <1>6, FramedConcat
<1>9. d = Cat(Framed(zs), t)
  <2>. HIDE DEF f, x, c, zs
  <2>1. Cat(Cat(x, Framed(f)), t) = Cat(x, Cat(Framed(f), t))
    BY <1>2, <1>6, CatAssociative
  <2>2. c = Cat(Framed(f), t)
    BY <1>4 DEF f
  <2>. QED  BY <1>8, <2>1, <2>2
<1>10. zs \in Seq(Seq(Nat)) /\ Framed(zs) \in Seq(Nat) /\ Len(Framed(zs)) \in Nat
  <2>. HIDE DEF zs
  <2>. QED  BY <1>7, ShortParts
<1>11. Laid(d, zs)
  <2>. HIDE DEF d, zs
  <2>. QED  BY <1>9, <1>10, FramedLaid
<1>12. c \in Seq(Nat) /\ Len(c) = k
  <2>1. \A i \in 1..k : y[i] \in Nat
    BY <1>2
  <2>. HIDE DEF y
  <2>. QED  BY <2>1, SubSeqProperties
<1>13. \A i \in 1..k : c[i] = y[i]
  <2>. HIDE DEF y
  <2>. QED  BY <1>2
<1>. DEFINE e == End(zs, Len(zs))
<1>14. e = Len(Framed(zs)) /\ e = Len(x) + End(ys, j) /\ e \in Nat
  <2>1. e = Len(Framed(zs))
    <3>. HIDE DEF zs
    <3>. QED  BY <1>10, EndStart
  <2>2. Len(Cat(x, Framed(f))) = Len(x) + Len(Framed(f))
    <3>. HIDE DEF x, f
    <3>. QED  BY <1>2, <1>6, CatType
  <2>3. Len(Framed(f)) = End(ys, j)
    BY DEF End
  <2>. HIDE DEF zs, x, f, e
  <2>. QED  BY <1>8, <1>10, <2>1, <2>2, <2>3
<1>. HIDE DEF x, y, f, zs
<1>15. d \in Seq(Nat) /\ Len(d) = Len(x) + k
  <2>1. c \in Seq(Nat)
    BY <1>12
  <2>. HIDE DEF c
  <2>2. Cat(x, c) \in Seq(Nat) /\ Len(Cat(x, c)) = Len(x) + Len(c)
    BY <1>2, <2>1, CatType
  <2>. QED  BY <1>12, <2>2
<1>16. \A i \in 1..Len(c) : d[Len(x) + i] = c[i]
  <2>1. c \in Seq(Nat)
    BY <1>12
  <2>. HIDE DEF c
  <2>. QED  BY <1>2, <2>1, CatBack
<1>. HIDE DEF c, d, e
<1>17. ~Goes(d, FALSE, e)
  <2>. SUFFICES ASSUME e + 4 <= Len(d), e + 4 + SizeAt(d, e) <= Len(d) PROVE FALSE
    BY DEF Goes
  <2>. DEFINE E == End(ys, j)
              L == Len(x)
  <2>e. E \in 0..k
    BY <1>3
  <2>l. L \in Nat
    BY <1>2
  <2>f. e = L + E
    BY <1>14
  <2>d. Len(d) = L + k
    BY <1>15
  <2>g. k < E + 4 + Len(ys[j + 1])
    BY <1>3
  <2>h. SubSeq(y, E + 1, E + 4) = LE(4, Len(ys[j + 1]))
    BY <1>3
  <2>y. k < Len(y) /\ Len(y) \in Nat
    BY <1>2 DEF y
  <2>p. y \in Seq(Nat) /\ d \in Seq(Nat)
    BY <1>2, <1>15
  <2>. HIDE DEF E, L
  <2>1. E + 4 <= k /\ E \in Nat
    BY <2>e, <2>l, <2>f, <2>d
  <2>2. SubSeq(d, e + 1, e + 4) = SubSeq(y, E + 1, E + 4)
    <3>. DEFINE u == SubSeq(d, e + 1, e + 4)
                v == SubSeq(y, E + 1, E + 4)
    <3>1. e \in Nat /\ e + 4 <= Len(d) /\ E + 4 <= Len(y)
      BY <2>1, <2>f, <2>l, <2>y
    <3>2. u \in Seq(Nat) /\ Len(u) = 4 /\ \A i \in 1..4 : u[i] = d[e + i]
      <4>1. \A i \in (e + 1)..(e + 4) : d[i] \in Nat
        BY <2>p, <3>1, SMTT(30)
      <4>2. u \in Seq(Nat) /\ Len(u) = 4
        BY <3>1, <4>1, SubSeqProperties
      <4>3. \A i \in 1..4 : u[i] = d[e + i]
        BY <2>p, <3>1
      <4>. QED  BY <4>2, <4>3
    <3>3. v \in Seq(Nat) /\ Len(v) = 4 /\ \A i \in 1..4 : v[i] = y[E + i]
      <4>1. \A i \in (E + 1)..(E + 4) : y[i] \in Nat
        BY <2>1, <2>p, <3>1, SMTT(30)
      <4>2. v \in Seq(Nat) /\ Len(v) = 4
        BY <2>1, <3>1, <4>1, SubSeqProperties
      <4>3. \A i \in 1..4 : v[i] = y[E + i]
        BY <2>1, <2>p, <3>1
      <4>. QED  BY <4>2, <4>3
    <3>4. ASSUME NEW i \in 1..4 PROVE u[i] = v[i]
      <4>1. E + i \in 1..k /\ L + (E + i) = e + i
        BY <2>1, <2>l, <2>f
      <4>2. d[L + (E + i)] = c[E + i]
        BY <1>12, <1>16, <4>1 DEF L
      <4>3. c[E + i] = y[E + i]
        BY <1>13, <4>1
      <4>. HIDE DEF u, v
      <4>. QED  BY <3>2, <3>3, <4>1, <4>2, <4>3
    <3>5. u = v
      <4>. HIDE DEF u, v
      <4>. QED  BY <3>2, <3>3, <3>4, SeqEqual
    <3>. QED  BY <3>5
  <2>3. ys[j + 1] \in Short
    BY <1>3, SMTT(30)
  <2>4. Len(ys[j + 1]) \in Nat /\ Len(ys[j + 1]) <= U32Max
    BY <2>3 DEF Short
  <2>5. SizeAt(d, e) = FromLE(LE(4, Len(ys[j + 1])))
    BY <2>h, <2>2, Zenon DEF SizeAt
  <2>6. SizeAt(d, e) = Len(ys[j + 1])
    BY <2>4, <2>5, ReadsBack4
  <2>. DEFINE n == Len(ys[j + 1])
  <2>7. e + 4 + n <= L + k /\ n \in Nat /\ k < E + 4 + n
    BY <2>d, <2>4, <2>6, <2>g
  <2>. HIDE DEF n
  <2>. QED  BY <2>1, <2>7, <2>f, <2>l
<1>18. Packets(d, FALSE) = Listing(zs)
  <2>. DEFINE E == End(ys, j)
              L == Len(x)
  <2>2. E \in 0..k
    BY <1>3
  <2>3. L \in Nat
    BY <1>2
  <2>4. e = L + E
    BY <1>14
  <2>5. Len(d) = L + k
    BY <1>15
  <2>. HIDE DEF E, L
  <2>1. e \in 0..Len(d)
    BY <2>2, <2>3, <2>4, <2>5
  <2>. QED  BY <1>7, <1>11, <1>15, <1>17, <2>1, WalkLaid DEF e
<1>. QED  BY <1>5, <1>7, <1>11, <1>18 DEF zs, f, d, x, y, c

LEMMA PayloadLaid ==
    ASSUME NEW d, NEW zs, Laid(d, zs), NEW i \in 1..Len(zs)
    PROVE  Payload(d, Listing(zs)[i]) = zs[i] /\ Listing(zs)[i].to = End(zs, i)
BY DEF Laid, Payload, Listing, Span

LEMMA MaxIs ==
    ASSUME NEW S \in SUBSET Nat, NEW m \in S, \A i \in S : i <= m
    PROVE  Max(S) = m
<1>. DEFINE P(x) == x \in S /\ \A y \in S : x >= y
<1>1. Max(S) = CHOOSE x : P(x)
  BY DEF Max
<1>2. P(m)
  OBVIOUS
<1>3. P(CHOOSE x : P(x))
  <2>. HIDE DEF P
  <2>. QED  BY <1>2
<1>4. Max(S) \in S /\ Max(S) >= m
  <2>1. P(Max(S))
    <3>. HIDE DEF P
    <3>. QED  BY <1>1, <1>3
  <2>. QED  BY <2>1
<1>5. Max(S) \in Nat /\ m \in Nat /\ Max(S) <= m
  <2>. HIDE DEF P
  <2>. QED  BY <1>4
<1>. DEFINE x == Max(S)
<1>6. x >= m /\ x <= m /\ x \in Nat /\ m \in Nat
  BY <1>4, <1>5
<1>. HIDE DEF x, P
<1>7. x = m
  BY <1>6
<1>. QED  BY <1>7 DEF x

\* find_last_footer sees the end of the last whole block, whatever is left of
\* the next behind it.
LEMMA FindsLastFooter ==
    ASSUME NEW xs \in Seq(Short), xs # <<>>, IsFooter(xs[Len(xs)]),
           NEW ys \in Seq(Short), \A j \in 1..(Len(ys) - 1) : ~IsFooter(ys[j]),
           NEW k \in Nat, k < Len(Framed(ys))
    PROVE  FindLastFooter(Cat(Framed(xs), SubSeq(Framed(ys), 1, k))) = Len(Framed(xs))
<1>. DEFINE d == Cat(Framed(xs), SubSeq(Framed(ys), 1, k))
            n == Len(xs)
<1>1. n \in 1..n /\ n \in Nat /\ Len(ys) \in Nat
  OBVIOUS
<1>2. PICK j \in 0..(Len(ys) - 1) :
             LET zs == Cat(xs, Prefix(ys, j))
             IN  /\ zs \in Seq(Short) /\ Len(zs) = n + j
                 /\ Prefix(ys, j) \in Seq(Short) /\ Len(Prefix(ys, j)) = j
                 /\ Laid(d, zs) /\ Packets(d, FALSE) = Listing(zs)
  BY PacketsCut
<1>. DEFINE f == Prefix(ys, j)
            zs == Cat(xs, f)
            footers == {i \in 1..Len(Listing(zs)) : IsFooter(Payload(d, Listing(zs)[i]))}
<1>3. /\ zs \in Seq(Short) /\ Len(zs) = n + j /\ f \in Seq(Short) /\ Len(f) = j
      /\ Laid(d, zs) /\ Packets(d, FALSE) = Listing(zs)
  BY <1>2
<1>4. FindLastFooter(d)
        = IF footers = {} THEN 0 ELSE Listing(zs)[Max(footers)].to
  <2>. HIDE DEF d, zs
  <2>. QED  BY <1>3 DEF FindLastFooter
<1>5. Len(Listing(zs)) = n + j
  <2>1. n + j \in Nat
    BY <1>1
  <2>. HIDE DEF zs, n
  <2>. QED  BY <1>3, <2>1 DEF Listing
<1>6. \A i \in 1..n : zs[i] = xs[i]
  <2>1. f \in Seq(Short)
    BY <1>3
  <2>. HIDE DEF f
  <2>. QED  BY <2>1, CatFront
<1>7. \A i \in 1..j : zs[n + i] = f[i]
  <2>1. f \in Seq(Short)
    BY <1>3
  <2>. HIDE DEF f
  <2>2. \A i \in 1..Len(f) : zs[n + i] = f[i]
    BY <2>1, CatBack
  <2>. HIDE DEF zs
  <2>. QED  BY <1>3, <2>2
<1>8. \A i \in 1..(n + j) : /\ Payload(d, Listing(zs)[i]) = zs[i]
                            /\ Listing(zs)[i].to = End(zs, i)
  <2>. HIDE DEF d, zs, n
  <2>. QED  BY <1>3, PayloadLaid
<1>9. footers = {i \in 1..(n + j) : IsFooter(zs[i])}
  <2>. HIDE DEF d, zs, n
  <2>. QED  BY <1>5, <1>8
<1>10. n \in footers
  <2>1. n \in 1..(n + j) /\ zs[n] = xs[n]
    BY <1>1, <1>6
  <2>. HIDE DEF zs, n, footers
  <2>. QED  BY <1>9, <2>1 DEF n
<1>11. ASSUME NEW i \in footers PROVE i <= n
  <2>. SUFFICES ASSUME i > n PROVE FALSE
    BY <1>1, <1>9
  <2>1. i - n \in 1..j /\ n + (i - n) = i /\ IsFooter(zs[i]) /\ i - n \in 1..(Len(ys) - 1)
    BY <1>1, <1>9, SMTT(30)
  <2>2. zs[i] = f[i - n]
    BY <1>7, <2>1
  <2>3. f[i - n] = ys[i - n]
    <3>1. j \in 0..Len(ys)
      BY <1>1
    <3>. QED  BY <2>1, <3>1, PrefixElements
  <2>. HIDE DEF zs, f, n
  <2>. QED  BY <2>1, <2>2, <2>3
<1>12. Max(footers) = n
  <2>1. footers \in SUBSET Nat
    BY <1>1, <1>9
  <2>. HIDE DEF footers
  <2>. QED  BY <1>10, <1>11, <2>1, MaxIs
<1>13. FindLastFooter(d) = End(zs, n)
  <2>1. n \in 1..(n + j)
    BY <1>1
  <2>. HIDE DEF footers, d, zs, n
  <2>. QED  BY <1>4, <1>8, <1>10, <1>12, <2>1
<1>14. Prefix(zs, n) = xs
  <2>1. f \in Seq(Short)
    BY <1>3
  <2>. HIDE DEF f
  <2>. QED  BY <2>1, PrefixOfCat
<1>. HIDE DEF d, zs
<1>. QED  BY <1>13, <1>14 DEF d, End

----------------------------------------------------------------------------
(* Blocks.                                                                 *)

LEMMA U32Large == U32Max \in Nat /\ U32Max >= 9 /\ U16Max \in Nat
<1>1. Base \in Nat /\ Base >= 7
  BY BaseAssumption
<1>2. Base * Base \in Nat /\ Base * Base >= 7 * Base
  BY <1>1
<1>. DEFINE b2 == Base * Base
<1>3. b2 \in Nat /\ b2 >= 49
  BY <1>1, <1>2
<1>4. b2 * Base \in Nat /\ b2 * Base >= b2
  <2>. HIDE DEF b2
  <2>. QED  BY <1>1, <1>3
<1>. DEFINE b3 == b2 * Base
<1>5. b3 * Base \in Nat /\ b3 * Base >= b3
  <2>1. b3 \in Nat
    BY <1>4
  <2>. HIDE DEF b3
  <2>. QED  BY <1>1, <2>1
<1>6. U32Max = b3 * Base - 1 /\ U16Max = b2 - 1
  BY DEF U32Max, U16Max
<1>7. b3 >= b2
  BY <1>4
<1>. DEFINE b4 == b3 * Base
<1>8. b4 \in Nat /\ b4 >= b3 /\ b3 \in Nat /\ U32Max = b4 - 1
  BY <1>4, <1>5, <1>6
<1>. HIDE DEF b2, b3, b4
<1>. QED  BY <1>3, <1>6, <1>7, <1>8

\* The raw transactions a shield block is made of.
ShieldTxs == {raw \in Short : IsShielded(raw)}

\* None of them is a footer: it starts with the version, not with the tag.
LEMMA ShieldTxShape ==
    ASSUME NEW raw \in ShieldTxs
    PROVE  /\ raw \in Seq(Nat) /\ Len(raw) \in Nat /\ Len(raw) <= U32Max
           /\ Len(raw) # 0 /\ raw[1] = TxVersion /\ ~IsFooter(raw)
<1>1. raw \in Seq(Nat) /\ Len(raw) \in Nat /\ Len(raw) <= U32Max
  BY DEF ShieldTxs, Short
<1>2. IsPrefix(SaplingHeader, raw)
  BY DEF ShieldTxs, IsShielded
<1>. DEFINE h == SaplingHeader
            f == SubSeq(h, 1, Len(h))
            g == SubSeq(raw, 1, Len(h))
<1>3. Len(h) = 4 /\ h \in Seq(Nat) /\ h[1] = TxVersion
  BY DEF SaplingHeader, TxVersion
<1>4. 4 <= Len(raw) /\ f = g
  BY <1>2, <1>3 DEF IsPrefix
<1>5. f[1] = h[1]
  <2>. HIDE DEF h
  <2>. QED  BY <1>3
<1>6. g[1] = raw[1]
  <2>. HIDE DEF h
  <2>. QED  BY <1>1, <1>3, <1>4
<1>7. raw[1] = TxVersion
  BY <1>3, <1>4, <1>5, <1>6, Zenon
<1>8. TxVersion # BlockTag
  BY DEF TxVersion, BlockTag
<1>. QED  BY <1>1, <1>4, <1>7, <1>8 DEF IsFooter

\* The footer's payload.
FooterOf(block) == <<BlockTag>> \o LE(4, block.height) \o LE(4, block.time)

LEMMA FooterType ==
    ASSUME NEW block, block.height \in Nat, block.time \in Nat
    PROVE  /\ FooterOf(block) \in Short /\ IsFooter(FooterOf(block))
           /\ SubSeq(FooterOf(block), 2, 5) = LE(4, block.height)
<1>. DEFINE a == LE(4, block.height)
            b == LE(4, block.time)
            t == <<BlockTag>>
<1>1. a \in Seq(Nat) /\ Len(a) = 4 /\ b \in Seq(Nat) /\ Len(b) = 4
  BY LEType
<1>2. t \in Seq(Nat) /\ Len(t) = 1 /\ t[1] = BlockTag
  BY DEF BlockTag
<1>3. FooterOf(block) = Cat(Cat(t, a), b)
  BY DEF FooterOf, Cat
<1>. HIDE DEF a, b, t
<1>4. Cat(t, a) \in Seq(Nat) /\ Len(Cat(t, a)) = Len(t) + Len(a)
  BY <1>1, <1>2, CatType
<1>5. Cat(t, a)[1] = t[1]
  <2>1. t \in Seq(Nat) /\ a \in Seq(Nat)
    BY <1>1, <1>2
  <2>2. \A i \in 1..Len(t) : Cat(t, a)[i] = t[i]
    BY <2>1, CatFront
  <2>. QED  BY <1>2, <2>2
<1>. DEFINE c == Cat(t, a)
<1>6. c \in Seq(Nat) /\ b \in Seq(Nat)
  BY <1>1, <1>4
<1>7. Len(c) = 5 /\ c[1] = BlockTag
  BY <1>1, <1>2, <1>4, <1>5
<1>. HIDE DEF c
<1>8. Cat(c, b) \in Seq(Nat) /\ Len(Cat(c, b)) = Len(c) + Len(b)
  BY <1>6, CatType
<1>9. \A i \in 1..Len(c) : Cat(c, b)[i] = c[i]
  BY <1>6, CatFront
<1>10. Len(Cat(c, b)) = 9 /\ Cat(c, b)[1] = BlockTag
  BY <1>1, <1>7, <1>8, <1>9
<1>11. SubSeq(FooterOf(block), 2, 5) = a
  <2>1. Cat(c, b) = Cat(t, Cat(a, b))
    BY <1>1, <1>2, CatAssociative DEF c
  <2>2. SubSeq(Cat(t, Cat(a, b)), Len(t) + 1, Len(t) + Len(a)) = a
    <3>1. t \in Seq(Nat) /\ a \in Seq(Nat) /\ b \in Seq(Nat)
      BY <1>1, <1>2
    <3>. QED  BY <3>1, Middle
  <2>3. Len(t) + 1 = 2 /\ Len(t) + Len(a) = 5
    BY <1>1, <1>2
  <2>4. FooterOf(block) = Cat(t, Cat(a, b))
    BY <1>3, <2>1, Zenon DEF c
  <2>. QED  BY <2>2, <2>3, <2>4, Zenon
<1>12. Cat(c, b) \in Short
  BY <1>8, <1>10, U32Large DEF Short
<1>13. IsFooter(Cat(c, b))
  BY <1>10 DEF IsFooter, FooterSize
<1>14. FooterOf(block) = Cat(c, b)
  BY <1>3 DEF c
<1>. QED  BY <1>11, <1>12, <1>13, <1>14 DEF a

\* A shield block, and the payloads of its packets.
ShieldBlocks == [height : 0..U32Max, time : Nat, txs : Seq(ShieldTxs)]

Payloads(block) == Cat(block.txs, <<FooterOf(block)>>)

LEMMA PayloadsType ==
    ASSUME NEW block \in ShieldBlocks
    PROVE  LET ys == Payloads(block)
               n  == Len(block.txs)
           IN  /\ ys \in Seq(Short) /\ Len(ys) = n + 1 /\ n \in Nat
               /\ \A i \in 1..n : ys[i] = block.txs[i] /\ ys[i] \in ShieldTxs
               /\ ys[n + 1] = FooterOf(block)
<1>. DEFINE ts == block.txs
            n  == Len(ts)
            fs == <<FooterOf(block)>>
<1>1. ts \in Seq(ShieldTxs) /\ ts \in Seq(Short) /\ n \in Nat
  <2>1. ts \in Seq(ShieldTxs)
    BY DEF ShieldBlocks
  <2>2. ShieldTxs \subseteq Short
    BY DEF ShieldTxs
  <2>. QED  BY <2>1, <2>2, SeqMonotonic
<1>2. fs \in Seq(Short) /\ Len(fs) = 1 /\ fs[1] = FooterOf(block)
  BY FooterType DEF ShieldBlocks
<1>3. Payloads(block) = Cat(ts, fs)
  BY DEF Payloads
<1>4. ts \in Seq(Short) /\ fs \in Seq(Short)
  BY <1>1, <1>2
<1>5. \A i \in 1..n : ts[i] \in ShieldTxs
  BY <1>1
<1>. HIDE DEF ts, fs
<1>6. Cat(ts, fs) \in Seq(Short) /\ Len(Cat(ts, fs)) = Len(ts) + Len(fs)
  BY <1>4, CatType
<1>7. \A i \in 1..Len(ts) : Cat(ts, fs)[i] = ts[i]
  BY <1>4, CatFront
<1>8. \A i \in 1..Len(fs) : Cat(ts, fs)[Len(ts) + i] = fs[i]
  BY <1>4, CatBack
<1>9. Cat(ts, fs)[n + 1] = FooterOf(block)
  BY <1>2, <1>8
<1>10. Len(Cat(ts, fs)) = n + 1
  BY <1>2, <1>6
<1>11. \A i \in 1..n : Cat(ts, fs)[i] = ts[i] /\ Cat(ts, fs)[i] \in ShieldTxs
  BY <1>5, <1>7
<1>12. ts = block.txs
  BY DEF ts
<1>. QED  BY <1>1, <1>3, <1>6, <1>9, <1>10, <1>11, <1>12, Zenon

LEMMA BlockFramed ==
    ASSUME NEW block \in ShieldBlocks
    PROVE  /\ EncodePivxCompat(block) = Framed(Payloads(block))
           /\ EncodePivxCompat(block) \in Seq(Nat)
<1>. DEFINE ts == block.txs
            fs == <<FooterOf(block)>>
<1>1. ts \in Seq(Seq(Nat)) /\ FooterOf(block) \in Seq(Nat)
  <2>1. ts \in Seq(ShieldTxs)
    BY DEF ShieldBlocks
  <2>2. ShieldTxs \subseteq Seq(Nat) /\ Short \subseteq Seq(Nat)
    BY DEF ShieldTxs, Short
  <2>3. FooterOf(block) \in Short
    BY FooterType DEF ShieldBlocks
  <2>. QED  BY <2>1, <2>2, <2>3, SeqMonotonic
<1>2. EncodePivxCompat(block) = Cat(Framed(ts), Packet(FooterOf(block)))
  BY DEF EncodePivxCompat, Framed, FooterOf, Cat
<1>3. Packet(FooterOf(block)) = Framed(fs)
  BY <1>1, FramedOne
<1>4. fs \in Seq(Seq(Nat))
  BY <1>1
<1>. HIDE DEF ts, fs
<1>5. Framed(Cat(ts, fs)) = Cat(Framed(ts), Framed(fs))
  BY <1>1, <1>4, FramedConcat
<1>6. Cat(ts, fs) \in Seq(Seq(Nat))
  BY <1>1, <1>4, CatType
<1>7. Framed(Cat(ts, fs)) \in Seq(Nat)
  <2>. DEFINE zz == Cat(ts, fs)
  <2>. HIDE DEF zz
  <2>1. zz \in Seq(Seq(Nat))
    BY <1>6 DEF zz
  <2>2. Framed(zz) \in Seq(Nat)
    BY <2>1, FramedType
  <2>. QED  BY <2>2 DEF zz
<1>8. Payloads(block) = Cat(ts, fs)
  BY DEF Payloads, ts, fs
<1>. QED  BY <1>2, <1>3, <1>5, <1>7, <1>8, Zenon

----------------------------------------------------------------------------
(* What the node sends, and what is kept of it.                            *)

LEMMA NodeCountType ==
    ASSUME NEW n \in Nat
    PROVE  NodeCount(n) \in Seq(Nat)
<1>1. Base \in Nat /\ Base >= 7
  BY BaseAssumption
<1>2. Base * Base \in Nat
  BY <1>1
<1>3. LE(2, n) \in Seq(Nat) /\ LE(4, n) \in Seq(Nat)
  BY LEType
<1>4. <<n>> \in Seq(Nat) /\ <<Base - 3>> \in Seq(Nat) /\ <<Base - 2>> \in Seq(Nat)
  BY <1>1
<1>. DEFINE b2 == Base * Base
            two  == <<Base - 3>> \o LE(2, n)
            four == <<Base - 2>> \o LE(4, n)
<1>5. two \in Seq(Nat) /\ four \in Seq(Nat)
  BY <1>3, <1>4
<1>6. CASE n < Base - 3
  <2>1. NodeCount(n) = <<n>>
    BY <1>1, <1>2, <1>6 DEF NodeCount
  <2>. QED  BY <1>4, <2>1
<1>7. CASE n >= Base - 3 /\ n <= b2 - 1
  <2>1. n \in (Base - 3)..(b2 - 1) /\ ~(n < Base - 3) /\ ~(n >= b2)
    BY <1>1, <1>2, <1>7
  <2>2. NodeCount(n) = two
    BY <2>1 DEF NodeCount
  <2>. QED  BY <1>5, <2>2
<1>8. CASE n >= b2
  <2>1. b2 >= Base
    BY <1>1
  <2>2. ~(n \in (Base - 3)..(b2 - 1)) /\ ~(n < Base - 3)
    BY <1>1, <1>2, <1>8, <2>1
  <2>3. NodeCount(n) = four
    BY <1>8, <2>2 DEF NodeCount
  <2>. QED  BY <1>5, <2>3
<1>. QED  BY <1>1, <1>2, <1>6, <1>7, <1>8

LEMMA ScriptType ==
    ASSUME NEW size \in Nat
    PROVE  Script(size) \in Seq(Nat)
<1>1. NodeCount(size) \in Seq(Nat)
  BY NodeCountType
<1>2. \A i \in Nat : i % Base \in Nat
  BY BaseNat, DivMod
<1>. DEFINE s == [i \in 1..size |-> i % Base]
<1>3. s \in Seq(Nat)
  BY <1>2
<1>. HIDE DEF s
<1>4. NodeCount(size) \o s \in Seq(Nat)
  BY <1>1, <1>3
<1>. QED  BY <1>4 DEF Script, s

\* The vins and the vouts of a transaction, and its descriptions.
Vin(size)  == <<1>> \o Script(size) \o <<1>>
Vout(size) == <<1>> \o Script(size)
Vins(s)  == [i \in 1..Len(s) |-> Vin(s[i])]
Vouts(s) == [i \in 1..Len(s) |-> Vout(s[i])]
Spends(n)  == [i \in 1..n |-> SpendDesc(i)]
Outputs(n) == [i \in 1..n |-> OutputDesc(i)]

LEMMA ScriptsType ==
    ASSUME NEW s \in Seq(Nat)
    PROVE  /\ Vins(s) \in Seq(Seq(Nat)) /\ Len(Vins(s)) = Len(s)
           /\ Vouts(s) \in Seq(Seq(Nat)) /\ Len(Vouts(s)) = Len(s)
<1>1. ASSUME NEW i \in 1..Len(s) PROVE Vin(s[i]) \in Seq(Nat) /\ Vout(s[i]) \in Seq(Nat)
  <2>. DEFINE c == Script(s[i])
  <2>1. c \in Seq(Nat)
    BY ScriptType
  <2>. HIDE DEF c
  <2>2. <<1>> \o c \o <<1>> \in Seq(Nat) /\ <<1>> \o c \in Seq(Nat)
    BY <2>1
  <2>. QED  BY <2>2 DEF c, Vin, Vout
<1>. QED  BY <1>1 DEF Vins, Vouts

LEMMA DescsType ==
    ASSUME NEW n \in Nat
    PROVE  /\ Spends(n) \in Seq(Seq(Nat)) /\ Len(Spends(n)) = n
           /\ \A i \in 1..n : Spends(n)[i] = SpendDesc(i) /\ Len(SpendDesc(i)) = SpendDescSize
           /\ Outputs(n) \in Seq(Seq(Nat)) /\ Len(Outputs(n)) = n
           /\ \A i \in 1..n : Outputs(n)[i] = OutputDesc(i) /\ Len(OutputDesc(i)) = OutputDescSize
<1>1. \A k \in Nat : k % Base \in Nat
  BY BaseNat, DivMod
<1>2. ASSUME NEW i \in 1..n
      PROVE  /\ SpendDesc(i) \in Seq(Nat) /\ Len(SpendDesc(i)) = 6
             /\ OutputDesc(i) \in Seq(Nat) /\ Len(OutputDesc(i)) = 6
  <2>1. \A k \in 1..6 : i + k \in Nat /\ 2 * i + k \in Nat
    OBVIOUS
  <2>2. \A k \in 1..6 : (i + k) % Base \in Nat /\ (2 * i + k) % Base \in Nat
    BY <1>1, <2>1
  <2>3. [k \in 1..6 |-> (i + k) % Base] \in Seq(Nat)
    BY <2>2
  <2>4. [k \in 1..6 |-> (2 * i + k) % Base] \in Seq(Nat)
    BY <2>2
  <2>5. SpendDesc(i) = [k \in 1..6 |-> (i + k) % Base]
    BY DEF SpendDesc, SpendDescSize
  <2>6. OutputDesc(i) = [k \in 1..6 |-> (2 * i + k) % Base]
    BY DEF OutputDesc, OutputDescSize
  <2>. QED  BY <2>3, <2>4, <2>5, <2>6
<1>3. Spends(n) \in Seq(Seq(Nat)) /\ Len(Spends(n)) = n
  BY <1>2 DEF Spends
<1>4. Outputs(n) \in Seq(Seq(Nat)) /\ Len(Outputs(n)) = n
  BY <1>2 DEF Outputs
<1>5. \A i \in 1..n : Spends(n)[i] = SpendDesc(i) /\ Outputs(n)[i] = OutputDesc(i)
  BY DEF Spends, Outputs
<1>. QED  BY <1>2, <1>3, <1>4, <1>5 DEF SpendDescSize, OutputDescSize

\* A raw transaction, part by part.
Behind(tx) ==
    IF tx.spends + tx.outputs = 0 THEN <<0>>
    ELSE <<1, 0>> \o NodeCount(tx.spends) \o FlattenSeq(Spends(tx.spends))
           \o NodeCount(tx.outputs) \o FlattenSeq(Outputs(tx.outputs)) \o <<0>>

LEMMA RawTxParts ==
    ASSUME NEW tx \in Transaction
    PROVE  RawTx(tx) = <<tx.version, 0, 0, 0>>
                         \o NodeCount(Len(tx.vin)) \o FlattenSeq(Vins(tx.vin))
                         \o NodeCount(Len(tx.vout)) \o FlattenSeq(Vouts(tx.vout))
                         \o <<0>> \o Behind(tx)
<1>. DEFINE vin(size)  == <<1>> \o Script(size) \o <<1>>
            vout(size) == <<1>> \o Script(size)
<1>1. Concat(vin, tx.vin) = FlattenSeq(Vins(tx.vin))
  BY DEF Concat, Vins, Vin
<1>2. Concat(vout, tx.vout) = FlattenSeq(Vouts(tx.vout))
  BY DEF Concat, Vouts, Vout
<1>3. \A n \in Nat : [i \in 1..Len(Upto(n)) |-> SpendDesc(Upto(n)[i])] = Spends(n)
  BY DEF Upto, Spends
<1>4. \A n \in Nat : [i \in 1..Len(Upto(n)) |-> OutputDesc(Upto(n)[i])] = Outputs(n)
  BY DEF Upto, Outputs
<1>5. tx.spends \in Nat /\ tx.outputs \in Nat
  BY DEF Transaction
<1>6. Concat(SpendDesc, Upto(tx.spends)) = FlattenSeq(Spends(tx.spends))
  BY <1>3, <1>5 DEF Concat
<1>7. Concat(OutputDesc, Upto(tx.outputs)) = FlattenSeq(Outputs(tx.outputs))
  BY <1>4, <1>5 DEF Concat
<1>8. RawTx(tx) = <<tx.version, 0, 0, 0>>
          \o NodeCount(Len(tx.vin)) \o Concat(vin, tx.vin)
          \o NodeCount(Len(tx.vout)) \o Concat(vout, tx.vout)
          \o <<0>>
          \o IF tx.spends + tx.outputs = 0 THEN <<0>>
             ELSE <<1, 0>> \o NodeCount(tx.spends) \o Concat(SpendDesc, Upto(tx.spends))
                    \o NodeCount(tx.outputs) \o Concat(OutputDesc, Upto(tx.outputs))
                    \o <<0>>
  BY Zenon DEF RawTx
<1>. HIDE DEF vin, vout
<1>. QED  BY <1>1, <1>2, <1>6, <1>7, <1>8, Zenon DEF Behind

LEMMA BehindType ==
    ASSUME NEW tx \in Transaction
    PROVE  Behind(tx) \in Seq(Nat)
<1>1. tx.spends \in Nat /\ tx.outputs \in Nat
  BY DEF Transaction
<1>. DEFINE a == NodeCount(tx.spends)
            b == FlattenSeq(Spends(tx.spends))
            c == NodeCount(tx.outputs)
            e == FlattenSeq(Outputs(tx.outputs))
<1>2. a \in Seq(Nat) /\ c \in Seq(Nat)
  BY <1>1, NodeCountType
<1>3. b \in Seq(Nat)
  <2>1. Spends(tx.spends) \in Seq(Seq(Nat))
    BY <1>1, DescsType
  <2>. QED  BY <2>1, FlattenType
<1>4. e \in Seq(Nat)
  <2>1. Outputs(tx.outputs) \in Seq(Seq(Nat))
    BY <1>1, DescsType
  <2>. QED  BY <2>1, FlattenType
<1>5. Behind(tx) = IF tx.spends + tx.outputs = 0 THEN <<0>>
                   ELSE <<1, 0>> \o a \o b \o c \o e \o <<0>>
  BY DEF Behind
<1>. HIDE DEF a, b, c, e
<1>6. <<1, 0>> \o a \o b \o c \o e \o <<0>> \in Seq(Nat)
  BY <1>2, <1>3, <1>4
<1>. QED  BY <1>5, <1>6

LEMMA RawTxType ==
    ASSUME NEW tx \in Transaction
    PROVE  RawTx(tx) \in Seq(Nat)
<1>1. tx.vin \in Seq(Nat) /\ tx.vout \in Seq(Nat) /\ tx.version \in Nat
  BY BaseNat DEF Transaction
<1>6. Len(tx.vin) \in Nat /\ Len(tx.vout) \in Nat
  BY <1>1
<1>. DEFINE a == NodeCount(Len(tx.vin))
            b == FlattenSeq(Vins(tx.vin))
            c == NodeCount(Len(tx.vout))
            e == FlattenSeq(Vouts(tx.vout))
            f == Behind(tx)
            h == <<tx.version, 0, 0, 0>>
<1>2. a \in Seq(Nat) /\ c \in Seq(Nat)
  BY <1>6, NodeCountType
<1>3. b \in Seq(Nat) /\ e \in Seq(Nat)
  <2>1. Vins(tx.vin) \in Seq(Seq(Nat)) /\ Vouts(tx.vout) \in Seq(Seq(Nat))
    BY <1>1, ScriptsType
  <2>. QED  BY <2>1, FlattenType
<1>4. f \in Seq(Nat) /\ h \in Seq(Nat)
  BY <1>1, BehindType
<1>5. RawTx(tx) = h \o a \o b \o c \o e \o <<0>> \o f
  BY RawTxParts
<1>. HIDE DEF a, b, c, e, f, h
<1>7. h \o a \o b \o c \o e \o <<0>> \o f \in Seq(Nat)
  BY <1>2, <1>3, <1>4
<1>. QED  BY <1>5, <1>7

\* scan_block keeps, of a block, the shield transactions in their order.
Kept(raw) == IF IsShielded(raw) THEN <<raw>> ELSE <<>>

LEMMA ScannedType ==
    ASSUME NEW h \in 1..Len(Candidates), NEW txs \in Candidates[h]
    PROVE  /\ Scanned(h, txs) \in ShieldBlocks /\ Scanned(h, txs).height = h
           /\ Scanned(h, txs).txs
                = FlattenSeq([i \in 1..Len(txs) |-> Kept(RawTx(txs[i]))])
           /\ txs \in Seq(Transaction) /\ h \in Nat
           /\ \A i \in 1..Len(txs) : RawTx(txs[i]) \in Short
<1>1. Candidates \in Seq(SUBSET Seq(Transaction)) /\ h \in Nat
  BY CandidatesAssumption
<1>2. txs \in Seq(Transaction)
  BY <1>1
<1>. DEFINE raws == [i \in 1..Len(txs) |-> RawTx(txs[i])]
<1>3. ASSUME NEW i \in 1..Len(txs) PROVE RawTx(txs[i]) \in Short
  <2>1. txs[i] \in Transaction
    BY <1>2
  <2>2. RawTx(txs[i]) \in Seq(Nat)
    BY <2>1, RawTxType
  <2>. QED  BY <2>2, CandidatesAssumption DEF Short
<1>. DEFINE kept(raw) == IF IsShielded(raw) THEN <<raw>> ELSE <<>>
            ks == [i \in 1..Len(txs) |-> Kept(RawTx(txs[i]))]
            block == NodeBlock(h, txs)
            t == Base * Base * Base + h
<1>4. block = [height |-> h, time |-> t, txs |-> raws]
  BY DEF NodeBlock
<1>5. t \in Nat
  <2>1. Base * Base \in Nat
    BY BaseNat, Product
  <2>. DEFINE b2 == Base * Base
  <2>2. b2 \in Nat
    BY <2>1
  <2>. HIDE DEF b2
  <2>3. b2 * Base \in Nat
    BY <2>2, BaseNat, Product
  <2>4. t = b2 * Base + h
    BY DEF b2
  <2>. QED  BY <1>1, <2>3, <2>4
<1>6. Len(raws) = Len(txs) /\ Len(txs) \in Nat /\ \A i \in 1..Len(txs) : raws[i] = RawTx(txs[i])
  BY <1>2
<1>7. Concat(kept, raws) = FlattenSeq([i \in 1..Len(raws) |-> kept(raws[i])])
  BY DEF Concat
<1>8. [i \in 1..Len(raws) |-> kept(raws[i])] = ks
  <2>. HIDE DEF raws
  <2>1. \A raw : kept(raw) = Kept(raw)
    BY DEF Kept
  <2>. HIDE DEF kept
  <2>2. \A i \in 1..Len(txs) : kept(raws[i]) = Kept(RawTx(txs[i]))
    BY <1>6, <2>1
  <2>. QED  BY <1>6, <2>2
<1>9. Scanned(h, txs) = [block EXCEPT !.txs = Concat(kept, block.txs)]
  BY Zenon DEF Scanned, ScanBlockInner
<1>10. Scanned(h, txs) = [height |-> h, time |-> t, txs |-> FlattenSeq(ks)]
  <2>1. block.txs = raws
    BY <1>4
  <2>2. Concat(kept, block.txs) = FlattenSeq(ks)
    BY <1>7, <1>8, <2>1, Zenon
  <2>. HIDE DEF block, kept, ks, t, raws
  <2>. QED  BY <1>4, <1>9, <2>2
<1>11. ks \in Seq(Seq(ShieldTxs))
  <2>1. ASSUME NEW i \in 1..Len(txs) PROVE Kept(RawTx(txs[i])) \in Seq(ShieldTxs)
    <3>1. CASE IsShielded(RawTx(txs[i]))
      <4>1. RawTx(txs[i]) \in ShieldTxs
        BY <1>3, <3>1 DEF ShieldTxs
      <4>2. Kept(RawTx(txs[i])) = <<RawTx(txs[i])>>
        BY <3>1 DEF Kept
      <4>. QED  BY <4>1, <4>2
    <3>2. CASE ~IsShielded(RawTx(txs[i]))
      <4>1. Kept(RawTx(txs[i])) = <<>>
        BY <3>2 DEF Kept
      <4>. QED  BY <4>1
    <3>. QED  BY <3>1, <3>2
  <2>. QED  BY <1>6, <2>1
<1>12. FlattenSeq(ks) \in Seq(ShieldTxs)
  <2>. HIDE DEF ks
  <2>. QED  BY <1>11, FlattenType
<1>13. h \in 0..U32Max
  <2>1. Len(Candidates) <= U32Max /\ Len(Candidates) \in Nat /\ U32Max \in Nat
    BY CandidatesAssumption, U32Large
  <2>. QED  BY <1>1, <2>1
<1>. HIDE DEF t, ks
<1>14. Scanned(h, txs) \in ShieldBlocks
  BY <1>5, <1>10, <1>12, <1>13 DEF ShieldBlocks
<1>. QED  BY <1>1, <1>2, <1>3, <1>10, <1>14 DEF ks

----------------------------------------------------------------------------
(* Concatenating what a function makes of each element.                    *)

Mapped(f, s) == FlattenSeq([i \in 1..Len(s) |-> f[s[i]]])

LEMMA MappedType ==
    ASSUME NEW S, NEW T, NEW f \in [S -> Seq(T)], NEW s \in Seq(S)
    PROVE  /\ Mapped(f, s) \in Seq(T)
           /\ [i \in 1..Len(s) |-> f[s[i]]] \in Seq(Seq(T))
           /\ Len([i \in 1..Len(s) |-> f[s[i]]]) = Len(s)
<1>. DEFINE m == [i \in 1..Len(s) |-> f[s[i]]]
<1>1. ASSUME NEW i \in 1..Len(s) PROVE f[s[i]] \in Seq(T)
  <2>1. s[i] \in S
    OBVIOUS
  <2>. QED  BY <2>1
<1>2. m \in Seq(Seq(T)) /\ Len(m) = Len(s)
  BY <1>1
<1>. HIDE DEF m
<1>3. FlattenSeq(m) \in Seq(T)
  BY <1>2, FlattenType
<1>. QED  BY <1>2, <1>3 DEF Mapped, m

LEMMA MappedEmpty ==
    ASSUME NEW f
    PROVE  Mapped(f, <<>>) = <<>>
<1>1. [i \in 1..Len(<<>>) |-> f[<<>>[i]]] = <<>>
  OBVIOUS
<1>. QED  BY <1>1, FlattenEmpty, Zenon DEF Mapped

LEMMA MappedAppend ==
    ASSUME NEW S, NEW T, NEW f \in [S -> Seq(T)], NEW s \in Seq(S), NEW x \in S
    PROVE  Mapped(f, Append(s, x)) = Cat(Mapped(f, s), f[x])
<1>. DEFINE m(r) == [i \in 1..Len(r) |-> f[r[i]]]
            sx == Append(s, x)
<1>1. m(s) \in Seq(Seq(T)) /\ Len(m(s)) = Len(s) /\ f[x] \in Seq(T) /\ Len(s) \in Nat
  BY MappedType
<1>2. sx \in Seq(S) /\ Len(sx) = Len(s) + 1 /\ sx[Len(s) + 1] = x
      /\ \A i \in 1..Len(s) : sx[i] = s[i]
  OBVIOUS
<1>3. m(sx) \in Seq(Seq(T)) /\ Len(m(sx)) = Len(s) + 1
  <2>1. sx \in Seq(S)
    BY <1>2
  <2>. HIDE DEF sx
  <2>2. m(sx) \in Seq(Seq(T)) /\ Len(m(sx)) = Len(sx)
    BY <2>1, MappedType
  <2>. QED  BY <1>2, <2>2
<1>4. Append(m(s), f[x]) \in Seq(Seq(T)) /\ Len(Append(m(s), f[x])) = Len(s) + 1
  <2>. HIDE DEF m
  <2>. QED  BY <1>1
<1>5. ASSUME NEW i \in 1..(Len(s) + 1) PROVE m(sx)[i] = Append(m(s), f[x])[i]
  <2>1. m(sx)[i] = f[sx[i]]
    <3>. HIDE DEF sx
    <3>. QED  BY <1>2
  <2>2. CASE i = Len(s) + 1
    <3>1. Append(m(s), f[x])[i] = f[x]
      <4>. HIDE DEF m
      <4>. QED  BY <1>1, <2>2
    <3>. QED  BY <1>2, <2>1, <2>2, <3>1
  <2>3. CASE i # Len(s) + 1
    <3>1. i \in 1..Len(s)
      BY <1>1, <2>3
    <3>2. Append(m(s), f[x])[i] = m(s)[i]
      <4>. HIDE DEF m
      <4>. QED  BY <1>1, <3>1
    <3>3. m(s)[i] = f[s[i]]
      BY <3>1
    <3>4. sx[i] = s[i]
      BY <1>2, <3>1
    <3>. QED  BY <2>1, <3>2, <3>3, <3>4, Zenon
  <2>. QED  BY <2>2, <2>3
<1>. DEFINE a == m(sx)
            b == Append(m(s), f[x])
<1>6. a = b
  <2>1. a \in Seq(Seq(T)) /\ b \in Seq(Seq(T)) /\ Len(a) = Len(b)
        /\ \A i \in 1..Len(a) : a[i] = b[i]
    <3>. HIDE DEF m, sx
    <3>. QED  BY <1>3, <1>4, <1>5
  <2>. HIDE DEF a, b
  <2>. QED  BY <2>1, SeqEqual
<1>7. FlattenSeq(b) = Cat(FlattenSeq(m(s)), f[x])
  <2>. HIDE DEF m
  <2>. QED  BY <1>1, FlattenAppend
<1>8. Mapped(f, sx) = FlattenSeq(a) /\ Mapped(f, s) = FlattenSeq(m(s))
  BY DEF Mapped
<1>. QED  BY <1>6, <1>7, <1>8, Zenon

LEMMA PrefixAll ==
    ASSUME NEW S, NEW s \in Seq(S)
    PROVE  Prefix(s, 0) = <<>> /\ Prefix(s, Len(s)) = s /\ Len(s) \in Nat
BY DEF Prefix

\* One element more, as an append.
LEMMA PrefixAppends ==
    ASSUME NEW S, NEW s \in Seq(S), NEW i \in 1..Len(s)
    PROVE  /\ Prefix(s, i) = Append(Prefix(s, i - 1), s[i])
           /\ Prefix(s, i) \in Seq(S) /\ Prefix(s, i - 1) \in Seq(S) /\ s[i] \in S
<1>1. i \in 0..Len(s) /\ i - 1 \in 0..Len(s)
  OBVIOUS
<1>2. Prefix(s, i) \in Seq(S) /\ Prefix(s, i - 1) \in Seq(S)
  BY <1>1, Parts
<1>3. SubSeq(s, 1, i) = Append(SubSeq(s, 1, i - 1), s[i]) /\ s[i] \in S
  BY SplitLast
<1>. QED  BY <1>2, <1>3 DEF Prefix

LEMMA MappedConcat ==
    ASSUME NEW S, NEW T, NEW f \in [S -> Seq(T)], NEW s \in Seq(S), NEW t \in Seq(S)
    PROVE  Mapped(f, Cat(s, t)) = Cat(Mapped(f, s), Mapped(f, t))
<1>. DEFINE A == {i \in 0..Len(t) :
                    Mapped(f, Cat(s, Prefix(t, i))) = Cat(Mapped(f, s), Mapped(f, Prefix(t, i)))}
<1>0. Len(t) \in Nat /\ Mapped(f, s) \in Seq(T)
  BY MappedType
<1>1. 0 \in A
  <2>1. Cat(s, Prefix(t, 0)) = s
    BY PrefixAll, CatEmpty
  <2>2. Cat(Mapped(f, s), Mapped(f, Prefix(t, 0))) = Mapped(f, s)
    BY <1>0, PrefixAll, MappedEmpty, CatEmpty
  <2>3. 0 \in 0..Len(t)
    BY <1>0
  <2>. QED  BY <2>1, <2>2, <2>3
<1>2. ASSUME NEW i \in 1..Len(t), i - 1 \in A PROVE i \in A
  <2>. DEFINE u == Prefix(t, i - 1)
              x == t[i]
  <2>1. Prefix(t, i) = Append(u, x) /\ u \in Seq(S) /\ x \in S
    BY PrefixAppends
  <2>2. Mapped(f, Cat(s, u)) = Cat(Mapped(f, s), Mapped(f, u))
    BY <1>2
  <2>. HIDE DEF u, x
  <2>3. Cat(s, Append(u, x)) = Append(Cat(s, u), x) /\ Cat(s, u) \in Seq(S)
    BY <2>1, CatAppend, CatType
  <2>4. Mapped(f, Append(Cat(s, u), x)) = Cat(Mapped(f, Cat(s, u)), f[x])
    <3>. DEFINE v == Cat(s, u)
    <3>1. v \in Seq(S)
      BY <2>3
    <3>. HIDE DEF v
    <3>2. Mapped(f, Append(v, x)) = Cat(Mapped(f, v), f[x])
      BY <2>1, <3>1, MappedAppend
    <3>. QED  BY <3>2 DEF v
  <2>5. Mapped(f, Append(u, x)) = Cat(Mapped(f, u), f[x])
    BY <2>1, MappedAppend
  <2>6. Mapped(f, u) \in Seq(T) /\ f[x] \in Seq(T)
    BY <2>1, MappedType
  <2>7. Cat(Cat(Mapped(f, s), Mapped(f, u)), f[x]) = Cat(Mapped(f, s), Cat(Mapped(f, u), f[x]))
    <3>. DEFINE a == Mapped(f, s)
                b == Mapped(f, u)
                c == f[x]
    <3>1. a \in Seq(T) /\ b \in Seq(T) /\ c \in Seq(T)
      BY <1>0, <2>6
    <3>. HIDE DEF a, b, c
    <3>2. Cat(Cat(a, b), c) = Cat(a, Cat(b, c))
      BY <3>1, CatAssociative
    <3>. QED  BY <3>2 DEF a, b, c
  <2>8. Mapped(f, Cat(s, Prefix(t, i))) = Cat(Mapped(f, s), Mapped(f, Prefix(t, i)))
    BY <2>1, <2>2, <2>3, <2>4, <2>5, <2>7, Zenon
  <2>9. i \in 0..Len(t)
    BY <1>0
  <2>. QED  BY <2>8, <2>9
<1>3. Len(t) \in A
  <2>1. \A i \in 0..Len(t) : i \in A
    <3>. DEFINE n == Len(t)
    <3>1. n \in Nat /\ 0 \in A /\ \A i \in 1..n : i - 1 \in A => i \in A
      BY <1>0, <1>1, <1>2
    <3>. HIDE DEF A, n
    <3>2. \A i \in 0..n : i \in A
      BY <3>1, UpTo
    <3>. QED  BY <3>2 DEF n
  <2>2. Len(t) \in 0..Len(t)
    BY <1>0
  <2>. HIDE DEF A
  <2>. QED  BY <2>1, <2>2
<1>. QED  BY <1>3, PrefixAll

----------------------------------------------------------------------------
(* The stored stream.                                                      *)

Encoded == [block \in ShieldBlocks |-> EncodePivxCompat(block)]
Packed  == [block \in ShieldBlocks |-> Payloads(block)]

Stream(bs)  == Mapped(Encoded, bs)
Content(bs) == Mapped(Packed, bs)

LEMMA EncodedType ==
    /\ Encoded \in [ShieldBlocks -> Seq(Nat)] /\ Packed \in [ShieldBlocks -> Seq(Short)]
    /\ \A b \in ShieldBlocks : Encoded[b] = Framed(Packed[b]) /\ Packed[b] \in Seq(Short)
                               /\ Encoded[b] = EncodePivxCompat(b) /\ Packed[b] = Payloads(b)
<1>1. ASSUME NEW b \in ShieldBlocks PROVE Payloads(b) \in Seq(Short)
  BY PayloadsType
<1>2. ASSUME NEW b \in ShieldBlocks
      PROVE  EncodePivxCompat(b) = Framed(Payloads(b)) /\ EncodePivxCompat(b) \in Seq(Nat)
  BY BlockFramed
<1>. QED  BY <1>1, <1>2 DEF Encoded, Packed

LEMMA StreamType ==
    ASSUME NEW bs \in Seq(ShieldBlocks)
    PROVE  /\ Stream(bs) \in Seq(Nat) /\ Len(Stream(bs)) \in Nat
           /\ Content(bs) \in Seq(Short)
<1>. DEFINE s == Stream(bs)
<1>1. s \in Seq(Nat)
  BY EncodedType, MappedType DEF Stream
<1>2. Content(bs) \in Seq(Short)
  BY EncodedType, MappedType DEF Content
<1>. HIDE DEF s
<1>3. Len(s) \in Nat
  BY <1>1
<1>. QED  BY <1>1, <1>2, <1>3 DEF s

LEMMA StreamIs ==
    ASSUME NEW bs \in Seq(ShieldBlocks)
    PROVE  EncodeShieldStream(bs, "PivxCompat") = Stream(bs)
<1>1. EncodeShieldStream(bs, "PivxCompat") = Concat(EncodePivxCompat, bs)
  BY DEF EncodeShieldStream
<1>2. [i \in 1..Len(bs) |-> EncodePivxCompat(bs[i])] = [i \in 1..Len(bs) |-> Encoded[bs[i]]]
  <2>1. ASSUME NEW i \in 1..Len(bs) PROVE EncodePivxCompat(bs[i]) = Encoded[bs[i]]
    <3>1. bs[i] \in ShieldBlocks
      OBVIOUS
    <3>. QED  BY <3>1, EncodedType
  <2>. QED  BY <2>1
<1>. QED  BY <1>1, <1>2, Zenon DEF Concat, Stream, Mapped

\* The stream frames the payloads of its blocks.
LEMMA StreamFramed ==
    ASSUME NEW bs \in Seq(ShieldBlocks)
    PROVE  Stream(bs) = Framed(Content(bs))
<1>. DEFINE n == Len(bs)
            A == {i \in 0..n : Stream(Prefix(bs, i)) = Framed(Content(Prefix(bs, i)))}
<1>0. n \in Nat
  OBVIOUS
<1>1. 0 \in A
  <2>1. Prefix(bs, 0) = <<>>
    BY PrefixAll
  <2>2. Stream(<<>>) = <<>> /\ Content(<<>>) = <<>>
    BY MappedEmpty DEF Stream, Content
  <2>3. 0 \in 0..n
    BY <1>0
  <2>. QED  BY <2>1, <2>2, <2>3, FramedEmpty
<1>2. ASSUME NEW i \in 1..n, i - 1 \in A PROVE i \in A
  <2>. DEFINE u == Prefix(bs, i - 1)
              b == bs[i]
  <2>1. Prefix(bs, i) = Append(u, b) /\ u \in Seq(ShieldBlocks) /\ b \in ShieldBlocks
    BY PrefixAppends
  <2>2. Stream(u) = Framed(Content(u))
    BY <1>2
  <2>3. i \in 0..n
    BY <1>0
  <2>. HIDE DEF u, b, n
  <2>4. Stream(Append(u, b)) = Cat(Stream(u), Encoded[b])
    BY <2>1, EncodedType, MappedAppend, ZenonT(40) DEF Stream
  <2>5. Content(Append(u, b)) = Cat(Content(u), Packed[b])
    BY <2>1, EncodedType, MappedAppend, ZenonT(40) DEF Content
  <2>6. Encoded[b] = Framed(Packed[b])
    BY <2>1, EncodedType
  <2>7. Framed(Cat(Content(u), Packed[b])) = Cat(Framed(Content(u)), Framed(Packed[b]))
    <3>1. Content(u) \in Seq(Short)
      BY <2>1, StreamType
    <3>2. Packed[b] \in Seq(Short)
      BY <2>1, EncodedType
    <3>. DEFINE x == Content(u)
                y == Packed[b]
    <3>3. x \in Seq(Seq(Nat)) /\ y \in Seq(Seq(Nat))
      BY <3>1, <3>2, ShortParts
    <3>. HIDE DEF x, y
    <3>4. Framed(Cat(x, y)) = Cat(Framed(x), Framed(y))
      BY <3>3, FramedConcat
    <3>. QED  BY <3>4 DEF x, y
  <2>8. Stream(Prefix(bs, i)) = Framed(Content(Prefix(bs, i)))
    BY <2>1, <2>2, <2>4, <2>5, <2>6, <2>7, Zenon
  <2>. QED  BY <2>3, <2>8
<1>3. \A i \in 0..n : i \in A
  <2>. HIDE DEF A, n
  <2>. QED  BY <1>0, <1>1, <1>2, UpTo
<1>4. n \in 0..n
  BY <1>0
<1>5. Stream(Prefix(bs, n)) = Framed(Content(Prefix(bs, n)))
  BY <1>3, <1>4
<1>. QED  BY <1>5, PrefixAll

\* A stream of blocks ends in a footer.
LEMMA ContentEnds ==
    ASSUME NEW bs \in Seq(ShieldBlocks), bs # <<>>
    PROVE  Content(bs) # <<>> /\ IsFooter(Content(bs)[Len(Content(bs))])
<1>. DEFINE n == Len(bs)
            u == Prefix(bs, n - 1)
            b == bs[n]
<1>1. n \in 1..n
  OBVIOUS
<1>2. bs = Append(u, b) /\ u \in Seq(ShieldBlocks) /\ b \in ShieldBlocks
  BY <1>1, PrefixAppends, PrefixAll
<1>. HIDE DEF n, u, b
<1>. DEFINE x == Content(u)
            y == Packed[b]
<1>3. Content(Append(u, b)) = Cat(x, y)
  BY <1>2, EncodedType, MappedAppend, ZenonT(40) DEF Content
<1>4. x \in Seq(Short)
  BY <1>2, StreamType
<1>5. y = Payloads(b)
  BY <1>2, EncodedType
<1>6. y \in Seq(Short) /\ Len(y) # 0 /\ y[Len(y)] = FooterOf(b)
  <2>1. LET n1 == Len(b.txs)
        IN  /\ Payloads(b) \in Seq(Short) /\ Len(Payloads(b)) = n1 + 1 /\ n1 \in Nat
            /\ Payloads(b)[n1 + 1] = FooterOf(b)
    BY <1>2, PayloadsType
  <2>. QED  BY <1>5, <2>1
<1>7. IsFooter(FooterOf(b))
  BY <1>2, FooterType DEF ShieldBlocks
<1>. HIDE DEF x, y
<1>8. Cat(x, y) \in Seq(Short) /\ Len(Cat(x, y)) = Len(x) + Len(y)
  BY <1>4, <1>6, CatType
<1>9. \A i \in 1..Len(y) : Cat(x, y)[Len(x) + i] = y[i]
  <2>1. y \in Seq(Short)
    BY <1>6
  <2>. QED  BY <1>4, <2>1, CatBack
<1>10. Len(y) \in 1..Len(y) /\ Len(x) \in Nat
  BY <1>4, <1>6
<1>11. Cat(x, y)[Len(Cat(x, y))] = FooterOf(b)
  BY <1>6, <1>8, <1>9, <1>10
<1>12. Cat(x, y) # <<>>
  <2>. DEFINE z == Cat(x, y)
  <2>1. Len(z) # 0
    BY <1>8, <1>10
  <2>. HIDE DEF z
  <2>2. z # <<>>
    BY <2>1
  <2>. QED  BY <2>2 DEF z
<1>13. Content(bs) = Cat(x, y)
  BY <1>2, <1>3, Zenon
<1>. QED  BY <1>7, <1>11, <1>12, <1>13, Zenon

LEMMA FramedLonger ==
    ASSUME NEW xs \in Seq(Short), xs # <<>>
    PROVE  Len(Framed(xs)) \in Nat /\ Len(Framed(xs)) # 0
<1>. DEFINE n == Len(xs)
<1>1. xs \in Seq(Seq(Nat)) /\ n \in Nat
  BY ShortParts
<1>2. n \in 1..n
  OBVIOUS
<1>3. Laid(Cat(Framed(xs), <<>>), xs)
  <2>1. <<>> \in Seq(Nat)
    OBVIOUS
  <2>. QED  BY <1>1, <2>1, FramedLaid
<1>4. End(xs, n - 1) \in Nat /\ End(xs, n) = End(xs, n - 1) + 4 + Len(xs[n])
  <2>. HIDE DEF n
  <2>. QED  BY <1>2, <1>3, n = Len(xs) DEF Laid, n
<1>5. End(xs, n) = Len(Framed(xs))
  BY <1>1, EndStart
<1>6. Len(xs[n]) \in Nat
  <2>1. xs[n] \in Seq(Nat)
    BY <1>1, <1>2
  <2>. QED  BY <2>1
<1>. QED  BY <1>4, <1>5, <1>6

\* recover_cache cuts off what is left of a block behind whole ones.
LEMMA CutsTail ==
    ASSUME NEW bs \in Seq(ShieldBlocks), bs # <<>>, NEW b \in ShieldBlocks,
           NEW k \in Nat, k < Len(EncodePivxCompat(b))
    PROVE  RecoverCache(Cat(Stream(bs), SubSeq(EncodePivxCompat(b), 1, k))) = Stream(bs)
<1>. DEFINE xs == Content(bs)
            ys == Payloads(b)
            m == Len(b.txs)
<1>1. xs \in Seq(Short) /\ xs # <<>> /\ IsFooter(xs[Len(xs)])
  BY StreamType, ContentEnds
<1>2. /\ ys \in Seq(Short) /\ Len(ys) = m + 1 /\ m \in Nat
      /\ \A i \in 1..m : ys[i] = b.txs[i] /\ ys[i] \in ShieldTxs
  BY PayloadsType
<1>3. \A j \in 1..(Len(ys) - 1) : ~IsFooter(ys[j])
  <2>. HIDE DEF ys, m
  <2>1. \A j \in 1..m : ys[j] \in ShieldTxs
    BY <1>2
  <2>2. \A j \in 1..m : ~IsFooter(ys[j])
    BY <2>1, ShieldTxShape
  <2>3. Len(ys) - 1 = m
    BY <1>2
  <2>. QED  BY <2>2, <2>3
<1>4. EncodePivxCompat(b) = Framed(ys)
  BY BlockFramed
<1>5. Stream(bs) = Framed(xs)
  BY StreamFramed
<1>. DEFINE d == Cat(Framed(xs), SubSeq(Framed(ys), 1, k))
<1>6. FindLastFooter(d) = Len(Framed(xs))
  <2>1. ys \in Seq(Short) /\ k < Len(Framed(ys))
    BY <1>2, <1>4
  <2>. HIDE DEF xs, ys
  <2>. QED  BY <1>1, <1>3, <2>1, FindsLastFooter
<1>7. Len(Framed(xs)) # 0
  BY <1>1, FramedLonger
<1>8. RecoverCache(d) = SubSeq(d, 1, Len(Framed(xs)))
  <2>. HIDE DEF d, xs
  <2>. QED  BY <1>6, <1>7 DEF RecoverCache
<1>9. SubSeq(d, 1, Len(Framed(xs))) = Framed(xs)
  <2>. DEFINE a == Framed(xs)
              c == SubSeq(Framed(ys), 1, k)
  <2>1. a \in Seq(Nat)
    BY <1>1, ShortParts
  <2>2. c \in Seq(Nat)
    <3>. DEFINE y == Framed(ys)
    <3>1. y \in Seq(Nat) /\ k < Len(y)
      BY <1>2, <1>4, ShortParts
    <3>. HIDE DEF y
    <3>2. \A i \in 1..k : y[i] \in Nat
      BY <3>1
    <3>3. SubSeq(y, 1, k) \in Seq(Nat)
      BY <3>2, SubSeqProperties
    <3>. QED  BY <3>3 DEF y
  <2>. HIDE DEF a, c
  <2>3. Prefix(Cat(a, c), Len(a)) = a
    BY <2>1, <2>2, PrefixOfCat
  <2>. QED  BY <2>3 DEF a, c, Prefix
<1>. HIDE DEF xs, ys
<1>. QED  BY <1>4, <1>5, <1>8, <1>9, Zenon

\* An empty file has no footer, and is left as it is.
LEMMA CutsNothing == RecoverCache(<<>>) = <<>>
<1>. DEFINE xs == <<>>
<1>1. Laid(<<>>, <<>>)
  BY DEF Laid
<1>2. End(<<>>, 0) = 0
  <2>1. <<>> \in Seq(Seq(Nat))
    OBVIOUS
  <2>. QED  BY <2>1, EndStart
<1>3. Packets(<<>>, FALSE) = Listing(<<>>)
  <2>1. <<>> \in Seq(Nat) /\ <<>> \in Seq(Short) /\ Len(<<>>) = 0
    OBVIOUS
  <2>2. ~Goes(<<>>, FALSE, 0)
    BY <2>1 DEF Goes
  <2>3. \A i \in 1..Len(<<>>) : Len(<<>>[i]) # 0
    BY <2>1
  <2>5. End(<<>>, Len(<<>>)) = 0 /\ Len(<<>>) = 0
    <3>1. Len(<<>>) = 0
      BY <2>1
    <3>. QED  BY <1>2, <3>1, Zenon
  <2>6. 0 \in 0..0
    OBVIOUS
  <2>4. End(<<>>, Len(<<>>)) \in 0..Len(<<>>) /\ ~Goes(<<>>, FALSE, End(<<>>, Len(<<>>)))
    BY <2>2, <2>5, <2>6, Zenon
  <2>. QED  BY <1>1, <2>1, <2>3, <2>4, WalkLaid
<1>4. Len(Listing(<<>>)) = 0
  BY DEF Listing
<1>5. {i \in 1..Len(Listing(<<>>)) : IsFooter(Payload(<<>>, Listing(<<>>)[i]))} = {}
  BY <1>4
<1>6. FindLastFooter(<<>>) = 0
  BY <1>3, <1>5, Zenon DEF FindLastFooter
<1>. QED  BY <1>6 DEF RecoverCache

----------------------------------------------------------------------------
(* The file and its index.                                                 *)

LEMMA PrefixFront ==
    ASSUME NEW S, NEW s \in Seq(S), NEW i \in 0..Len(s), NEW j \in 0..i
    PROVE  Prefix(Prefix(s, i), j) = Prefix(s, j)
<1>. DEFINE u == Prefix(s, i)
            a == Prefix(u, j)
            b == Prefix(s, j)
<1>1. u \in Seq(S) /\ Len(u) = i
  BY Parts
<1>2. j \in 0..Len(s) /\ j \in 0..Len(u) /\ i \in Nat
  BY <1>1
<1>3. b \in Seq(S) /\ Len(b) = j
  BY <1>2, Parts
<1>4. a \in Seq(S) /\ Len(a) = j
  <2>. HIDE DEF u
  <2>. QED  BY <1>1, <1>2, Parts
<1>5. ASSUME NEW k \in 1..j PROVE a[k] = b[k]
  <2>1. k \in 1..i
    BY <1>2
  <2>2. u[k] = s[k]
    BY <2>1, PrefixElements
  <2>3. b[k] = s[k]
    BY <1>2, PrefixElements
  <2>4. a[k] = u[k]
    <3>. HIDE DEF u
    <3>. QED  BY <1>1, <1>2, PrefixElements
  <2>. QED  BY <2>2, <2>3, <2>4, Zenon
<1>. HIDE DEF a, b
<1>6. a = b
  BY <1>3, <1>4, <1>5, SeqEqual
<1>. QED  BY <1>6 DEF a, b, u

LEMMA PrefixOfAppend ==
    ASSUME NEW S, NEW s \in Seq(S), NEW x \in S, NEW i \in 0..Len(s)
    PROVE  Prefix(Append(s, x), i) = Prefix(s, i)
<1>. DEFINE t == Append(s, x)
            a == Prefix(t, i)
            b == Prefix(s, i)
<1>1. t \in Seq(S) /\ Len(t) = Len(s) + 1 /\ Len(s) \in Nat /\ \A k \in 1..Len(s) : t[k] = s[k]
  OBVIOUS
<1>2. i \in 0..Len(t)
  <2>. HIDE DEF t
  <2>. QED  BY <1>1
<1>3. b \in Seq(S) /\ Len(b) = i
  BY Parts
<1>4. a \in Seq(S) /\ Len(a) = i
  <2>. HIDE DEF t
  <2>. QED  BY <1>1, <1>2, Parts
<1>5. ASSUME NEW k \in 1..i PROVE a[k] = b[k]
  <2>1. b[k] = s[k]
    BY PrefixElements
  <2>2. a[k] = t[k]
    <3>. HIDE DEF t
    <3>. QED  BY <1>1, <1>2, PrefixElements
  <2>3. t[k] = s[k]
    <3>1. k \in 1..Len(s)
      BY <1>1
    <3>. QED  BY <1>1, <3>1
  <2>. QED  BY <2>1, <2>2, <2>3, Zenon
<1>. HIDE DEF a, b
<1>6. a = b
  BY <1>3, <1>4, <1>5, SeqEqual
<1>. QED  BY <1>6 DEF a, b, t

\* The blocks an index names.
Chain(st) == [k \in 1..Len(st) |-> Scanned(k, st[k].txs)]

Entry == [txs : UNION {Candidates[h] : h \in 1..Len(Candidates)}, at : Nat]

IsIndex(st) ==
    /\ st \in Seq(Entry) /\ Len(st) <= Len(Candidates)
    /\ \A k \in 1..Len(st) : st[k].txs \in Candidates[k]

LEMMA ChainType ==
    ASSUME NEW st, IsIndex(st)
    PROVE  /\ Chain(st) \in Seq(ShieldBlocks) /\ Len(Chain(st)) = Len(st) /\ Len(st) \in Nat
           /\ \A k \in 1..Len(st) : Chain(st)[k] = Scanned(k, st[k].txs)
<1>1. Len(st) \in Nat /\ Len(Candidates) \in Nat
  BY CandidatesAssumption DEF IsIndex
<1>2. ASSUME NEW k \in 1..Len(st) PROVE Scanned(k, st[k].txs) \in ShieldBlocks
  <2>1. k \in 1..Len(Candidates) /\ st[k].txs \in Candidates[k]
    BY <1>1 DEF IsIndex
  <2>. QED  BY <2>1, ScannedType
<1>. QED  BY <1>1, <1>2 DEF Chain

LEMMA ChainFront ==
    ASSUME NEW st, IsIndex(st), NEW i \in 0..Len(st)
    PROVE  IsIndex(Prefix(st, i)) /\ Len(Prefix(st, i)) = i /\ Chain(Prefix(st, i)) = Prefix(Chain(st), i)
<1>. DEFINE u == Prefix(st, i)
            c == Chain(st)
<1>1. st \in Seq(Entry) /\ Len(st) <= Len(Candidates) /\ Len(Candidates) \in Nat /\ Len(st) \in Nat
  BY CandidatesAssumption DEF IsIndex
<1>2. u \in Seq(Entry) /\ Len(u) = i
  BY <1>1, Parts
<1>3. \A k \in 1..i : u[k] = st[k]
  BY <1>1, PrefixElements
<1>. HIDE DEF u
<1>4. IsIndex(u)
  BY <1>1, <1>2, <1>3 DEF IsIndex
<1>5. c \in Seq(ShieldBlocks) /\ Len(c) = Len(st)
  BY ChainType
<1>6. i \in 0..Len(c)
  BY <1>5
<1>7. Prefix(c, i) \in Seq(ShieldBlocks) /\ Len(Prefix(c, i)) = i
  <2>1. c \in Seq(ShieldBlocks)
    BY <1>5
  <2>. HIDE DEF c
  <2>. QED  BY <1>6, <2>1, Parts
<1>8. Chain(u) \in Seq(ShieldBlocks) /\ Len(Chain(u)) = i
  BY <1>2, <1>4, ChainType
<1>9. ASSUME NEW k \in 1..i PROVE Chain(u)[k] = Prefix(c, i)[k]
  <2>1. Chain(u)[k] = Scanned(k, u[k].txs)
    BY <1>2, <1>4, ChainType
  <2>2. c[k] = Scanned(k, st[k].txs)
    <3>1. k \in 1..Len(st)
      BY <1>1
    <3>. QED  BY <3>1, ChainType
  <2>3. Prefix(c, i)[k] = c[k]
    <3>1. c \in Seq(ShieldBlocks)
      BY <1>5
    <3>. HIDE DEF c
    <3>. QED  BY <1>6, <3>1, PrefixElements
  <2>4. u[k] = st[k]
    BY <1>3
  <2>. QED  BY <2>1, <2>2, <2>3, <2>4, Zenon
<1>. DEFINE a == Chain(u)
            b == Prefix(c, i)
<1>. HIDE DEF a, b, c
<1>10. a = b
  BY <1>7, <1>8, <1>9, SeqEqual DEF a, b
<1>. QED  BY <1>2, <1>4, <1>10 DEF a, b, c, u

LEMMA ChainAppend ==
    ASSUME NEW st, IsIndex(st), Len(st) + 1 <= Len(Candidates),
           NEW txs \in Candidates[Len(st) + 1], NEW at \in Nat
    PROVE  LET e == [txs |-> txs, at |-> at]
               b == Scanned(Len(st) + 1, txs)
           IN  /\ IsIndex(Append(st, e)) /\ b \in ShieldBlocks
               /\ Chain(Append(st, e)) = Append(Chain(st), b)
<1>. DEFINE e == [txs |-> txs, at |-> at]
            n == Len(st)
            b == Scanned(n + 1, txs)
            t == Append(st, e)
            c == Chain(st)
<1>1. st \in Seq(Entry) /\ n <= Len(Candidates) /\ Len(Candidates) \in Nat /\ n \in Nat
  BY CandidatesAssumption DEF IsIndex
<1>2. n + 1 \in 1..Len(Candidates)
  BY <1>1
<1>3. e \in Entry
  BY <1>2 DEF Entry
<1>4. b \in ShieldBlocks
  BY <1>2, ScannedType
<1>5. /\ t \in Seq(Entry) /\ Len(t) = n + 1
      /\ \A k \in 1..n : t[k] = st[k]
      /\ t[n + 1] = e
  <2>. HIDE DEF e
  <2>. QED  BY <1>1, <1>3
<1>6. e.txs = txs
  OBVIOUS
<1>. HIDE DEF e, t
<1>7. ASSUME NEW k \in 1..(n + 1) PROVE t[k].txs \in Candidates[k]
  <2>1. CASE k = n + 1
    BY <1>5, <1>6, <2>1
  <2>2. CASE k # n + 1
    <3>1. k \in 1..n
      BY <1>1, <2>2
    <3>2. st[k].txs \in Candidates[k]
      BY <3>1 DEF IsIndex
    <3>. QED  BY <1>5, <3>1, <3>2
  <2>. QED  BY <2>1, <2>2
<1>8. IsIndex(t)
  BY <1>2, <1>5, <1>7 DEF IsIndex
<1>9. Chain(t) \in Seq(ShieldBlocks) /\ Len(Chain(t)) = n + 1
      /\ \A k \in 1..(n + 1) : Chain(t)[k] = Scanned(k, t[k].txs)
  BY <1>5, <1>8, ChainType
<1>10. c \in Seq(ShieldBlocks) /\ Len(c) = n /\ \A k \in 1..n : c[k] = Scanned(k, st[k].txs)
  BY ChainType
<1>. HIDE DEF n, b, c
<1>11. Append(c, b) \in Seq(ShieldBlocks) /\ Len(Append(c, b)) = n + 1
       /\ Append(c, b)[n + 1] = b /\ \A k \in 1..n : Append(c, b)[k] = c[k]
  BY <1>1, <1>4, <1>10
<1>12. ASSUME NEW k \in 1..(n + 1) PROVE Chain(t)[k] = Append(c, b)[k]
  <2>1. CASE k = n + 1
    <3>1. Chain(t)[k] = Scanned(n + 1, txs)
      BY <1>5, <1>6, <1>9, <2>1
    <3>. QED  BY <1>11, <2>1, <3>1 DEF b
  <2>2. CASE k # n + 1
    <3>1. k \in 1..n
      BY <1>1, <2>2
    <3>2. Chain(t)[k] = Scanned(k, t[k].txs)
      BY <1>9
    <3>3. Append(c, b)[k] = c[k] /\ c[k] = Scanned(k, st[k].txs) /\ t[k] = st[k]
      BY <1>5, <1>10, <1>11, <3>1
    <3>. QED  BY <3>2, <3>3, Zenon
  <2>. QED  BY <2>1, <2>2
<1>. DEFINE x == Chain(t)
            y == Append(c, b)
<1>. HIDE DEF x, y
<1>13. x = y
  BY <1>9, <1>11, <1>12, SeqEqual DEF x, y
<1>. QED  BY <1>4, <1>8, <1>13 DEF x, y, t, e, b, c, n

\* Blocks up to one, and from it on.
LEMMA StreamSplit ==
    ASSUME NEW bs \in Seq(ShieldBlocks), NEW i \in 0..Len(bs)
    PROVE  /\ Stream(bs) = Cat(Stream(Prefix(bs, i)), Stream(Suffix(bs, i)))
           /\ SubSeq(Stream(bs), 1, Len(Stream(Prefix(bs, i)))) = Stream(Prefix(bs, i))
           /\ Prefix(bs, i) \in Seq(ShieldBlocks) /\ Suffix(bs, i) \in Seq(ShieldBlocks)
           /\ Stream(Prefix(bs, i)) \in Seq(Nat) /\ Stream(Suffix(bs, i)) \in Seq(Nat)
<1>. DEFINE u == Prefix(bs, i)
            v == Suffix(bs, i)
<1>1. u \in Seq(ShieldBlocks) /\ v \in Seq(ShieldBlocks) /\ bs = Cat(u, v)
  BY Parts
<1>. HIDE DEF u, v
<1>2. Mapped(Encoded, Cat(u, v)) = Cat(Mapped(Encoded, u), Mapped(Encoded, v))
  <2>1. Encoded \in [ShieldBlocks -> Seq(Nat)]
    BY EncodedType
  <2>2. u \in Seq(ShieldBlocks) /\ v \in Seq(ShieldBlocks)
    BY <1>1
  <2>. DEFINE B == ShieldBlocks
              f == Encoded
              N == Nat
  <2>3. f \in [B -> Seq(N)] /\ u \in Seq(B) /\ v \in Seq(B)
    BY <2>1, <2>2
  <2>. HIDE DEF B, f, N
  <2>4. Mapped(f, Cat(u, v)) = Cat(Mapped(f, u), Mapped(f, v))
    BY <2>3, MappedConcat
  <2>. QED  BY <2>4 DEF f
<1>3. Stream(u) \in Seq(Nat) /\ Stream(v) \in Seq(Nat)
  BY <1>1, StreamType
<1>4. Stream(bs) = Cat(Stream(u), Stream(v))
  BY <1>1, <1>2, Zenon DEF Stream
<1>. DEFINE a == Stream(u)
            b == Stream(v)
<1>. HIDE DEF a, b
<1>5. Prefix(Cat(a, b), Len(a)) = a
  <2>1. a \in Seq(Nat) /\ b \in Seq(Nat)
    BY <1>3 DEF a, b
  <2>. QED  BY <2>1, PrefixOfCat
<1>6. SubSeq(Stream(bs), 1, Len(Stream(u))) = Stream(u)
  BY <1>4, <1>5, Zenon DEF a, b, Prefix
<1>. QED  BY <1>1, <1>3, <1>4, <1>6 DEF u, v

\* The offset of each entry is where its block starts.
Placed(st) == \A k \in 1..Len(st) : st[k].at = Len(Stream(Prefix(Chain(st), k - 1)))

\* Up, the file is the indexed blocks.  Down, a part of the next may follow
\* them, but only behind a whole one.
TornBehind ==
    /\ ~up /\ stored # <<>>
    /\ \E bytes \in NextBytes :
         \E k \in 1..(Len(bytes) - 1) :
           file = Cat(EncodeShieldStream(Chain(stored), "PivxCompat"), SubSeq(bytes, 1, k))

FileInv ==
    /\ up \in BOOLEAN
    /\ IsIndex(stored) /\ Placed(stored)
    /\ file = EncodeShieldStream(Chain(stored), "PivxCompat") \/ TornBehind

LEMMA NextBytesAre ==
    ASSUME NEW bytes \in NextBytes
    PROVE  /\ Len(stored) + 1 <= Len(Candidates)
           /\ \E txs \in Candidates[Len(stored) + 1] :
                bytes = EncodePivxCompat(Scanned(Len(stored) + 1, txs))
BY DEF NextBytes, NextHeight

LEMMA FileInit ==
    ASSUME Init
    PROVE  FileInv
<1>1. stored = <<>> /\ file = <<>> /\ up = TRUE
  BY DEF Init
<1>2. IsIndex(stored) /\ Placed(stored)
  <2>1. stored \in Seq(Entry) /\ Len(stored) = 0 /\ Len(Candidates) \in Nat
    BY <1>1, CandidatesAssumption
  <2>. QED  BY <2>1 DEF IsIndex, Placed
<1>3. Chain(stored) = <<>>
  <2>1. Chain(stored) \in Seq(ShieldBlocks) /\ Len(Chain(stored)) = Len(stored)
    BY <1>2, ChainType
  <2>. QED  BY <1>1, <2>1
<1>4. EncodeShieldStream(Chain(stored), "PivxCompat") = <<>>
  <2>1. EncodeShieldStream(Chain(stored), "PivxCompat") = Stream(Chain(stored))
    BY <1>2, ChainType, StreamIs
  <2>. QED  BY <1>3, <2>1, MappedEmpty, Zenon DEF Stream
<1>. QED  BY <1>1, <1>2, <1>4 DEF FileInv

\* append_blocks adds the next block and an entry for where it starts.
LEMMA FileAppend ==
    ASSUME FileInv, AppendBlock
    PROVE  FileInv'
<1>. DEFINE n == Len(stored)
            c == Chain(stored)
<1>1. IsIndex(stored) /\ Placed(stored) /\ up /\ up' = up /\ n + 1 <= Len(Candidates)
  BY DEF FileInv, AppendBlock, NextHeight
<1>2. PICK txs \in Candidates[n + 1] :
        /\ file' = file \o EncodePivxCompat(Scanned(n + 1, txs))
        /\ stored' = Append(stored, [txs |-> txs, at |-> Len(file)])
  BY DEF AppendBlock, NextHeight
<1>3. c \in Seq(ShieldBlocks) /\ Len(c) = n /\ n \in Nat
  BY <1>1, ChainType
<1>4. file = Stream(c)
  <2>1. file = EncodeShieldStream(c, "PivxCompat")
    BY <1>1 DEF FileInv, TornBehind
  <2>. HIDE DEF c
  <2>. QED  BY <1>3, <2>1, StreamIs
<1>5. Len(file) \in Nat
  <2>. HIDE DEF c
  <2>. QED  BY <1>3, <1>4, StreamType
<1>. DEFINE b == Scanned(n + 1, txs)
            e == [txs |-> txs, at |-> Len(file)]
<1>6. IsIndex(stored') /\ b \in ShieldBlocks /\ Chain(stored') = Append(c, b)
  BY <1>1, <1>2, <1>5, ChainAppend
<1>7. file' = EncodeShieldStream(Chain(stored'), "PivxCompat")
  <2>. HIDE DEF b, c, n
  <2>1. file' = Cat(Stream(c), EncodePivxCompat(b))
    BY <1>2, <1>4 DEF Cat, b
  <2>2. Stream(Append(c, b)) = Cat(Stream(c), Encoded[b])
    <3>1. c \in Seq(ShieldBlocks) /\ b \in ShieldBlocks
      BY <1>3, <1>6
    <3>2. Encoded \in [ShieldBlocks -> Seq(Nat)]
      BY EncodedType
    <3>. QED  BY <3>1, <3>2, MappedAppend DEF Stream
  <2>3. Encoded[b] = EncodePivxCompat(b)
    BY <1>6, EncodedType
  <2>4. Chain(stored') \in Seq(ShieldBlocks)
    BY <1>6, ChainType
  <2>5. EncodeShieldStream(Chain(stored'), "PivxCompat") = Stream(Chain(stored'))
    <3>. DEFINE x == Chain(stored')
    <3>1. x \in Seq(ShieldBlocks)
      BY <2>4
    <3>. HIDE DEF x
    <3>2. EncodeShieldStream(x, "PivxCompat") = Stream(x)
      BY <3>1, StreamIs
    <3>. QED  BY <3>2 DEF x
  <2>. QED  BY <1>6, <2>1, <2>2, <2>3, <2>5, Zenon
<1>8. Placed(stored')
  <2>1. Len(stored') = n + 1 /\ stored'[n + 1] = e /\ \A k \in 1..n : stored'[k] = stored[k]
    <3>1. stored \in Seq(Entry) /\ n \in Nat
      BY <1>1, <1>3 DEF IsIndex
    <3>. HIDE DEF e
    <3>2. stored' = Append(stored, e)
      BY <1>2 DEF e
    <3>. QED  BY <3>1, <3>2
  <2>2. e.at = Len(file)
    OBVIOUS
  <2>. SUFFICES ASSUME NEW k \in 1..(n + 1)
                PROVE  stored'[k].at = Len(Stream(Prefix(Chain(stored'), k - 1)))
    BY <2>1 DEF Placed
  <2>3. k - 1 \in 0..n
    BY <1>3
  <2>4. Prefix(Chain(stored'), k - 1) = Prefix(c, k - 1)
    <3>1. c \in Seq(ShieldBlocks) /\ b \in ShieldBlocks /\ k - 1 \in 0..Len(c)
      BY <1>3, <1>6, <2>3
    <3>. HIDE DEF c, b, n
    <3>2. Prefix(Append(c, b), k - 1) = Prefix(c, k - 1)
      BY <3>1, PrefixOfAppend
    <3>. QED  BY <1>6, <3>2
  <2>5. CASE k = n + 1
    <3>1. Prefix(c, k - 1) = c
      <4>1. k - 1 = Len(c) /\ c \in Seq(ShieldBlocks)
        BY <1>3, <2>5
      <4>. HIDE DEF c
      <4>. QED  BY <4>1, PrefixAll
    <3>2. stored'[k].at = Len(file)
      BY <2>1, <2>2, <2>5
    <3>. HIDE DEF c, e
    <3>. QED  BY <1>4, <2>4, <3>1, <3>2, Zenon
  <2>6. CASE k # n + 1
    <3>1. k \in 1..n
      BY <1>3, <2>6
    <3>2. stored[k].at = Len(Stream(Prefix(c, k - 1)))
      BY <1>1, <3>1 DEF Placed
    <3>3. stored'[k] = stored[k]
      BY <2>1, <3>1
    <3>. QED  BY <2>4, <3>2, <3>3, Zenon
  <2>. QED  BY <2>5, <2>6
<1>9. up' \in BOOLEAN
  BY <1>1
<1>. QED  BY <1>6, <1>7, <1>8, <1>9 DEF FileInv

\* truncate_to cuts where a block starts, so those in front stay whole.
LEMMA FileTruncate ==
    ASSUME FileInv, TruncateTo
    PROVE  FileInv'
<1>. DEFINE n == Len(stored)
            c == Chain(stored)
<1>1. IsIndex(stored) /\ Placed(stored) /\ up /\ up' = up
  BY DEF FileInv, TruncateTo
<1>2. PICK k \in 1..n : /\ file' = SubSeq(file, 1, stored[k].at)
                        /\ stored' = SubSeq(stored, 1, k - 1)
  BY DEF TruncateTo
<1>3. c \in Seq(ShieldBlocks) /\ Len(c) = n /\ n \in Nat
  BY <1>1, ChainType
<1>4. file = Stream(c)
  <2>1. file = EncodeShieldStream(c, "PivxCompat")
    BY <1>1 DEF FileInv, TornBehind
  <2>. HIDE DEF c
  <2>. QED  BY <1>3, <2>1, StreamIs
<1>5. k - 1 \in 0..n /\ k - 1 \in 0..Len(c) /\ stored' = Prefix(stored, k - 1)
  BY <1>2, <1>3 DEF Prefix
<1>. DEFINE u == Prefix(c, k - 1)
<1>6. IsIndex(stored') /\ Len(stored') = k - 1 /\ Chain(stored') = u
  BY <1>1, <1>5, ChainFront
<1>7. stored[k].at = Len(Stream(u))
  BY <1>1 DEF Placed
<1>8. file' = Stream(u) /\ u \in Seq(ShieldBlocks)
  <2>1. c \in Seq(ShieldBlocks)
    BY <1>3
  <2>. HIDE DEF c, n
  <2>2. SubSeq(Stream(c), 1, Len(Stream(u))) = Stream(u) /\ u \in Seq(ShieldBlocks)
    BY <1>5, <2>1, StreamSplit
  <2>. QED  BY <1>2, <1>4, <1>7, <2>2
<1>9. file' = EncodeShieldStream(Chain(stored'), "PivxCompat")
  <2>. HIDE DEF u
  <2>. QED  BY <1>6, <1>8, StreamIs
<1>10. Placed(stored')
  <2>. SUFFICES ASSUME NEW j \in 1..(k - 1)
                PROVE  stored'[j].at = Len(Stream(Prefix(Chain(stored'), j - 1)))
    BY <1>6 DEF Placed
  <2>1. stored'[j] = stored[j]
    <3>1. stored \in Seq(Entry)
      BY <1>1 DEF IsIndex
    <3>. QED  BY <1>5, <3>1, PrefixElements
  <2>2. j \in 1..n /\ j - 1 \in 0..(k - 1)
    BY <1>3
  <2>3. stored[j].at = Len(Stream(Prefix(c, j - 1)))
    BY <1>1, <2>2 DEF Placed
  <2>4. Prefix(u, j - 1) = Prefix(c, j - 1)
    <3>1. c \in Seq(ShieldBlocks)
      BY <1>3
    <3>. HIDE DEF c, n
    <3>. QED  BY <1>5, <2>2, <3>1, PrefixFront
  <2>. HIDE DEF u
  <2>. QED  BY <1>6, <2>1, <2>3, <2>4, Zenon
<1>11. up' \in BOOLEAN
  BY <1>1
<1>. QED  BY <1>6, <1>9, <1>10, <1>11 DEF FileInv

\* A stop in the middle of an append leaves a part of the next block.
LEMMA FileTears ==
    ASSUME FileInv, StopAppending, HeadTear = FALSE
    PROVE  FileInv'
<1>1. IsIndex(stored) /\ Placed(stored) /\ up /\ up' = FALSE /\ stored' = stored
  BY DEF FileInv, StopAppending
<1>2. stored # <<>> /\ TornAppend
  BY DEF StopAppending
<1>3. PICK bytes \in NextBytes : \E k \in 1..(Len(bytes) - 1) : file' = file \o SubSeq(bytes, 1, k)
  BY <1>2 DEF TornAppend
<1>4. PICK k \in 1..(Len(bytes) - 1) : file' = file \o SubSeq(bytes, 1, k)
  BY <1>3
<1>5. file = EncodeShieldStream(Chain(stored), "PivxCompat")
  BY <1>1 DEF FileInv, TornBehind
<1>6. file' = Cat(EncodeShieldStream(Chain(stored), "PivxCompat"), SubSeq(bytes, 1, k))
  BY <1>4, <1>5, Zenon DEF Cat
<1>7. NextBytes' = NextBytes
  BY <1>1 DEF NextBytes, NextHeight
<1>8. TornBehind'
  BY <1>1, <1>2, <1>6, <1>7 DEF TornBehind
<1>. QED  BY <1>1, <1>8 DEF FileInv

LEMMA FileStops ==
    ASSUME FileInv, Stop
    PROVE  FileInv'
<1>1. IsIndex(stored) /\ Placed(stored) /\ up /\ up' = FALSE /\ stored' = stored /\ file' = file
  BY DEF FileInv, Stop
<1>2. file = EncodeShieldStream(Chain(stored), "PivxCompat")
  BY <1>1 DEF FileInv, TornBehind
<1>. QED  BY <1>1, <1>2 DEF FileInv

\* recover_cache makes the indexed blocks of what a stop left.
LEMMA FileStarts ==
    ASSUME FileInv, Start
    PROVE  FileInv'
<1>. DEFINE c == Chain(stored)
            s == EncodeShieldStream(c, "PivxCompat")
<1>1. IsIndex(stored) /\ Placed(stored) /\ up' = TRUE /\ stored' = stored
      /\ file' = RecoverCache(file)
  BY DEF FileInv, Start
<1>2. c \in Seq(ShieldBlocks) /\ Len(c) = Len(stored)
  BY <1>1, ChainType
<1>3. s = Stream(c)
  <2>. HIDE DEF c
  <2>. QED  BY <1>2, StreamIs
<1>4. stored # <<>> => c # <<>>
  <2>1. stored \in Seq(Entry)
    BY <1>1 DEF IsIndex
  <2>. HIDE DEF c
  <2>. QED  BY <1>2, <2>1
<1>5. CASE file = s /\ c = <<>>
  <2>1. file = <<>>
    BY <1>3, <1>5, MappedEmpty, Zenon DEF Stream
  <2>2. file' = file
    BY <1>1, <2>1, CutsNothing, Zenon
  <2>. QED  BY <1>1, <1>5, <2>2 DEF FileInv
<1>6. CASE file = s /\ c # <<>>
  <2>1. c[1] \in ShieldBlocks
    BY <1>2, <1>6
  <2>. DEFINE b == c[1]
              e == EncodePivxCompat(b)
  <2>2. e \in Seq(Nat) /\ 0 < Len(e)
    <3>1. e = Framed(Payloads(b)) /\ e \in Seq(Nat)
      BY <2>1, BlockFramed
    <3>. DEFINE ys == Payloads(b)
    <3>2. ys \in Seq(Short) /\ ys # <<>>
      <4>1. LET n1 == Len(b.txs)
            IN  ys \in Seq(Short) /\ Len(ys) = n1 + 1 /\ n1 \in Nat
        BY <2>1, PayloadsType
      <4>. HIDE DEF ys
      <4>. QED  BY <4>1
    <3>3. Len(Framed(ys)) \in Nat /\ Len(Framed(ys)) # 0
      <4>. HIDE DEF ys
      <4>. QED  BY <3>2, FramedLonger
    <3>. QED  BY <3>1, <3>3
  <2>3. SubSeq(e, 1, 0) = <<>>
    <3>. HIDE DEF e
    <3>. QED  BY <2>2
  <2>4. RecoverCache(Cat(Stream(c), SubSeq(e, 1, 0))) = Stream(c)
    <3>. HIDE DEF c
    <3>. QED  BY <1>2, <1>6, <2>1, <2>2, CutsTail
  <2>5. Cat(Stream(c), <<>>) = Stream(c)
    <3>. HIDE DEF c
    <3>. QED  BY <1>2, StreamType, CatEmpty
  <2>6. file' = s
    <3>. HIDE DEF c, s, e
    <3>. QED  BY <1>1, <1>3, <1>6, <2>3, <2>4, <2>5, Zenon
  <2>. QED  BY <1>1, <2>6 DEF FileInv
<1>7. CASE TornBehind
  <2>1. PICK bytes \in NextBytes : \E k \in 1..(Len(bytes) - 1) : file = Cat(s, SubSeq(bytes, 1, k))
    BY <1>7 DEF TornBehind
  <2>2. PICK k \in 1..(Len(bytes) - 1) : file = Cat(s, SubSeq(bytes, 1, k))
    BY <2>1
  <2>3. Len(stored) + 1 <= Len(Candidates) /\ Len(stored) + 1 \in 1..Len(Candidates)
    <3>1. Len(stored) \in Nat /\ Len(Candidates) \in Nat
      BY <1>1, ChainType, CandidatesAssumption
    <3>. QED  BY <3>1, NextBytesAre
  <2>4. PICK txs \in Candidates[Len(stored) + 1] :
               bytes = EncodePivxCompat(Scanned(Len(stored) + 1, txs))
    BY NextBytesAre
  <2>. DEFINE b == Scanned(Len(stored) + 1, txs)
  <2>5. b \in ShieldBlocks
    BY <2>3, <2>4, ScannedType
  <2>6. k \in Nat /\ k < Len(bytes) /\ c # <<>>
    <3>1. bytes \in Seq(Nat)
      BY <2>4, <2>5, BlockFramed
    <3>. QED  BY <1>4, <1>7, <3>1 DEF TornBehind
  <2>7. RecoverCache(Cat(Stream(c), SubSeq(EncodePivxCompat(b), 1, k))) = Stream(c)
    <3>. HIDE DEF c, b
    <3>1. k < Len(EncodePivxCompat(b))
      BY <2>4, <2>6 DEF b
    <3>. QED  BY <1>2, <2>5, <2>6, <3>1, CutsTail
  <2>8. file' = s
    <3>. HIDE DEF c, s
    <3>. QED  BY <1>1, <1>3, <2>2, <2>4, <2>7, Zenon
  <2>. QED  BY <1>1, <2>8 DEF FileInv
<1>. QED  BY <1>5, <1>6, <1>7 DEF FileInv

\* While the program runs shield.bin is the indexed blocks and each entry points
\* at its block; down, a part of the next may follow: append_blocks, truncate_to
\* and recover_cache keep it so.
THEOREM FileSound == HeadTear = FALSE => (WireSpec => []FileInv)
<1>. SUFFICES ASSUME HeadTear = FALSE PROVE WireSpec => []FileInv
  OBVIOUS
<1>1. Init => FileInv
  BY FileInit
<1>2. FileInv /\ [Next]_wirevars => FileInv'
  <2>. SUFFICES ASSUME FileInv, [Next]_wirevars PROVE FileInv'
    OBVIOUS
  <2>1. CASE AppendBlock
    BY <2>1, FileAppend
  <2>2. CASE TruncateTo
    BY <2>2, FileTruncate
  <2>3. CASE StopAppending
    BY <2>3, FileTears
  <2>4. CASE Stop
    BY <2>4, FileStops
  <2>5. CASE Start
    BY <2>5, FileStarts
  <2>6. CASE UNCHANGED wirevars
    BY <2>6 DEF wirevars, FileInv, TornBehind, NextBytes, NextHeight
  <2>. QED  BY <2>1, <2>2, <2>3, <2>4, <2>5, <2>6 DEF Next
<1>. QED  BY <1>1, <1>2, PTL DEF WireSpec

\* Wherever in a block but the first a stop hits append_blocks, recover_cache
\* leaves the indexed blocks byte by byte and nothing else.
THEOREM RecoverySound == HeadTear = FALSE => (WireSpec => []RecoveredIsWhole)
<1>1. FileInv => RecoveredIsWhole
  <2>. SUFFICES ASSUME FileInv, up
                PROVE  file = EncodeShieldStream([k \in 1..Len(stored) |-> ShieldBlock(k)], "PivxCompat")
    BY DEF RecoveredIsWhole
  <2>1. Chain(stored) = [k \in 1..Len(stored) |-> ShieldBlock(k)]
    BY DEF Chain, ShieldBlock
  <2>2. file = EncodeShieldStream(Chain(stored), "PivxCompat")
    BY DEF FileInv, TornBehind
  <2>. QED  BY <2>1, <2>2, Zenon
<1>. QED  BY <1>1, FileSound, PTL

----------------------------------------------------------------------------
(* The parser's results.                                                   *)

Positions == Nat \cup {Err}

LEMMA CountWidthType ==
    ASSUME NEW b
    PROVE  CountWidth(b) \in {0, 2, 4, 8}
<1>1. CASE b = Base - 3
  <2>1. b # Base - 2 /\ b # Base - 1
    BY <1>1, BaseNat
  <2>. QED  BY <1>1, <2>1 DEF CountWidth
<1>2. CASE b = Base - 2
  <2>1. b # Base - 3 /\ b # Base - 1
    BY <1>2, BaseNat
  <2>. QED  BY <1>2, <2>1 DEF CountWidth
<1>3. CASE b = Base - 1
  <2>1. b # Base - 3 /\ b # Base - 2
    BY <1>3, BaseNat
  <2>. QED  BY <1>3, <2>1 DEF CountWidth
<1>4. CASE b # Base - 3 /\ b # Base - 2 /\ b # Base - 1
  BY <1>4 DEF CountWidth
<1>. QED  BY <1>1, <1>2, <1>3, <1>4

LEMMA ReadCompactSizeType ==
    ASSUME NEW d \in Seq(Nat), NEW p \in Nat
    PROVE  LET r == ReadCompactSize(d, p)
           IN  /\ r.n \in Nat /\ r.next \in Positions
               /\ r.next # Err => r.next <= Len(d) /\ p < r.next
               /\ r.next = Err => r.n = 0
<1>. DEFINE w == CountWidth(d[p + 1])
            q == p + 1 + w
            r == ReadCompactSize(d, p)
            m == IF w = 0 THEN d[p + 1] ELSE FromLE(SubSeq(d, p + 2, q))
<1>1. w \in Nat /\ q \in Nat /\ p < q /\ Len(d) \in Nat
  <2>1. w \in {0, 2, 4, 8}
    BY CountWidthType
  <2>. HIDE DEF w
  <2>. QED  BY <2>1
<1>2. r = IF p >= Len(d) \/ q > Len(d) THEN [n |-> 0, next |-> Err] ELSE [n |-> m, next |-> q]
  BY Zenon DEF ReadCompactSize
<1>3. CASE p >= Len(d) \/ q > Len(d)
  <2>1. r = [n |-> 0, next |-> Err]
    BY <1>2, <1>3
  <2>. HIDE DEF r
  <2>. QED  BY <2>1 DEF r, Positions
<1>4. CASE ~(p >= Len(d) \/ q > Len(d))
  <2>1. p < Len(d) /\ q <= Len(d) /\ r = [n |-> m, next |-> q]
    BY <1>1, <1>2, <1>4
  <2>2. m \in Nat
    <3>1. CASE w = 0
      <4>1. p + 1 \in 1..Len(d)
        BY <1>1, <2>1
      <4>. QED  BY <3>1, <4>1
    <3>2. CASE w # 0
      <4>1. \A i \in (p + 2)..q : d[i] \in Nat
        <5>. HIDE DEF q
        <5>. QED  BY <1>1, <2>1
      <4>2. SubSeq(d, p + 2, q) \in Seq(Nat)
        <5>. HIDE DEF q
        <5>. QED  BY <1>1, <4>1, SubSeqProperties
      <4>3. FromLE(SubSeq(d, p + 2, q)) \in Nat
        <5>. HIDE DEF q
        <5>. QED  BY <4>2, FromLEType
      <4>. QED  BY <3>2, <4>3
    <3>. QED  BY <3>1, <3>2
  <2>3. q # Err
    BY <1>1 DEF Err
  <2>. HIDE DEF m, q
  <2>4. r.n = m /\ r.next = q
    BY <2>1
  <2>. HIDE DEF r
  <2>. QED  BY <1>1, <2>1, <2>2, <2>3, <2>4 DEF r, Positions
<1>. QED  BY <1>3, <1>4

LEMMA SkipScriptType ==
    ASSUME NEW d \in Seq(Nat), NEW p \in Positions, NEW before \in Nat, NEW after \in Nat
    PROVE  /\ SkipScript(d, p, before, after) \in Positions
           /\ p = Err => SkipScript(d, p, before, after) = Err
<1>1. CASE p = Err
  BY <1>1 DEF SkipScript, Positions
<1>2. CASE p # Err
  <2>1. p \in Nat /\ p + before \in Nat
    BY <1>2 DEF Positions
  <2>. DEFINE r == ReadCompactSize(d, p + before)
  <2>2. r.n \in Nat /\ r.next \in Positions
    BY <2>1, ReadCompactSizeType
  <2>3. SkipScript(d, p, before, after)
          = IF r.next = Err \/ r.next + r.n + after > Len(d) THEN Err ELSE r.next + r.n + after
    BY <1>2 DEF SkipScript
  <2>. HIDE DEF r
  <2>. QED  BY <1>2, <2>2, <2>3 DEF Positions
<1>. QED  BY <1>1, <1>2

\* The positions behind each script.
Skips(skipped, d, p, before, after) ==
    LET count == ReadCompactSize(d, p)
    IN  /\ skipped[0] = count.next
        /\ \A i \in 1..count.n : skipped[i] = SkipScript(d, skipped[i - 1], before, after)

LEMMA SkipUnfolds ==
    ASSUME NEW d \in Seq(Nat), NEW p \in Nat, NEW before \in Nat, NEW after \in Nat
    PROVE  \E skipped : /\ \A i \in 0..ReadCompactSize(d, p).n : skipped[i] \in Positions
                        /\ Skips(skipped, d, p, before, after)
                        /\ SkipScripts(d, p, before, after) = skipped[ReadCompactSize(d, p).n]
<1>. DEFINE count == ReadCompactSize(d, p)
            n == count.n
            a == count.next
            step == [s \in Positions \X (1..n) |-> SkipScript(d, s[1], before, after)]
            Is(skipped) == skipped = [i \in 0..n |-> IF i = 0 THEN a
                                        ELSE SkipScript(d, skipped[i - 1], before, after)]
<1>1. n \in Nat /\ a \in Positions
  BY ReadCompactSizeType
<1>. HIDE DEF count, n, a
<1>2. step \in [Positions \X (1..n) -> Positions]
  BY SkipScriptType
<1>3. PICK f \in [0..n -> Positions] : Follows(f, n, a, step)
  <2>. HIDE DEF step
  <2>. QED  BY <1>1, <1>2, Recursion
<1>4. f[0] = a /\ \A i \in 1..n : f[i] = SkipScript(d, f[i - 1], before, after)
  <2>1. \A i \in 1..n : f[i - 1] \in Positions
    BY <1>1
  <2>. QED  BY <1>3, <2>1 DEF Follows
<1>5. Is(f)
  <2>1. ASSUME NEW i \in 0..n
        PROVE  f[i] = IF i = 0 THEN a ELSE SkipScript(d, f[i - 1], before, after)
    BY <1>4
  <2>. QED  BY <2>1
<1>6. SkipScripts(d, p, before, after) = (CHOOSE skipped : Is(skipped))[n]
  <2>1. p # Err
    BY DEF Err
  <2>. QED  BY <2>1 DEF SkipScripts, count, n, a
<1>7. PICK skipped : Is(skipped) /\ SkipScripts(d, p, before, after) = skipped[n]
  <2>. HIDE DEF Is
  <2>. QED  BY <1>5, <1>6
<1>8. skipped[0] = a /\ \A i \in 1..n : skipped[i] = SkipScript(d, skipped[i - 1], before, after)
  BY <1>1, <1>7
<1>9. \A i \in 0..n : skipped[i] \in Positions
  <2>. DEFINE T == {i \in 0..n : skipped[i] \in Positions}
  <2>1. 0 \in T
    BY <1>1, <1>8
  <2>2. ASSUME NEW k \in 1..n, k - 1 \in T PROVE k \in T
    <3>1. skipped[k - 1] \in Positions /\ k \in 0..n
      BY <2>2
    <3>2. skipped[k] = SkipScript(d, skipped[k - 1], before, after)
      BY <1>8
    <3>3. SkipScript(d, skipped[k - 1], before, after) \in Positions
      BY <3>1, SkipScriptType
    <3>. QED  BY <3>1, <3>2, <3>3
  <2>3. \A i \in 0..n : i \in T
    <3>. HIDE DEF T
    <3>. QED  BY <1>1, <2>1, <2>2, UpTo
  <2>. QED  BY <2>3
<1>10. Skips(skipped, d, p, before, after)
  BY <1>8 DEF Skips, n, a, count
<1>. QED  BY <1>7, <1>9, <1>10 DEF n, count

LEMMA SkipScriptsType ==
    ASSUME NEW d \in Seq(Nat), NEW p \in Positions, NEW before \in Nat, NEW after \in Nat
    PROVE  SkipScripts(d, p, before, after) \in Positions
<1>1. CASE p = Err
  BY <1>1 DEF SkipScripts, Positions
<1>2. CASE p # Err
  <2>1. p \in Nat
    BY <1>2 DEF Positions
  <2>. DEFINE n == ReadCompactSize(d, p).n
  <2>2. n \in Nat
    BY <2>1, ReadCompactSizeType
  <2>3. PICK skipped : /\ \A i \in 0..n : skipped[i] \in Positions
                       /\ SkipScripts(d, p, before, after) = skipped[n]
    BY <2>1, SkipUnfolds, SMTT(30)
  <2>. HIDE DEF n
  <2>. QED  BY <2>2, <2>3
<1>. QED  BY <1>1, <1>2

\* What is kept of a transaction.
Notations ==
    [shielded : BOOLEAN, nullifiers : Seq(Nat), outputs : Seq({s \in Seq(Nat) : Len(s) = 5})]

LEMMA DescsParsed ==
    ASSUME NEW d \in Seq(Nat), NEW p \in Nat
    PROVE  ParseSaplingDescs(d, p) \in Notations
<1>. DEFINE r1 == ReadCompactSize(d, p)
            s == r1.n
            a == r1.next
            behind == a + s * SpendDescSize
            r2 == ReadCompactSize(d, behind)
            o == r2.n
            b == r2.next
            end == b + o * OutputDescSize
            field(from, size, i, k) == d[from + (i - 1) * size + k + 1]
            nullifiers == [i \in 1..s |-> field(a, SpendDescSize, i, NullifierAt)]
            outputs == [i \in 1..o |-> [k \in 1..OutputFields |->
                                          field(b, OutputDescSize, i, k - 1)]]
<1>1. ParseSaplingDescs(d, p)
        = IF a = Err \/ behind > Len(d) \/ b = Err \/ end > Len(d) \/ s + o = 0 THEN NotShielded
          ELSE [shielded |-> TRUE, nullifiers |-> nullifiers, outputs |-> outputs]
  BY Zenon DEF ParseSaplingDescs
<1>2. NotShielded \in Notations
  BY DEF NotShielded, Notations
<1>3. CASE a = Err \/ behind > Len(d) \/ b = Err \/ end > Len(d) \/ s + o = 0
  BY <1>1, <1>2, <1>3
<1>4. CASE ~(a = Err \/ behind > Len(d) \/ b = Err \/ end > Len(d) \/ s + o = 0)
  <2>1. s \in Nat /\ a \in Nat
    <3>1. r1.n \in Nat /\ r1.next \in Positions
      BY ReadCompactSizeType
    <3>. QED  BY <1>4, <3>1 DEF Positions
  <2>. HIDE DEF s, a
  <2>2. behind \in Nat /\ behind = a + s * 6 /\ behind <= Len(d) /\ Len(d) \in Nat
    BY <1>4, <2>1 DEF SpendDescSize
  <2>. HIDE DEF behind
  <2>3. o \in Nat /\ b \in Nat
    <3>1. r2.n \in Nat /\ r2.next \in Positions
      BY <2>2, ReadCompactSizeType
    <3>. QED  BY <1>4, <3>1 DEF Positions
  <2>. HIDE DEF o, b, r1, r2
  <2>4. end = b + o * 6 /\ end <= Len(d)
    BY <1>4, <2>2, <2>3 DEF OutputDescSize
  <2>5. nullifiers \in Seq(Nat)
    <3>1. ASSUME NEW i \in 1..s PROVE field(a, SpendDescSize, i, NullifierAt) \in Nat
      <4>1. a + (i - 1) * 6 + 2 + 1 \in 1..Len(d)
        BY <2>1, <2>2
      <4>2. d[a + (i - 1) * 6 + 2 + 1] \in Nat
        BY <4>1
      <4>. QED  BY <4>2 DEF SpendDescSize, NullifierAt
    <3>. HIDE DEF field
    <3>. QED  BY <2>1, <3>1
  <2>6. outputs \in Seq({x \in Seq(Nat) : Len(x) = 5})
    <3>. DEFINE output(i) == [k \in 1..OutputFields |-> field(b, OutputDescSize, i, k - 1)]
    <3>1. ASSUME NEW i \in 1..o PROVE output(i) \in Seq(Nat) /\ Len(output(i)) = 5
      <4>1. ASSUME NEW k \in 1..5 PROVE field(b, OutputDescSize, i, k - 1) \in Nat
        <5>1. b + (i - 1) * 6 + (k - 1) + 1 \in 1..Len(d)
          BY <2>2, <2>3, <2>4
        <5>2. d[b + (i - 1) * 6 + (k - 1) + 1] \in Nat
          BY <5>1
        <5>. QED  BY <5>2 DEF OutputDescSize
      <4>. HIDE DEF field
      <4>. QED  BY <4>1 DEF OutputFields
    <3>2. outputs = [i \in 1..o |-> output(i)]
      OBVIOUS
    <3>. HIDE DEF output, outputs
    <3>. QED  BY <2>3, <3>1, <3>2
  <2>. HIDE DEF nullifiers, outputs
  <2>. QED  BY <1>1, <1>4, <2>5, <2>6 DEF Notations
<1>. QED  BY <1>3, <1>4

\* Whatever the bytes, the parser answers with numbers, OutputFields per output.
LEMMA Parsed ==
    ASSUME NEW d \in Seq(Nat)
    PROVE  ParseSaplingTx(d) \in Notations
<1>. DEFINE vouts  == SkipScripts(d, Len(SaplingHeader), 1, 1)
            locked == SkipScripts(d, vouts, 1, 0)
            p      == locked + 1
<1>1. ParseSaplingTx(d)
        = IF locked = Err \/ p >= Len(d) THEN NotShielded
          ELSE IF d[p + 1] = 0 \/ p + 2 > Len(d) THEN NotShielded
          ELSE ParseSaplingDescs(d, p + 2)
  BY Zenon DEF ParseSaplingTx
<1>2. NotShielded \in Notations
  BY DEF NotShielded, Notations
<1>3. Len(SaplingHeader) \in Positions
  BY DEF SaplingHeader, Positions
<1>4. vouts \in Positions
  <2>. DEFINE q == Len(SaplingHeader)
  <2>1. q \in Positions
    BY <1>3
  <2>. HIDE DEF q
  <2>2. SkipScripts(d, q, 1, 1) \in Positions
    BY <2>1, SkipScriptsType
  <2>. QED  BY <2>2 DEF q
<1>. HIDE DEF vouts
<1>5. locked \in Positions
  BY <1>4, SkipScriptsType
<1>. HIDE DEF locked
<1>6. CASE locked = Err
  BY <1>1, <1>2, <1>6
<1>7. CASE locked # Err
  <2>1. p + 2 \in Nat
    BY <1>5, <1>7 DEF Positions
  <2>2. ParseSaplingDescs(d, p + 2) \in Notations
    BY <2>1, DescsParsed
  <2>. QED  BY <1>1, <1>2, <2>2
<1>. QED  BY <1>6, <1>7

----------------------------------------------------------------------------
(* The compact encodings of a transaction and of a block.                  *)

LEMMA WriteCompactSizeType ==
    ASSUME NEW n \in Nat
    PROVE  WriteCompactSize(n) \in Seq(Nat)
<1>1. Base \in Nat /\ Base >= 7
  BY BaseAssumption
<1>2. LE(2, n) \in Seq(Nat) /\ LE(4, n) \in Seq(Nat) /\ LE(8, n) \in Seq(Nat)
  BY LEType
<1>3. <<n>> \in Seq(Nat) /\ <<Base - 3>> \in Seq(Nat) /\ <<Base - 2>> \in Seq(Nat)
      /\ <<Base - 1>> \in Seq(Nat)
  BY <1>1
<1>. DEFINE two   == <<Base - 3>> \o LE(2, n)
            four  == <<Base - 2>> \o LE(4, n)
            eight == <<Base - 1>> \o LE(8, n)
<1>4. two \in Seq(Nat) /\ four \in Seq(Nat) /\ eight \in Seq(Nat)
  BY <1>2, <1>3
<1>5. WriteCompactSize(n) = IF n < Base - 3 THEN <<n>> ELSE IF n <= U16Max THEN two
                            ELSE IF n <= U32Max THEN four ELSE eight
  BY DEF WriteCompactSize
<1>. HIDE DEF two, four, eight
<1>. QED  BY <1>3, <1>4, <1>5

LEMMA CountsType ==
    ASSUME NEW tx \in Notations
    PROVE  Counts(tx) \in Seq(Nat)
<1>1. Len(tx.nullifiers) \in Nat /\ Len(tx.outputs) \in Nat
  BY DEF Notations
<1>. DEFINE a == WriteCompactSize(Len(tx.nullifiers))
            b == WriteCompactSize(Len(tx.outputs))
<1>2. a \in Seq(Nat) /\ b \in Seq(Nat)
  BY <1>1, WriteCompactSizeType
<1>3. Counts(tx) = a \o b
  BY DEF Counts
<1>. HIDE DEF a, b
<1>. QED  BY <1>2, <1>3

\* What of an output goes into a packet, and the packet's payload.
OutputKept(out, plus) == IF plus THEN SubSeq(out, 2, 4) ELSE out
OutputsKept(tx, plus) == [i \in 1..Len(tx.outputs) |-> OutputKept(tx.outputs[i], plus)]
CompactTagOf(plus) == IF plus THEN CompactPlusTag ELSE CompactTag
CompactPayload(tx, plus) ==
    <<CompactTagOf(plus)>> \o Counts(tx) \o tx.nullifiers \o FlattenSeq(OutputsKept(tx, plus))

LEMMA Inner ==
    ASSUME NEW s \in Seq(Nat), Len(s) >= 4
    PROVE  /\ SubSeq(s, 2, 4) \in Seq(Nat) /\ Len(SubSeq(s, 2, 4)) = 3
           /\ \A k \in 1..3 : SubSeq(s, 2, 4)[k] = s[k + 1]
<1>1. \A j \in 2..4 : s[j] \in Nat
  OBVIOUS
<1>2. SubSeq(s, 2, 4) \in Seq(Nat) /\ Len(SubSeq(s, 2, 4)) = 3
  BY <1>1, SubSeqProperties
<1>3. \A k \in 1..3 : SubSeq(s, 2, 4)[k] = s[k + 1]
  OBVIOUS
<1>. QED  BY <1>2, <1>3

LEMMA OutputsKeptType ==
    ASSUME NEW tx \in Notations, NEW plus \in BOOLEAN
    PROVE  /\ OutputsKept(tx, plus) \in Seq(Seq(Nat))
           /\ Len(OutputsKept(tx, plus)) = Len(tx.outputs)
           /\ \A i \in 1..Len(tx.outputs) : Len(OutputsKept(tx, plus)[i]) = IF plus THEN 3 ELSE 5
<1>1. tx.outputs \in Seq({s \in Seq(Nat) : Len(s) = 5})
  BY DEF Notations
<1>2. ASSUME NEW i \in 1..Len(tx.outputs)
      PROVE  /\ OutputKept(tx.outputs[i], plus) \in Seq(Nat)
             /\ Len(OutputKept(tx.outputs[i], plus)) = IF plus THEN 3 ELSE 5
  <2>. DEFINE s == tx.outputs[i]
  <2>1. s \in Seq(Nat) /\ Len(s) = 5
    BY <1>1
  <2>. HIDE DEF s
  <2>2. s \in Seq(Nat) /\ Len(s) >= 4
    BY <2>1
  <2>3. SubSeq(s, 2, 4) \in Seq(Nat) /\ Len(SubSeq(s, 2, 4)) = 3
    BY <2>2, Inner
  <2>4. OutputKept(s, plus) \in Seq(Nat) /\ Len(OutputKept(s, plus)) = IF plus THEN 3 ELSE 5
    BY <2>1, <2>3 DEF OutputKept
  <2>. QED  BY <2>4 DEF s
<1>3. Len(tx.outputs) \in Nat
  BY <1>1
<1>. QED  BY <1>2, <1>3 DEF OutputsKept

LEMMA CompactPayloadType ==
    ASSUME NEW tx \in Notations, NEW plus \in BOOLEAN
    PROVE  CompactPayload(tx, plus) \in Seq(Nat)
<1>. DEFINE a == <<CompactTagOf(plus)>>
            b == Counts(tx)
            c == tx.nullifiers
            e == FlattenSeq(OutputsKept(tx, plus))
<1>1. a \in Seq(Nat)
  BY DEF CompactTagOf, CompactTag, CompactPlusTag
<1>2. b \in Seq(Nat)
  BY CountsType
<1>3. c \in Seq(Nat)
  BY DEF Notations
<1>4. e \in Seq(Nat)
  BY OutputsKeptType, FlattenType
<1>5. CompactPayload(tx, plus) = a \o b \o c \o e
  BY DEF CompactPayload
<1>. HIDE DEF a, b, c, e
<1>. QED  BY <1>1, <1>2, <1>3, <1>4, <1>5

\* The converter's packet, and the encoders'.
LEMMA CompactPacketIs ==
    ASSUME NEW tx, NEW plus \in BOOLEAN
    PROVE  EncodeCompactPacket(tx, plus) = Packet(CompactPayload(tx, plus))
<1>. DEFINE kept(out) == IF plus THEN SubSeq(out, 2, 4) ELSE out
<1>1. Concat(kept, tx.outputs) = FlattenSeq([i \in 1..Len(tx.outputs) |-> kept(tx.outputs[i])])
  BY DEF Concat
<1>2. [i \in 1..Len(tx.outputs) |-> kept(tx.outputs[i])] = OutputsKept(tx, plus)
  BY DEF OutputsKept, OutputKept
<1>. DEFINE tag == IF plus THEN CompactPlusTag ELSE CompactTag
<1>3. EncodeCompactPacket(tx, plus)
        = Packet(<<tag>> \o Counts(tx) \o tx.nullifiers \o Concat(kept, tx.outputs))
  BY Zenon DEF EncodeCompactPacket
<1>4. tag = CompactTagOf(plus)
  BY DEF CompactTagOf
<1>. HIDE DEF kept, tag
<1>. QED  BY <1>1, <1>2, <1>3, <1>4, Zenon DEF CompactPayload

LEMMA EncodersAgree ==
    ASSUME NEW raw \in ShieldTxs
    PROVE  LET tx == ParseSaplingTx(raw)
           IN  /\ tx \in Notations /\ tx.shielded
               /\ EncodeCompactTx(raw) = Packet(CompactPayload(tx, FALSE))
               /\ EncodeCompactPlusTx(raw) = Packet(CompactPayload(tx, TRUE))
<1>. DEFINE tx == ParseSaplingTx(raw)
<1>1. tx \in Notations
  <2>1. raw \in Seq(Nat)
    BY ShieldTxShape
  <2>. QED  BY <2>1, Parsed
<1>2. tx.shielded
  BY DEF ShieldTxs, IsShielded
<1>3. EncodeCompactTx(raw) = Packet(CompactPayload(tx, FALSE))
  <2>1. EncodeCompactTx(raw)
          = Packet(<<CompactTag>> \o Counts(tx) \o tx.nullifiers \o FlattenSeq(tx.outputs))
    BY DEF EncodeCompactTx
  <2>2. tx.outputs = OutputsKept(tx, FALSE)
    <3>. HIDE DEF tx
    <3>1. tx.outputs \in Seq({s \in Seq(Nat) : Len(s) = 5})
      BY <1>1 DEF Notations
    <3>2. tx.outputs = [i \in 1..Len(tx.outputs) |-> tx.outputs[i]]
      BY <3>1
    <3>. QED  BY <3>2 DEF OutputsKept, OutputKept
  <2>3. CompactTagOf(FALSE) = CompactTag
    BY DEF CompactTagOf
  <2>. HIDE DEF tx
  <2>. QED  BY <2>1, <2>2, <2>3, Zenon DEF CompactPayload
<1>4. EncodeCompactPlusTx(raw) = Packet(CompactPayload(tx, TRUE))
  <2>. DEFINE kept(out) == SubSeq(out, 2, 4)
  <2>1. EncodeCompactPlusTx(raw)
          = Packet(<<CompactPlusTag>> \o Counts(tx) \o tx.nullifiers \o Concat(kept, tx.outputs))
    BY DEF EncodeCompactPlusTx
  <2>2. Concat(kept, tx.outputs) = FlattenSeq([i \in 1..Len(tx.outputs) |-> kept(tx.outputs[i])])
    BY DEF Concat
  <2>3. [i \in 1..Len(tx.outputs) |-> kept(tx.outputs[i])] = OutputsKept(tx, TRUE)
    BY DEF OutputsKept, OutputKept
  <2>4. CompactTagOf(TRUE) = CompactPlusTag
    BY DEF CompactTagOf
  <2>. HIDE DEF tx, kept
  <2>. QED  BY <2>1, <2>2, <2>3, <2>4, Zenon DEF CompactPayload
<1>. QED  BY <1>1, <1>2, <1>3, <1>4

\* The packets of a transaction and of a block in a compact stream.
TxPacket(plus) == [raw \in ShieldTxs |-> Packet(CompactPayload(ParseSaplingTx(raw), plus))]

CompactBlock(plus) ==
    [block \in ShieldBlocks |->
       Cat(EncodeBlockHeader(block.height), Mapped(TxPacket(plus), block.txs))]

HeaderPayload(h) == <<BlockTag>> \o LE(4, h)

LEMMA HeaderType ==
    ASSUME NEW h \in 0..U32Max
    PROVE  /\ HeaderPayload(h) \in Seq(Nat) /\ Len(HeaderPayload(h)) = 5
           /\ HeaderPayload(h)[1] = BlockTag
           /\ SubSeq(HeaderPayload(h), 2, 5) = LE(4, h)
           /\ FromLE(LE(4, h)) = h
           /\ EncodeBlockHeader(h) = Packet(HeaderPayload(h))
           /\ EncodeBlockHeader(h) \in Seq(Nat)
<1>0. h \in Nat /\ h <= U32Max
  BY U32Large
<1>. DEFINE a == <<BlockTag>>
            b == LE(4, h)
<1>1. a \in Seq(Nat) /\ Len(a) = 1 /\ a[1] = BlockTag
  BY DEF BlockTag
<1>2. b \in Seq(Nat) /\ Len(b) = 4
  BY <1>0, LEType
<1>3. HeaderPayload(h) = Cat(a, b)
  BY DEF HeaderPayload, Cat
<1>. HIDE DEF a, b
<1>4. a \in Seq(Nat) /\ b \in Seq(Nat)
  BY <1>1, <1>2
<1>5. Cat(a, b) \in Seq(Nat) /\ Len(Cat(a, b)) = Len(a) + Len(b)
  BY <1>4, CatType
<1>6. \A i \in 1..Len(a) : Cat(a, b)[i] = a[i]
  BY <1>4, CatFront
<1>7. SubSeq(Cat(a, b), 2, 5) = b
  <2>1. SubSeq(Cat(a, Cat(b, <<>>)), Len(a) + 1, Len(a) + Len(b)) = b
    <3>1. <<>> \in Seq(Nat)
      OBVIOUS
    <3>. QED  BY <1>4, <3>1, Middle
  <2>2. Cat(b, <<>>) = b
    BY <1>4, CatEmpty
  <2>3. Len(a) + 1 = 2 /\ Len(a) + Len(b) = 5
    BY <1>1, <1>2
  <2>. QED  BY <2>1, <2>2, <2>3, Zenon
<1>8. FromLE(LE(4, h)) = h
  BY <1>0, ReadsBack4
<1>9. EncodeBlockHeader(h) = Packet(HeaderPayload(h))
  BY DEF EncodeBlockHeader, HeaderPayload
<1>10. HeaderPayload(h) \in Seq(Nat)
  BY <1>3, <1>5
<1>11. EncodeBlockHeader(h) \in Seq(Nat)
  BY <1>9, <1>10, PacketType
<1>12. Len(Cat(a, b)) = 5 /\ Cat(a, b)[1] = BlockTag
  BY <1>1, <1>2, <1>5, <1>6
<1>. QED  BY <1>3, <1>5, <1>7, <1>8, <1>9, <1>11, <1>12 DEF b

LEMMA CompactBlockType ==
    ASSUME NEW plus \in BOOLEAN
    PROVE  /\ TxPacket(plus) \in [ShieldTxs -> Seq(Nat)]
           /\ CompactBlock(plus) \in [ShieldBlocks -> Seq(Nat)]
<1>1. ASSUME NEW raw \in ShieldTxs
      PROVE  Packet(CompactPayload(ParseSaplingTx(raw), plus)) \in Seq(Nat)
  <2>1. ParseSaplingTx(raw) \in Notations
    BY EncodersAgree
  <2>2. CompactPayload(ParseSaplingTx(raw), plus) \in Seq(Nat)
    BY <2>1, CompactPayloadType
  <2>. QED  BY <2>2, PacketType
<1>2. TxPacket(plus) \in [ShieldTxs -> Seq(Nat)]
  BY <1>1 DEF TxPacket
<1>3. ASSUME NEW b \in ShieldBlocks
      PROVE  Cat(EncodeBlockHeader(b.height), Mapped(TxPacket(plus), b.txs)) \in Seq(Nat)
  <2>1. b.height \in 0..U32Max /\ b.txs \in Seq(ShieldTxs)
    BY DEF ShieldBlocks
  <2>2. EncodeBlockHeader(b.height) \in Seq(Nat)
    BY <2>1, HeaderType
  <2>3. Mapped(TxPacket(plus), b.txs) \in Seq(Nat)
    BY <1>2, <2>1, MappedType
  <2>. QED  BY <2>2, <2>3, CatType
<1>4. CompactBlock(plus) \in [ShieldBlocks -> Seq(Nat)]
  BY <1>3 DEF CompactBlock
<1>. QED  BY <1>2, <1>4

\* What the encoders make of a block, and what the converter makes of its
\* transactions at its footer, are the same packets.
LEMMA BlockEncodersAgree ==
    ASSUME NEW b \in ShieldBlocks
    PROVE  /\ EncodeCompact(b) = CompactBlock(FALSE)[b]
           /\ EncodeCompactPlus(b) = CompactBlock(TRUE)[b]
<1>1. b.txs \in Seq(ShieldTxs)
  BY DEF ShieldBlocks
<1>2. ASSUME NEW i \in 1..Len(b.txs)
      PROVE  /\ EncodeCompactTx(b.txs[i]) = TxPacket(FALSE)[b.txs[i]]
             /\ EncodeCompactPlusTx(b.txs[i]) = TxPacket(TRUE)[b.txs[i]]
  <2>1. b.txs[i] \in ShieldTxs
    BY <1>1
  <2>. QED  BY <2>1, EncodersAgree DEF TxPacket
<1>3. [i \in 1..Len(b.txs) |-> EncodeCompactTx(b.txs[i])]
        = [i \in 1..Len(b.txs) |-> TxPacket(FALSE)[b.txs[i]]]
  BY <1>2
<1>4. [i \in 1..Len(b.txs) |-> EncodeCompactPlusTx(b.txs[i])]
        = [i \in 1..Len(b.txs) |-> TxPacket(TRUE)[b.txs[i]]]
  BY <1>2
<1>5. EncodeCompact(b) = Cat(EncodeBlockHeader(b.height), Mapped(TxPacket(FALSE), b.txs))
  BY <1>3, Zenon DEF EncodeCompact, Concat, Cat, Mapped
<1>6. EncodeCompactPlus(b) = Cat(EncodeBlockHeader(b.height), Mapped(TxPacket(TRUE), b.txs))
  BY <1>4, Zenon DEF EncodeCompactPlus, Concat, Cat, Mapped
<1>. QED  BY <1>5, <1>6 DEF CompactBlock

\* What the converter makes of a block at its footer.
LEMMA ConvertBlockIs ==
    ASSUME NEW b \in ShieldBlocks, NEW plus \in BOOLEAN
    PROVE  ConvertBlock(FooterOf(b), b.txs, plus) = CompactBlock(plus)[b]
<1>1. b.txs \in Seq(ShieldTxs) /\ b.height \in 0..U32Max /\ b.time \in Nat /\ b.height \in Nat
  BY U32Large DEF ShieldBlocks
<1>2. FromLE(SubSeq(FooterOf(b), 2, 5)) = b.height
  <2>1. SubSeq(FooterOf(b), 2, 5) = LE(4, b.height)
    BY <1>1, FooterType
  <2>2. FromLE(LE(4, b.height)) = b.height
    BY <1>1, HeaderType
  <2>. QED  BY <2>1, <2>2, Zenon
<1>. DEFINE compact(raw) == LET tx == ParseSaplingTx(raw)
                            IN  IF tx.shielded THEN EncodeCompactPacket(tx, plus) ELSE <<>>
<1>3. ASSUME NEW i \in 1..Len(b.txs) PROVE compact(b.txs[i]) = TxPacket(plus)[b.txs[i]]
  <2>1. b.txs[i] \in ShieldTxs
    BY <1>1
  <2>. DEFINE raw == b.txs[i]
              tx == ParseSaplingTx(raw)
  <2>2. tx.shielded
    BY <2>1, EncodersAgree
  <2>3. compact(raw) = EncodeCompactPacket(tx, plus)
    BY <2>2
  <2>4. EncodeCompactPacket(tx, plus) = Packet(CompactPayload(tx, plus))
    BY CompactPacketIs
  <2>5. TxPacket(plus)[raw] = Packet(CompactPayload(tx, plus))
    BY <2>1 DEF TxPacket
  <2>. HIDE DEF compact
  <2>. QED  BY <2>3, <2>4, <2>5, Zenon
<1>4. [i \in 1..Len(b.txs) |-> compact(b.txs[i])]
        = [i \in 1..Len(b.txs) |-> TxPacket(plus)[b.txs[i]]]
  <2>. HIDE DEF compact
  <2>. QED  BY <1>3
<1>5. ConvertBlock(FooterOf(b), b.txs, plus)
        = EncodeBlockHeader(FromLE(SubSeq(FooterOf(b), 2, 5))) \o Concat(compact, b.txs)
  BY Zenon DEF ConvertBlock
<1>6. Concat(compact, b.txs) = Mapped(TxPacket(plus), b.txs)
  BY <1>4, Zenon DEF Concat, Mapped
<1>7. ConvertBlock(FooterOf(b), b.txs, plus)
        = Cat(EncodeBlockHeader(b.height), Mapped(TxPacket(plus), b.txs))
  <2>. HIDE DEF compact
  <2>. QED  BY <1>2, <1>5, <1>6, Zenon DEF Cat
<1>. QED  BY <1>7 DEF CompactBlock

----------------------------------------------------------------------------
(* The converter.                                                          *)

\* What the packets of a stored stream hold.
Parcels == ShieldTxs \cup {FooterOf(b) : b \in ShieldBlocks}

LEMMA ParcelShape ==
    ASSUME NEW x \in Parcels
    PROVE  /\ x \in Short /\ Len(x) # 0
           /\ ~IsFooter(x) => x \in ShieldTxs
           /\ IsFooter(x) => \E b \in ShieldBlocks : x = FooterOf(b)
<1>1. CASE x \in ShieldTxs
  <2>1. x \in Short
    BY <1>1 DEF ShieldTxs
  <2>. QED  BY <1>1, <2>1, ShieldTxShape
<1>2. CASE x \notin ShieldTxs
  <2>1. PICK b \in ShieldBlocks : x = FooterOf(b)
    BY <1>2 DEF Parcels
  <2>2. b.height \in Nat /\ b.time \in Nat
    BY U32Large DEF ShieldBlocks
  <2>3. FooterOf(b) \in Short /\ IsFooter(FooterOf(b))
    BY <2>2, FooterType
  <2>4. Len(FooterOf(b)) # 0
    BY <2>3 DEF IsFooter, FooterSize
  <2>. QED  BY <2>1, <2>3, <2>4
<1>. QED  BY <1>1, <1>2

LEMMA ContentType ==
    /\ Packed \in [ShieldBlocks -> Seq(Parcels)]
    /\ \A bs \in Seq(ShieldBlocks) : Content(bs) \in Seq(Parcels)
<1>1. ASSUME NEW b \in ShieldBlocks PROVE Payloads(b) \in Seq(Parcels)
  <2>1. b.txs \in Seq(ShieldTxs) /\ ShieldTxs \subseteq Parcels
    BY DEF ShieldBlocks, Parcels
  <2>2. b.txs \in Seq(Parcels)
    BY <2>1, SeqMonotonic
  <2>3. FooterOf(b) \in Parcels
    BY DEF Parcels
  <2>4. <<FooterOf(b)>> \in Seq(Parcels)
    BY <2>3
  <2>. QED  BY <2>2, <2>4, CatType DEF Payloads
<1>2. Packed \in [ShieldBlocks -> Seq(Parcels)]
  BY <1>1 DEF Packed
<1>3. ASSUME NEW bs \in Seq(ShieldBlocks) PROVE Content(bs) \in Seq(Parcels)
  BY <1>2, MappedType DEF Content
<1>. QED  BY <1>2, <1>3

\* The packets of a stored stream, when the walk stops at an empty one too.
LEMMA StreamPackets ==
    ASSUME NEW bs \in Seq(ShieldBlocks)
    PROVE  Laid(Stream(bs), Content(bs)) /\ Packets(Stream(bs), TRUE) = Listing(Content(bs))
<1>. DEFINE xs == Content(bs)
            d == Stream(bs)
<1>1. xs \in Seq(Parcels) /\ xs \in Seq(Short) /\ d \in Seq(Nat) /\ Len(d) \in Nat
  BY StreamType, ContentType
<1>2. d = Framed(xs)
  BY StreamFramed
<1>. HIDE DEF xs, d
<1>3. xs \in Seq(Seq(Nat)) /\ Len(xs) \in Nat
  BY <1>1, ShortParts
<1>4. Laid(d, xs)
  <2>1. <<>> \in Seq(Nat)
    OBVIOUS
  <2>2. Laid(Cat(Framed(xs), <<>>), xs)
    BY <1>3, <2>1, FramedLaid
  <2>3. Cat(d, <<>>) = d
    BY <1>1, CatEmpty
  <2>. QED  BY <1>2, <2>2, <2>3, Zenon
<1>5. End(xs, Len(xs)) = Len(d)
  BY <1>2, <1>3, EndStart
<1>6. ~Goes(d, TRUE, Len(d)) /\ Len(d) \in 0..Len(d)
  BY <1>1 DEF Goes
<1>7. \A i \in 1..Len(xs) : Len(xs[i]) # 0
  <2>1. \A i \in 1..Len(xs) : xs[i] \in Parcels
    BY <1>1
  <2>. QED  BY <2>1, ParcelShape
<1>8. Packets(d, TRUE) = Listing(xs)
  <2>1. ~Goes(d, TRUE, End(xs, Len(xs))) /\ End(xs, Len(xs)) \in 0..Len(d)
    BY <1>5, <1>6, Zenon
  <2>2. d \in Seq(Nat) /\ xs \in Seq(Short)
    BY <1>1
  <2>. QED  BY <1>4, <1>7, <2>1, <2>2, WalkLaid
<1>. QED  BY <1>4, <1>8 DEF xs, d

\* The converter's state, and what it does with a payload.
Converting == [out : Seq(Nat), pending : Seq(ShieldTxs)]
Nothing == [out |-> <<>>, pending |-> <<>>]

Took(s, x, plus) ==
    IF IsFooter(x)
    THEN [out |-> Cat(s.out, ConvertBlock(x, s.pending, plus)), pending |-> <<>>]
    ELSE [s EXCEPT !.pending = Append(@, x)]

Converts(after, xs, plus) ==
    /\ after[0] = Nothing
    /\ \A i \in 1..Len(xs) : after[i] = Took(after[i - 1], xs[i], plus)

LEMMA TookType ==
    ASSUME NEW s \in Converting, NEW x \in Parcels, NEW plus \in BOOLEAN
    PROVE  Took(s, x, plus) \in Converting
<1>1. s.out \in Seq(Nat) /\ s.pending \in Seq(ShieldTxs)
  BY DEF Converting
<1>2. CASE IsFooter(x)
  <2>1. PICK b \in ShieldBlocks : x = FooterOf(b)
    BY <1>2, ParcelShape
  <2>. DEFINE c == [height |-> b.height, time |-> b.time, txs |-> s.pending]
  <2>2. c \in ShieldBlocks /\ FooterOf(c) = x /\ c.txs = s.pending
    BY <1>1, <2>1 DEF ShieldBlocks, FooterOf
  <2>3. ConvertBlock(x, s.pending, plus) = CompactBlock(plus)[c]
    <3>. HIDE DEF c
    <3>1. ConvertBlock(FooterOf(c), c.txs, plus) = CompactBlock(plus)[c]
      BY <2>2, ConvertBlockIs
    <3>. QED  BY <2>2, <3>1, Zenon
  <2>4. CompactBlock(plus)[c] \in Seq(Nat)
    <3>1. CompactBlock(plus) \in [ShieldBlocks -> Seq(Nat)]
      BY CompactBlockType
    <3>. HIDE DEF c
    <3>. QED  BY <2>2, <3>1
  <2>5. Cat(s.out, ConvertBlock(x, s.pending, plus)) \in Seq(Nat)
    <3>1. ConvertBlock(x, s.pending, plus) \in Seq(Nat)
      BY <2>3, <2>4, Zenon
    <3>. QED  BY <1>1, <3>1, CatType
  <2>. QED  BY <1>2, <2>5 DEF Took, Converting
<1>3. CASE ~IsFooter(x)
  <2>1. x \in ShieldTxs
    BY <1>3, ParcelShape
  <2>2. Append(s.pending, x) \in Seq(ShieldTxs)
    BY <1>1, <2>1
  <2>. QED  BY <1>1, <1>3, <2>2 DEF Took, Converting
<1>. QED  BY <1>2, <1>3

LEMMA ConvertUnfolds ==
    ASSUME NEW d, NEW xs \in Seq(Parcels), Laid(d, xs), Packets(d, TRUE) = Listing(xs),
           NEW plus \in BOOLEAN
    PROVE  \E after : /\ Converts(after, xs, plus)
                      /\ PivxCompatToCompact(d, plus) = after[Len(xs)].out
<1>. DEFINE packets == Packets(d, TRUE)
            n == Len(xs)
            Then(after, i) ==
              IF i = 0 THEN [out |-> <<>>, pending |-> <<>>]
              ELSE LET s == after[i - 1]
                       payload == Payload(d, packets[i])
                   IN  IF IsFooter(payload)
                       THEN [ out     |-> s.out \o ConvertBlock(payload, s.pending, plus),
                              pending |-> <<>> ]
                       ELSE [s EXCEPT !.pending = Append(@, payload)]
            Is(after) == after = [i \in 0..Len(packets) |-> Then(after, i)]
            step == [p \in Converting \X (1..n) |-> Took(p[1], xs[p[2]], plus)]
<1>1. n \in Nat /\ Nothing \in Converting
  BY DEF Nothing, Converting
<1>2. Len(packets) = n
  <2>1. Len(Listing(xs)) = n
    <3>. HIDE DEF n
    <3>1. Listing(xs) = [i \in 1..n |-> Span(xs, i)]
      BY DEF Listing, n
    <3>. QED  BY <1>1, <3>1
  <2>. QED  BY <2>1
<1>3. step \in [Converting \X (1..n) -> Converting]
  <2>1. \A i \in 1..n : xs[i] \in Parcels
    OBVIOUS
  <2>. QED  BY <2>1, TookType
<1>4. PICK f \in [0..n -> Converting] : Follows(f, n, Nothing, step)
  <2>. HIDE DEF step, n
  <2>. QED  BY <1>1, <1>3, Recursion
<1>5. f[0] = Nothing /\ \A i \in 1..n : f[i] = Took(f[i - 1], xs[i], plus)
  <2>1. \A i \in 1..n : f[i - 1] \in Converting
    BY <1>1
  <2>. HIDE DEF n
  <2>. QED  BY <1>4, <2>1 DEF Follows
<1>6. ASSUME NEW after, NEW i \in 1..n PROVE Then(after, i) = Took(after[i - 1], xs[i], plus)
  <2>3. Payload(d, Listing(xs)[i]) = xs[i]
    BY PayloadLaid
  <2>1. i # 0 /\ Payload(d, packets[i]) = xs[i]
    BY <1>1, <2>3
  <2>2. Then(after, i) = LET s == after[i - 1]
                             payload == Payload(d, packets[i])
                         IN  IF IsFooter(payload)
                             THEN [ out     |-> s.out \o ConvertBlock(payload, s.pending, plus),
                                    pending |-> <<>> ]
                             ELSE [s EXCEPT !.pending = Append(@, payload)]
    BY <2>1
  <2>. HIDE DEF packets, n, Then
  <2>. QED  BY <2>1, <2>2, Zenon DEF Took, Cat
<1>7. \A after : Then(after, 0) = Nothing
  BY DEF Nothing
<1>8. Is(f)
  <2>. HIDE DEF Then, packets, n
  <2>1. ASSUME NEW i \in 0..n PROVE f[i] = Then(f, i)
    <3>1. CASE i = 0
      BY <1>5, <1>7, <3>1
    <3>2. CASE i # 0
      <4>1. i \in 1..n
        BY <1>1, <3>2
      <4>. QED  BY <1>5, <1>6, <4>1
    <3>. QED  BY <3>1, <3>2
  <2>2. f = [i \in 0..n |-> f[i]]
    OBVIOUS
  <2>. QED  BY <1>2, <2>1, <2>2
<1>9. PivxCompatToCompact(d, plus) = (CHOOSE after : Is(after))[Len(packets)].out
  BY DEF PivxCompatToCompact
<1>10. PICK after : Is(after) /\ PivxCompatToCompact(d, plus) = after[Len(packets)].out
  <2>. HIDE DEF Is, packets
  <2>. QED  BY <1>8, <1>9
<1>11. \A i \in 0..n : after[i] = Then(after, i)
  <2>. HIDE DEF Then, packets, n
  <2>. QED  BY <1>2, <1>10
<1>12. Converts(after, xs, plus)
  <2>1. after[0] = Nothing
    <3>1. 0 \in 0..n
      BY <1>1
    <3>. HIDE DEF Then
    <3>. QED  BY <1>7, <1>11, <3>1
  <2>2. ASSUME NEW i \in 1..n PROVE after[i] = Took(after[i - 1], xs[i], plus)
    <3>1. i \in 0..n
      BY <1>1
    <3>. HIDE DEF Then, n
    <3>. QED  BY <1>6, <1>11, <3>1
  <2>. QED  BY <2>1, <2>2 DEF Converts
<1>13. PivxCompatToCompact(d, plus) = after[n].out
  <2>. HIDE DEF packets, n, Is
  <2>. QED  BY <1>2, <1>10
<1>. QED  BY <1>12, <1>13

\* The state, by a name the provers do not look into.
Holds(o, ts) == [out |-> o, pending |-> ts]

\* A block's packets behind others: its compact packets behind theirs.
LEMMA ConvertsBlock ==
    ASSUME NEW after, NEW xs, NEW plus \in BOOLEAN, Converts(after, xs, plus),
           NEW b \in ShieldBlocks, NEW m \in Nat, NEW o,
           m + Len(Payloads(b)) <= Len(xs), Len(xs) \in Nat,
           \A j \in 1..Len(Payloads(b)) : xs[m + j] = Payloads(b)[j],
           after[m] = Holds(o, <<>>)
    PROVE  after[m + Len(Payloads(b))]
             = Holds(Cat(o, CompactBlock(plus)[b]), <<>>)
<1>. DEFINE ts == b.txs
            n == Len(ts)
            ys == Payloads(b)
            A == {j \in 0..n : after[m + j] = Holds(o, Prefix(ts, j))}
<1>1. /\ ys \in Seq(Short) /\ Len(ys) = n + 1 /\ n \in Nat
      /\ \A i \in 1..n : ys[i] = ts[i] /\ ys[i] \in ShieldTxs
      /\ ys[n + 1] = FooterOf(b)
  BY PayloadsType
<1>2. ts \in Seq(ShieldTxs)
  BY DEF ShieldBlocks
<1>. HIDE DEF ys, ts, n
<1>3. m + (n + 1) <= Len(xs) /\ \A j \in 1..(n + 1) : xs[m + j] = ys[j]
  BY <1>1 DEF ys
<1>4. ASSUME NEW j \in 1..(n + 1)
      PROVE  after[m + j] = Took(after[m + (j - 1)], ys[j], plus)
  <2>1. m + j \in 1..Len(xs) /\ (m + j) - 1 = m + (j - 1)
    BY <1>1, <1>3
  <2>2. after[m + j] = Took(after[(m + j) - 1], xs[m + j], plus)
    BY <2>1 DEF Converts
  <2>3. xs[m + j] = ys[j]
    BY <1>3
  <2>. QED  BY <2>1, <2>2, <2>3
<1>5. 0 \in A
  <2>1. m + 0 = m /\ Prefix(ts, 0) = <<>> /\ 0 \in 0..n
    BY <1>1, <1>2, PrefixAll
  <2>. QED  BY <2>1
<1>6. ASSUME NEW j \in 1..n, j - 1 \in A PROVE j \in A
  <2>1. after[m + (j - 1)] = [out |-> o, pending |-> Prefix(ts, j - 1)]
    BY <1>6 DEF Holds
  <2>2. j \in 1..(n + 1) /\ j \in 0..n
    BY <1>1
  <2>3. ys[j] = ts[j] /\ ys[j] \in ShieldTxs
    BY <1>1
  <2>4. ~IsFooter(ys[j])
    BY <2>3, ShieldTxShape
  <2>. DEFINE s == [out |-> o, pending |-> Prefix(ts, j - 1)]
  <2>5. Took(s, ys[j], plus) = [s EXCEPT !.pending = Append(@, ys[j])]
    BY <2>4 DEF Took
  <2>6. [s EXCEPT !.pending = Append(@, ys[j])]
           = [out |-> o, pending |-> Append(Prefix(ts, j - 1), ys[j])]
    <3>. DEFINE q == Prefix(ts, j - 1)
                w == Append(q, ys[j])
    <3>1. [s EXCEPT !.pending = Append(@, ys[j])] = [s EXCEPT !.pending = w]
      OBVIOUS
    <3>. HIDE DEF w, q
    <3>2. [s EXCEPT !.pending = w] = [out |-> o, pending |-> w]
      OBVIOUS
    <3>. QED  BY <3>1, <3>2 DEF w, q
  <2>7. Prefix(ts, j) = Append(Prefix(ts, j - 1), ts[j])
    BY <1>2, PrefixAppends DEF n
  <2>8. after[m + j] = Took(s, ys[j], plus)
    BY <1>4, <2>1, <2>2
  <2>9. after[m + j] = [out |-> o, pending |-> Prefix(ts, j)]
    <3>. HIDE DEF s
    <3>. QED  BY <2>3, <2>5, <2>6, <2>7, <2>8, Zenon
  <2>. QED  BY <2>2, <2>9 DEF Holds
<1>7. after[m + n] = [out |-> o, pending |-> ts]
  <2>1. \A j \in 0..n : j \in A
    <3>. HIDE DEF A
    <3>. QED  BY <1>1, <1>5, <1>6, UpTo
  <2>2. n \in 0..n
    BY <1>1
  <2>3. Prefix(ts, n) = ts
    BY <1>2, PrefixAll DEF n
  <2>4. after[m + n] = Holds(o, Prefix(ts, n))
    BY <2>1, <2>2
  <2>. QED  BY <2>3, <2>4 DEF Holds
<1>8. after[m + (n + 1)] = Took(after[m + n], FooterOf(b), plus)
  <2>1. n + 1 \in 1..(n + 1) /\ (n + 1) - 1 = n
    BY <1>1
  <2>2. after[m + (n + 1)] = Took(after[m + ((n + 1) - 1)], ys[n + 1], plus)
    BY <1>4, <2>1
  <2>. QED  BY <1>1, <2>1, <2>2
<1>9. IsFooter(FooterOf(b))
  BY U32Large, FooterType DEF ShieldBlocks
<1>10. ConvertBlock(FooterOf(b), ts, plus) = CompactBlock(plus)[b]
  BY ConvertBlockIs DEF ts
<1>. DEFINE s == [out |-> o, pending |-> ts]
<1>11. Took(s, FooterOf(b), plus)
         = [out |-> Cat(o, ConvertBlock(FooterOf(b), ts, plus)), pending |-> <<>>]
  BY <1>9 DEF Took
<1>12. m + Len(ys) = m + (n + 1)
  BY <1>1
<1>. HIDE DEF s
<1>. QED  BY <1>7, <1>8, <1>10, <1>11, <1>12, Zenon DEF s, ys, Holds

LEMMA ContentSplit ==
    ASSUME NEW bs \in Seq(ShieldBlocks), NEW i \in 1..Len(bs)
    PROVE  LET m  == Len(Content(Prefix(bs, i - 1)))
               ys == Payloads(bs[i])
           IN  /\ Len(Content(Prefix(bs, i))) = m + Len(ys) /\ m \in Nat
               /\ m + Len(ys) <= Len(Content(bs))
               /\ \A j \in 1..Len(ys) : Content(bs)[m + j] = ys[j]
<1>. DEFINE u == Content(Prefix(bs, i - 1))
            v == Content(Prefix(bs, i))
            w == Content(Suffix(bs, i))
            xs == Content(bs)
            ys == Payloads(bs[i])
            b == bs[i]
            f == Prefix(bs, i - 1)
            r == Suffix(bs, i)
<1>1. /\ Prefix(bs, i) = Append(f, b) /\ f \in Seq(ShieldBlocks) /\ b \in ShieldBlocks
      /\ Prefix(bs, i) \in Seq(ShieldBlocks)
  BY PrefixAppends
<1>2. Suffix(bs, i) \in Seq(ShieldBlocks) /\ bs = Cat(Prefix(bs, i), Suffix(bs, i))
  <2>1. i \in 0..Len(bs)
    OBVIOUS
  <2>. QED  BY <2>1, Parts
<1>3. u \in Seq(Short) /\ v \in Seq(Short) /\ w \in Seq(Short) /\ xs \in Seq(Short)
  <2>. HIDE DEF f
  <2>. QED  BY <1>1, <1>2, StreamType DEF f
<1>4. ys \in Seq(Short)
  <2>1. Packed[b] = ys /\ Packed[b] \in Seq(Short)
    BY <1>1, EncodedType
  <2>. QED  BY <2>1
<1>5. v = Cat(u, ys)
  <2>. HIDE DEF f, b
  <2>1. Mapped(Packed, Append(f, b)) = Cat(Mapped(Packed, f), Packed[b])
    <3>1. Packed \in [ShieldBlocks -> Seq(Short)]
      BY EncodedType
    <3>2. f \in Seq(ShieldBlocks) /\ b \in ShieldBlocks
      BY <1>1
    <3>. QED  BY <3>1, <3>2, MappedAppend
  <2>2. Packed[b] = ys
    BY <1>1, EncodedType DEF b
  <2>. QED  BY <1>1, <2>1, <2>2, Zenon DEF Content, f
<1>6. xs = Cat(v, w)
  <2>. DEFINE g == Prefix(bs, i)
              B == ShieldBlocks
              T == Short
              p == Packed
  <2>1. p \in [B -> Seq(T)] /\ g \in Seq(B) /\ r \in Seq(B)
    BY <1>1, <1>2, EncodedType
  <2>2. bs = Cat(g, r)
    BY <1>2
  <2>. HIDE DEF g, r, B, T, p
  <2>3. Mapped(p, Cat(g, r)) = Cat(Mapped(p, g), Mapped(p, r))
    BY <2>1, MappedConcat
  <2>. QED  BY <2>2, <2>3, Zenon DEF Content, g, r, p
<1>. HIDE DEF u, v, w, xs, ys
<1>7. Len(u) \in Nat /\ Len(ys) \in Nat /\ Len(w) \in Nat
  BY <1>3, <1>4
<1>8. Len(v) = Len(u) + Len(ys)
  <2>1. Len(Cat(u, ys)) = Len(u) + Len(ys)
    BY <1>3, <1>4, CatType
  <2>. QED  BY <1>5, <2>1
<1>9. Len(xs) = Len(v) + Len(w)
  <2>1. Len(Cat(v, w)) = Len(v) + Len(w)
    BY <1>3, CatType
  <2>. QED  BY <1>6, <2>1
<1>10. ASSUME NEW j \in 1..Len(ys) PROVE xs[Len(u) + j] = ys[j]
  <2>1. \A k \in 1..Len(v) : Cat(v, w)[k] = v[k]
    BY <1>3, CatFront
  <2>2. \A k \in 1..Len(ys) : Cat(u, ys)[Len(u) + k] = ys[k]
    BY <1>3, <1>4, CatBack
  <2>3. Len(u) + j \in 1..Len(v)
    BY <1>7, <1>8
  <2>. QED  BY <1>5, <1>6, <2>1, <2>2, <2>3, Zenon
<1>11. Len(u) + Len(ys) <= Len(xs)
  BY <1>7, <1>8, <1>9
<1>. QED  BY <1>7, <1>8, <1>10, <1>11 DEF u, v, xs, ys

\* The converter's stream of the first blocks, after their packets.
LEMMA ConvertsStream ==
    ASSUME NEW bs \in Seq(ShieldBlocks), NEW plus \in BOOLEAN, NEW after,
           Converts(after, Content(bs), plus)
    PROVE  after[Len(Content(bs))] = Holds(Mapped(CompactBlock(plus), bs), <<>>)
<1>. DEFINE n == Len(bs)
            At(i) == Len(Content(Prefix(bs, i)))
            Out(i) == Mapped(CompactBlock(plus), Prefix(bs, i))
            A == {i \in 0..n : after[At(i)] = Holds(Out(i), <<>>)}
<1>0. n \in Nat
  OBVIOUS
<1>1. 0 \in A
  <2>1. Prefix(bs, 0) = <<>>
    BY PrefixAll
  <2>2. Content(<<>>) = <<>> /\ Mapped(CompactBlock(plus), <<>>) = <<>>
    BY MappedEmpty DEF Content
  <2>3. Len(Content(Prefix(bs, 0))) = 0
    <3>1. Len(<<>>) = 0
      OBVIOUS
    <3>. QED  BY <2>1, <2>2, <3>1, Zenon
  <2>4. after[0] = Holds(<<>>, <<>>)
    BY Zenon DEF Converts, Nothing, Holds
  <2>5. after[At(0)] = Holds(Out(0), <<>>)
    BY <2>1, <2>2, <2>3, <2>4, Zenon
  <2>6. 0 \in 0..n
    BY <1>0
  <2>. QED  BY <2>5, <2>6
<1>2. ASSUME NEW i \in 1..n, i - 1 \in A PROVE i \in A
  <2>. DEFINE b == bs[i]
              ys == Payloads(b)
              xs == Content(bs)
              m == At(i - 1)
              o == Out(i - 1)
  <2>1. after[m] = Holds(o, <<>>)
    BY <1>2
  <2>2. /\ At(i) = m + Len(ys) /\ m \in Nat /\ m + Len(ys) <= Len(xs)
        /\ \A j \in 1..Len(ys) : xs[m + j] = ys[j]
    BY ContentSplit
  <2>3. /\ Prefix(bs, i) = Append(Prefix(bs, i - 1), b) /\ b \in ShieldBlocks
        /\ Prefix(bs, i - 1) \in Seq(ShieldBlocks)
    BY PrefixAppends
  <2>4. Len(xs) \in Nat
    <3>1. xs \in Seq(Short)
      BY StreamType
    <3>. HIDE DEF xs
    <3>. QED  BY <3>1
  <2>5. after[m + Len(ys)] = Holds(Cat(o, CompactBlock(plus)[b]), <<>>)
    <3>1. Converts(after, xs, plus)
      OBVIOUS
    <3>2. b \in ShieldBlocks /\ m \in Nat /\ m + Len(Payloads(b)) <= Len(xs)
      BY <2>2, <2>3
    <3>3. \A j \in 1..Len(Payloads(b)) : xs[m + j] = Payloads(b)[j]
      BY <2>2
    <3>. HIDE DEF b, xs, m, o
    <3>. QED  BY <2>1, <2>4, <3>1, <3>2, <3>3, ConvertsBlock
  <2>6. Out(i) = Cat(o, CompactBlock(plus)[b])
    <3>. DEFINE f == Prefix(bs, i - 1)
                c == CompactBlock(plus)
    <3>1. c \in [ShieldBlocks -> Seq(Nat)]
      BY CompactBlockType
    <3>2. f \in Seq(ShieldBlocks) /\ b \in ShieldBlocks /\ Prefix(bs, i) = Append(f, b)
      BY <2>3
    <3>. HIDE DEF f, b, c
    <3>3. Mapped(c, Append(f, b)) = Cat(Mapped(c, f), c[b])
      BY <3>1, <3>2, MappedAppend
    <3>. QED  BY <3>2, <3>3 DEF c, f
  <2>7. i \in 0..n
    BY <1>0
  <2>8. after[At(i)] = Holds(Out(i), <<>>)
    <3>. HIDE DEF At, Out, m, o, ys, b
    <3>. QED  BY <2>2, <2>5, <2>6, Zenon
  <2>. QED  BY <2>7, <2>8
<1>3. \A i \in 0..n : i \in A
  <2>. HIDE DEF A, n
  <2>. QED  BY <1>0, <1>1, <1>2, UpTo
<1>4. n \in 0..n
  BY <1>0
<1>5. after[At(n)] = Holds(Out(n), <<>>)
  <2>. HIDE DEF At, Out, n
  <2>. QED  BY <1>3, <1>4
<1>6. Prefix(bs, n) = bs
  BY PrefixAll
<1>. QED  BY <1>5, <1>6, Zenon

\* The converter and the encoders, on any chain of blocks.
LEMMA ConverterAgrees ==
    ASSUME NEW bs \in Seq(ShieldBlocks)
    PROVE  /\ PivxCompatToCompact(Stream(bs), FALSE) = EncodeShieldStream(bs, "Compact")
           /\ PivxCompatToCompact(Stream(bs), TRUE) = EncodeShieldStream(bs, "CompactPlus")
           /\ \A plus \in BOOLEAN :
                PivxCompatToCompact(Stream(bs), plus) = Mapped(CompactBlock(plus), bs)
<1>1. ASSUME NEW plus \in BOOLEAN
      PROVE  PivxCompatToCompact(Stream(bs), plus) = Mapped(CompactBlock(plus), bs)
  <2>. DEFINE xs == Content(bs)
              d == Stream(bs)
  <2>1. xs \in Seq(Parcels) /\ Laid(d, xs) /\ Packets(d, TRUE) = Listing(xs)
    BY ContentType, StreamPackets
  <2>. HIDE DEF xs, d
  <2>2. PICK after : Converts(after, xs, plus) /\ PivxCompatToCompact(d, plus) = after[Len(xs)].out
    BY <2>1, ConvertUnfolds
  <2>3. after[Len(xs)] = Holds(Mapped(CompactBlock(plus), bs), <<>>)
    BY <2>2, ConvertsStream DEF xs
  <2>4. after[Len(xs)].out = Mapped(CompactBlock(plus), bs)
    BY <2>3 DEF Holds
  <2>. QED  BY <2>2, <2>4 DEF d
<1>2. EncodeShieldStream(bs, "Compact") = Mapped(CompactBlock(FALSE), bs)
  <2>1. [i \in 1..Len(bs) |-> EncodeCompact(bs[i])] = [i \in 1..Len(bs) |-> CompactBlock(FALSE)[bs[i]]]
    <3>1. ASSUME NEW i \in 1..Len(bs) PROVE EncodeCompact(bs[i]) = CompactBlock(FALSE)[bs[i]]
      <4>1. bs[i] \in ShieldBlocks
        OBVIOUS
      <4>. QED  BY <4>1, BlockEncodersAgree
    <3>. QED  BY <3>1
  <2>2. EncodeShieldStream(bs, "Compact") = Concat(EncodeCompact, bs)
    BY DEF EncodeShieldStream
  <2>. QED  BY <2>1, <2>2, Zenon DEF Concat, Mapped
<1>3. EncodeShieldStream(bs, "CompactPlus") = Mapped(CompactBlock(TRUE), bs)
  <2>1. [i \in 1..Len(bs) |-> EncodeCompactPlus(bs[i])]
          = [i \in 1..Len(bs) |-> CompactBlock(TRUE)[bs[i]]]
    <3>1. ASSUME NEW i \in 1..Len(bs) PROVE EncodeCompactPlus(bs[i]) = CompactBlock(TRUE)[bs[i]]
      <4>1. bs[i] \in ShieldBlocks
        OBVIOUS
      <4>. QED  BY <4>1, BlockEncodersAgree
    <3>. QED  BY <3>1
  <2>2. EncodeShieldStream(bs, "CompactPlus") = Concat(EncodeCompactPlus, bs)
    BY DEF EncodeShieldStream
  <2>. QED  BY <2>1, <2>2, Zenon DEF Concat, Mapped
<1>. QED  BY <1>1, <1>2, <1>3

LEMMA SuffixOfCat ==
    ASSUME NEW S, NEW a \in Seq(S), NEW b \in Seq(S)
    PROVE  SubSeq(Cat(a, b), Len(a) + 1, Len(Cat(a, b))) = b
<1>1. SubSeq(Cat(a, Cat(b, <<>>)), Len(a) + 1, Len(a) + Len(b)) = b
  <2>1. <<>> \in Seq(S)
    OBVIOUS
  <2>. QED  BY <2>1, Middle
<1>2. Cat(b, <<>>) = b
  BY CatEmpty
<1>3. Len(Cat(a, b)) = Len(a) + Len(b)
  BY CatType
<1>. QED  BY <1>1, <1>2, <1>3, Zenon

\* What a reader is served from the k-th block on.
LEMMA ServedIs ==
    ASSUME FileInv, up, NEW k \in 1..Len(stored)
    PROVE  LET bs == Suffix(Chain(stored), k - 1)
           IN  /\ Served(k) = Stream(bs) /\ bs \in Seq(ShieldBlocks)
               /\ Len(bs) = Len(stored) - k + 1
               /\ \A i \in 1..Len(bs) : bs[i] = ShieldBlock(k + i - 1)
<1>. DEFINE c == Chain(stored)
            u == Prefix(c, k - 1)
            v == Suffix(c, k - 1)
<1>1. IsIndex(stored) /\ Placed(stored) /\ file = EncodeShieldStream(c, "PivxCompat")
  BY DEF FileInv, TornBehind
<1>2. /\ c \in Seq(ShieldBlocks) /\ Len(c) = Len(stored) /\ Len(stored) \in Nat
      /\ \A i \in 1..Len(stored) : c[i] = Scanned(i, stored[i].txs)
  BY <1>1, ChainType
<1>. HIDE DEF c
<1>3. file = Stream(c)
  BY <1>1, <1>2, StreamIs
<1>4. k - 1 \in 0..Len(c)
  BY <1>2
<1>5. stored[k].at = Len(Stream(u))
  BY <1>1 DEF Placed, c
<1>6. /\ Stream(c) = Cat(Stream(u), Stream(v)) /\ v \in Seq(ShieldBlocks)
      /\ Stream(u) \in Seq(Nat) /\ Stream(v) \in Seq(Nat)
  BY <1>2, <1>4, StreamSplit
<1>7. Served(k) = Stream(v)
  <2>. DEFINE a == Stream(u)
              b == Stream(v)
  <2>1. a \in Seq(Nat) /\ b \in Seq(Nat)
    BY <1>6
  <2>. HIDE DEF a, b
  <2>2. SubSeq(Cat(a, b), Len(a) + 1, Len(Cat(a, b))) = b
    BY <2>1, SuffixOfCat
  <2>3. file = Cat(a, b)
    BY <1>3, <1>6 DEF a, b
  <2>4. stored[k].at = Len(a)
    BY <1>5 DEF a
  <2>5. Served(k) = b
    BY <2>2, <2>3, <2>4, Zenon DEF Served
  <2>. QED  BY <2>5 DEF b
<1>8. Len(v) = Len(stored) - k + 1
  <2>1. v \in Seq(ShieldBlocks) /\ Len(v) = Len(c) - (k - 1)
    BY <1>2, <1>4, Parts
  <2>. QED  BY <1>2, <2>1
<1>9. ASSUME NEW i \in 1..Len(v) PROVE v[i] = ShieldBlock(k + i - 1)
  <2>1. k + i - 1 \in 1..Len(stored) /\ (k - 1) + i = k + i - 1 /\ i \in 1..(Len(c) - (k - 1))
    BY <1>2, <1>8
  <2>2. v[i] = c[(k - 1) + i]
    BY <1>2, <1>4, <2>1 DEF Suffix
  <2>3. c[k + i - 1] = Scanned(k + i - 1, stored[k + i - 1].txs)
    BY <1>2, <2>1
  <2>. QED  BY <2>1, <2>2, <2>3 DEF ShieldBlock
<1>. QED  BY <1>6, <1>7, <1>8, <1>9 DEF c

\* The converter in api.rs and the encoders in stream.rs make the same
\* compact streams of the same blocks.
THEOREM CompactSound == HeadTear = FALSE => (WireSpec => []CompactAgrees)
<1>1. FileInv => CompactAgrees
  <2>. SUFFICES ASSUME FileInv, up, NEW k \in 1..Len(stored), NEW plus \in BOOLEAN
                PROVE  LET blocks == [i \in 1..(Len(stored) - k + 1) |-> ShieldBlock(k + i - 1)]
                           format == IF plus THEN "CompactPlus" ELSE "Compact"
                       IN  PivxCompatToCompact(Served(k), plus)
                             = EncodeShieldStream(blocks, format)
    BY DEF CompactAgrees
  <2>. DEFINE bs == Suffix(Chain(stored), k - 1)
              blocks == [i \in 1..(Len(stored) - k + 1) |-> ShieldBlock(k + i - 1)]
  <2>1. /\ Served(k) = Stream(bs) /\ bs \in Seq(ShieldBlocks)
        /\ Len(bs) = Len(stored) - k + 1
        /\ \A i \in 1..Len(bs) : bs[i] = ShieldBlock(k + i - 1)
    BY ServedIs
  <2>. HIDE DEF bs
  <2>2. bs = blocks
    <3>1. bs = [i \in 1..Len(bs) |-> bs[i]]
      BY <2>1
    <3>. QED  BY <2>1, <3>1
  <2>. HIDE DEF blocks
  <2>3. CASE plus = TRUE
    <3>1. PivxCompatToCompact(Served(k), plus) = EncodeShieldStream(blocks, "CompactPlus")
      BY <2>1, <2>2, <2>3, ConverterAgrees
    <3>. QED  BY <2>3, <3>1 DEF blocks
  <2>4. CASE plus = FALSE
    <3>1. PivxCompatToCompact(Served(k), plus) = EncodeShieldStream(blocks, "Compact")
      BY <2>1, <2>2, <2>4, ConverterAgrees
    <3>. QED  BY <2>4, <3>1 DEF blocks
  <2>. QED  BY <2>3, <2>4
<1>. QED  BY <1>1, FileSound, PTL
----------------------------------------------------------------------------
(* What was written reads back.                                            *)

\* The parts of what comes behind a, one by one.
LEMMA CatShift ==
    ASSUME NEW S, NEW a \in Seq(S), NEW b \in Seq(S), NEW c \in Seq(S), NEW d \in Seq(S)
    PROVE  /\ Cat(a, Cat(Cat(b, c), d)) = Cat(Cat(a, b), Cat(c, d))
           /\ Cat(a, Cat(b, c)) = Cat(Cat(a, b), c)
<1>1. Cat(Cat(b, c), d) = Cat(b, Cat(c, d))
  BY CatAssociative
<1>. DEFINE e == Cat(c, d)
<1>2. e \in Seq(S)
  BY CatType
<1>3. Cat(Cat(b, c), d) = Cat(b, e)
  BY <1>1
<1>. HIDE DEF e
<1>4. Cat(Cat(a, b), e) = Cat(a, Cat(b, e))
  BY <1>2, CatAssociative
<1>5. Cat(a, Cat(Cat(b, c), d)) = Cat(Cat(a, b), e)
  BY <1>3, <1>4, Zenon
<1>6. Cat(Cat(a, b), c) = Cat(a, Cat(b, c))
  BY CatAssociative
<1>. QED  BY <1>5, <1>6, Zenon DEF e

\* A count is one digit, or a marker and the digits that the marker promises.
LEMMA CountShape ==
    ASSUME NEW n \in Nat, n <= U32Max
    PROVE  /\ WriteCompactSize(n) \in Seq(Nat) /\ WriteCompactSize(n) # <<>>
           /\ Len(WriteCompactSize(n)) \in Nat
           /\ \/ /\ WriteCompactSize(n) = <<n>> /\ CountWidth(n) = 0
                 /\ Len(WriteCompactSize(n)) = 1
              \/ \E first \in Nat, w \in {2, 4} :
                   /\ WriteCompactSize(n) = Cat(<<first>>, LE(w, n))
                   /\ CountWidth(first) = w /\ FromLE(LE(w, n)) = n
                   /\ Len(WriteCompactSize(n)) = 1 + w
<1>1. Base \in Nat /\ Base >= 7
  BY BaseAssumption
<1>2. /\ LE(2, n) \in Seq(Nat) /\ Len(LE(2, n)) = 2
      /\ LE(4, n) \in Seq(Nat) /\ Len(LE(4, n)) = 4
  BY LEType
<1>3. WriteCompactSize(n) \in Seq(Nat) /\ Len(WriteCompactSize(n)) \in Nat
  BY WriteCompactSizeType
<1>4. CASE n < Base - 3
  <2>1. WriteCompactSize(n) = <<n>>
    BY <1>4 DEF WriteCompactSize
  <2>2. n # Base - 3 /\ n # Base - 2 /\ n # Base - 1
    BY <1>1, <1>4
  <2>3. CountWidth(n) = 0
    BY <2>2 DEF CountWidth
  <2>. QED  BY <1>3, <2>1, <2>3
<1>5. CASE ~(n < Base - 3) /\ n <= U16Max
  <2>1. WriteCompactSize(n) = Cat(<<Base - 3>>, LE(2, n))
    BY <1>5 DEF WriteCompactSize, Cat
  <2>2. CountWidth(Base - 3) = 2
    <3>1. Base - 3 # Base - 2 /\ Base - 3 # Base - 1
      BY <1>1
    <3>. QED  BY <3>1 DEF CountWidth
  <2>3. FromLE(LE(2, n)) = n
    BY <1>5, ReadsBack2
  <2>4. Base - 3 \in Nat /\ <<Base - 3>> \in Seq(Nat) /\ Len(<<Base - 3>>) = 1
    BY <1>1
  <2>5. Len(WriteCompactSize(n)) = 1 + 2
    BY <1>2, <2>1, <2>4, CatType, ZenonT(40)
  <2>6. WriteCompactSize(n) # <<>>
    BY <2>5
  <2>. QED  BY <1>3, <2>1, <2>2, <2>3, <2>4, <2>5, <2>6
<1>6. CASE ~(n < Base - 3) /\ ~(n <= U16Max)
  <2>1. WriteCompactSize(n) = Cat(<<Base - 2>>, LE(4, n))
    BY <1>6 DEF WriteCompactSize, Cat
  <2>2. CountWidth(Base - 2) = 4
    <3>1. Base - 2 # Base - 3 /\ Base - 2 # Base - 1
      BY <1>1
    <3>. QED  BY <3>1 DEF CountWidth
  <2>3. FromLE(LE(4, n)) = n
    BY ReadsBack4
  <2>4. Base - 2 \in Nat /\ <<Base - 2>> \in Seq(Nat) /\ Len(<<Base - 2>>) = 1
    BY <1>1
  <2>5. Len(WriteCompactSize(n)) = 1 + 4
    BY <1>2, <2>1, <2>4, CatType, ZenonT(40)
  <2>6. WriteCompactSize(n) # <<>>
    BY <2>5
  <2>. QED  BY <1>3, <2>1, <2>2, <2>3, <2>4, <2>5, <2>6
<1>. QED  BY <1>4, <1>5, <1>6

\* read_compact_size reads what write_compact_size wrote, wherever it is.
LEMMA ReadsCount ==
    ASSUME NEW n \in Nat, n <= U32Max, NEW a \in Seq(Nat), NEW c \in Seq(Nat)
    PROVE  LET d == Cat(a, Cat(WriteCompactSize(n), c))
           IN  ReadCompactSize(d, Len(a))
                 = [n |-> n, next |-> Len(a) + Len(WriteCompactSize(n))]
<1>. DEFINE b == WriteCompactSize(n)
            e == Cat(b, c)
            d == Cat(a, e)
            p == Len(a)
<1>1. b \in Seq(Nat) /\ b # <<>> /\ Len(b) \in Nat
  BY CountShape
<1>2. \/ b = <<n>> /\ CountWidth(n) = 0 /\ Len(b) = 1
      \/ \E first \in Nat, w \in {2, 4} :
           /\ b = Cat(<<first>>, LE(w, n))
           /\ CountWidth(first) = w /\ FromLE(LE(w, n)) = n
           /\ Len(b) = 1 + w
  BY CountShape
<1>. HIDE DEF b
<1>3. e \in Seq(Nat) /\ Len(e) = Len(b) + Len(c) /\ Len(c) \in Nat /\ p \in Nat
  <2>1. e \in Seq(Nat) /\ Len(e) = Len(b) + Len(c)
    BY <1>1, CatType
  <2>. QED  BY <2>1
<1>4. 1 \in 1..Len(b) /\ 1 \in 1..Len(e) /\ e[1] = b[1]
  <2>1. 1 \in 1..Len(b)
    BY <1>1
  <2>2. e[1] = b[1]
    BY <1>1, <2>1, CatFront
  <2>. HIDE DEF e
  <2>3. 1 \in 1..Len(e)
    BY <1>1, <1>3, <2>1
  <2>. QED  BY <2>1, <2>2, <2>3
<1>. HIDE DEF e
<1>5. d \in Seq(Nat) /\ Len(d) = p + Len(e)
  BY <1>3, CatType
<1>6. d[p + 1] = b[1]
  <2>1. \A i \in 1..Len(e) : d[p + i] = e[i]
    BY <1>3, CatBack
  <2>. HIDE DEF d, p
  <2>. QED  BY <1>4, <2>1
<1>7. Len(d) = p + (Len(b) + Len(c))
  BY <1>3, <1>5
<1>. HIDE DEF d, p
<1>. DEFINE w == CountWidth(d[p + 1])
            q == p + 1 + w
<1>8. ReadCompactSize(d, p)
        = IF p >= Len(d) \/ q > Len(d) THEN [n |-> 0, next |-> Err]
          ELSE [n |-> IF w = 0 THEN d[p + 1] ELSE FromLE(SubSeq(d, p + 2, q)), next |-> q]
  BY Zenon DEF ReadCompactSize
<1>9. ASSUME b = <<n>>, CountWidth(n) = 0, Len(b) = 1
      PROVE  ReadCompactSize(d, p) = [n |-> n, next |-> p + Len(b)]
  <2>1. d[p + 1] = n
    BY <1>6, <1>9
  <2>2. w = 0
    BY <1>9, <2>1
  <2>3. q = p + 1 /\ ~(p >= Len(d)) /\ ~(q > Len(d))
    <3>. HIDE DEF w
    <3>. QED  BY <1>3, <1>7, <1>9, <2>2
  <2>. HIDE DEF w, q
  <2>. QED  BY <1>8, <1>9, <2>1, <2>2, <2>3
<1>10. ASSUME NEW first \in Nat, NEW v \in {2, 4}, b = Cat(<<first>>, LE(v, n)),
             CountWidth(first) = v, FromLE(LE(v, n)) = n, Len(b) = 1 + v
      PROVE  ReadCompactSize(d, p) = [n |-> n, next |-> p + Len(b)]
  <2>1. LE(v, n) \in Seq(Nat) /\ Len(LE(v, n)) = v /\ <<first>> \in Seq(Nat) /\ Len(<<first>>) = 1
    BY <1>10, LEType, SMTT(30)
  <2>2. d[p + 1] = first
    <3>1. b[1] = <<first>>[1]
      <4>1. 1 \in 1..Len(<<first>>)
        OBVIOUS
      <4>. QED  BY <1>10, <2>1, <4>1, CatFront
    <3>. QED  BY <1>6, <3>1
  <2>3. w = v
    BY <1>10, <2>2
  <2>4. q = p + 1 + v /\ ~(p >= Len(d)) /\ ~(q > Len(d)) /\ w # 0 /\ q = p + Len(b)
    <3>1. v \in Nat /\ v > 0
      OBVIOUS
    <3>. HIDE DEF w
    <3>. QED  BY <1>3, <1>7, <1>10, <2>3, <3>1
  <2>5. SubSeq(d, p + 2, q) = LE(v, n)
    <3>. DEFINE o  == <<first>>
                a1 == Cat(a, o)
                l  == LE(v, n)
                u  == Cat(l, c)
    <3>. HIDE DEF l, o
    <3>1. l \in Seq(Nat) /\ Len(l) = v /\ b = Cat(o, l) /\ o \in Seq(Nat) /\ Len(o) = 1
      BY <1>10, <2>1 DEF l, o
    <3>2. a1 \in Seq(Nat) /\ Len(a1) = p + 1
      <4>1. Len(a1) = Len(a) + Len(o) /\ a1 \in Seq(Nat)
        BY <3>1, CatType
      <4>. HIDE DEF a1
      <4>. QED  BY <3>1, <4>1 DEF p
    <3>3. u \in Seq(Nat)
      BY <3>1, CatType
    <3>4. Cat(a, Cat(Cat(o, l), c)) = Cat(Cat(a, o), Cat(l, c))
      BY <3>1, CatShift
    <3>5. d = Cat(a1, u)
      BY <3>1, <3>4, Zenon DEF d, e
    <3>. HIDE DEF a1, u
    <3>6. SubSeq(d, Len(a1) + 1, Len(a1) + Len(l)) = l
      BY <3>1, <3>2, <3>5, Middle DEF u
    <3>7. Len(a1) + 1 = p + 2 /\ Len(a1) + Len(l) = q
      <4>. HIDE DEF w, q
      <4>. QED  BY <1>3, <2>4, <3>1, <3>2
    <3>. QED  BY <3>6, <3>7 DEF l
  <2>6. w # 0
    BY <2>4
  <2>. HIDE DEF w, q
  <2>. QED  BY <1>8, <1>10, <2>4, <2>5, <2>6
<1>. QED  BY <1>2, <1>9, <1>10 DEF d, p, b, e

\* A script of n digits behind its length, fields in front of it and behind.
Scripted(x, before, after) ==
    \E n \in 0..U32Max, b \in Seq(Nat), t \in Seq(Nat) :
      Len(b) = before /\ Len(t) = n + after /\ x = Cat(b, Cat(WriteCompactSize(n), t))

\* One vin or vout is skipped to its end.
LEMMA SkipsScript ==
    ASSUME NEW a \in Seq(Nat), NEW x \in Seq(Nat), NEW c \in Seq(Nat),
           NEW before \in Nat, NEW after \in Nat, Scripted(x, before, after)
    PROVE  SkipScript(Cat(a, Cat(x, c)), Len(a), before, after) = Len(a) + Len(x)
<1>1. PICK n \in 0..U32Max, b \in Seq(Nat), t \in Seq(Nat) :
        Len(b) = before /\ Len(t) = n + after /\ x = Cat(b, Cat(WriteCompactSize(n), t))
  BY DEF Scripted
<1>2. n \in Nat /\ n <= U32Max
  BY U32Large
<1>. DEFINE k == WriteCompactSize(n)
            y == Cat(k, t)
            u == Cat(t, c)
            e == Cat(a, b)
            d == Cat(a, Cat(x, c))
<1>3. k \in Seq(Nat) /\ Len(k) \in Nat
  BY <1>2, CountShape
<1>. HIDE DEF k
<1>4. y \in Seq(Nat) /\ Len(y) = Len(k) + Len(t) /\ x = Cat(b, y)
  <2>1. y \in Seq(Nat) /\ Len(y) = Len(k) + Len(t)
    BY <1>3, CatType
  <2>2. x = Cat(b, y)
    BY <1>1 DEF k
  <2>. QED  BY <2>1, <2>2
<1>5. u \in Seq(Nat) /\ Len(u) = Len(t) + Len(c)
  BY CatType
<1>6. e \in Seq(Nat) /\ Len(e) = Len(a) + Len(b)
  BY CatType
<1>7. d = Cat(e, Cat(k, u))
  <2>1. d = Cat(e, Cat(y, c))
    <3>. HIDE DEF y
    <3>1. Cat(a, Cat(Cat(b, y), c)) = Cat(Cat(a, b), Cat(y, c))
      BY <1>4, CatShift
    <3>. QED  BY <1>4, <3>1, Zenon
  <2>2. Cat(y, c) = Cat(k, u)
    BY <1>3, CatAssociative
  <2>. HIDE DEF y, d, e, u
  <2>. QED  BY <2>1, <2>2, Zenon
<1>8. Len(d) = Len(a) + (Len(x) + Len(c)) /\ Len(x) = Len(b) + Len(y)
  <2>1. Cat(x, c) \in Seq(Nat) /\ Len(Cat(x, c)) = Len(x) + Len(c)
    BY CatType
  <2>2. Len(d) = Len(a) + Len(Cat(x, c))
    BY <2>1, CatType
  <2>. HIDE DEF y, d
  <2>3. Len(x) = Len(b) + Len(y)
    BY <1>4, CatType
  <2>. QED  BY <2>1, <2>2, <2>3
<1>. DEFINE r == ReadCompactSize(d, Len(a) + before)
<1>9. r = [n |-> n, next |-> Len(e) + Len(k)]
  <2>1. ReadCompactSize(Cat(e, Cat(k, u)), Len(e)) = [n |-> n, next |-> Len(e) + Len(k)]
    <3>. HIDE DEF e, u
    <3>. QED  BY <1>2, <1>5, <1>6, ReadsCount DEF k
  <2>2. Len(a) + before = Len(e)
    BY <1>1, <1>6
  <2>. HIDE DEF d, e, u
  <2>. QED  BY <1>7, <2>1, <2>2, Zenon
<1>10. Len(a) \in Nat /\ Len(b) \in Nat /\ Len(t) \in Nat /\ Len(c) \in Nat
  OBVIOUS
<1>. HIDE DEF y, u, e, d
<1>11. r.next = Len(e) + Len(k) /\ r.n = n
  BY <1>9
<1>12. Len(a) # Err /\ r.next # Err
  BY <1>3, <1>6, <1>10, <1>11 DEF Err
<1>. HIDE DEF r
<1>13. /\ r.next + r.n + after = Len(a) + Len(x)
       /\ ~(r.next + r.n + after > Len(d))
  BY <1>1, <1>2, <1>3, <1>4, <1>6, <1>8, <1>10, <1>11
<1>14. SkipScript(d, Len(a), before, after)
         = IF r.next = Err \/ r.next + r.n + after > Len(d) THEN Err ELSE r.next + r.n + after
  BY <1>12 DEF SkipScript, r
<1>. QED  BY <1>12, <1>13, <1>14 DEF d

\* The first i of the sequences, joined.
Joined(ss, i) == FlattenSeq(Prefix(ss, i))

\* Where the i-th of the sequences is in their concatenation.
LEMMA FlattenAt ==
    ASSUME NEW T, NEW ss \in Seq(Seq(T)), NEW i \in 1..Len(ss)
    PROVE  LET f == Joined(ss, i - 1)
               t == FlattenSeq(Suffix(ss, i))
           IN  /\ f \in Seq(T) /\ t \in Seq(T) /\ ss[i] \in Seq(T)
               /\ Joined(ss, i) = Cat(f, ss[i])
               /\ FlattenSeq(ss) = Cat(f, Cat(ss[i], t))
               /\ Len(Joined(ss, i)) = Len(f) + Len(ss[i])
<1>. DEFINE p == Prefix(ss, i - 1)
            q == Suffix(ss, i)
            f == FlattenSeq(p)
            t == FlattenSeq(q)
            x == ss[i]
<1>1. i \in 0..Len(ss) /\ i - 1 \in 0..Len(ss)
  OBVIOUS
<1>2. p \in Seq(Seq(T)) /\ q \in Seq(Seq(T)) /\ x \in Seq(T)
  <2>1. p \in Seq(Seq(T))
    BY <1>1, Parts
  <2>2. q \in Seq(Seq(T))
    BY <1>1, Parts
  <2>. QED  BY <2>1, <2>2
<1>3. Prefix(ss, i) = Append(p, x) /\ Prefix(ss, i) \in Seq(Seq(T))
  <2>1. Prefix(ss, i) = Append(Prefix(ss, i - 1), ss[i])
    BY PrefixAppends
  <2>2. Prefix(ss, i) \in Seq(Seq(T))
    BY <1>1, Parts
  <2>. QED  BY <2>1, <2>2
<1>4. ss = Cat(Prefix(ss, i), q)
  BY <1>1, Parts
<1>. HIDE DEF p, q, x
<1>5. f \in Seq(T) /\ t \in Seq(T)
  BY <1>2, FlattenType
<1>6. FlattenSeq(Prefix(ss, i)) = Cat(f, x)
  BY <1>2, <1>3, FlattenAppend
<1>7. FlattenSeq(ss) = Cat(FlattenSeq(Prefix(ss, i)), t)
  <2>1. FlattenSeq(Cat(Prefix(ss, i), q)) = Cat(FlattenSeq(Prefix(ss, i)), FlattenSeq(q))
    BY <1>2, <1>3, FlattenConcat
  <2>. QED  BY <1>4, <2>1, Zenon
<1>. HIDE DEF f, t
<1>8. Cat(Cat(f, x), t) = Cat(f, Cat(x, t))
  BY <1>2, <1>5, CatAssociative
<1>9. FlattenSeq(ss) = Cat(f, Cat(x, t))
  BY <1>6, <1>7, <1>8, Zenon
<1>10. Len(Cat(f, x)) = Len(f) + Len(x)
  BY <1>2, <1>5, CatType
<1>11. Len(FlattenSeq(Prefix(ss, i))) = Len(f) + Len(x)
  BY <1>6, <1>10, Zenon
<1>. QED  BY <1>2, <1>5, <1>6, <1>9, <1>11, Zenon DEF f, t, p, q, x, Joined

\* All vins, or all vouts, are skipped to the end of the last.
LEMMA SkipsScripts ==
    ASSUME NEW a \in Seq(Nat), NEW c \in Seq(Nat), NEW ss \in Seq(Seq(Nat)),
           Len(ss) <= U32Max, NEW before \in Nat, NEW after \in Nat,
           \A i \in 1..Len(ss) : Scripted(ss[i], before, after)
    PROVE  SkipScripts(Cat(a, Cat(WriteCompactSize(Len(ss)), Cat(FlattenSeq(ss), c))),
                       Len(a), before, after)
             = Len(a) + Len(WriteCompactSize(Len(ss))) + Len(FlattenSeq(ss))
<1>. DEFINE n == Len(ss)
            k == WriteCompactSize(n)
            z == FlattenSeq(ss)
            u == Cat(z, c)
            d == Cat(a, Cat(k, u))
            b == Cat(a, k)
<1>1. n \in Nat /\ n <= U32Max /\ Len(a) \in Nat
  OBVIOUS
<1>2. k \in Seq(Nat) /\ Len(k) \in Nat
  <2>. HIDE DEF n
  <2>. QED  BY <1>1, CountShape
<1>3. z \in Seq(Nat)
  BY FlattenType
<1>. HIDE DEF n, k, z
<1>4. u \in Seq(Nat)
  BY <1>3, CatType
<1>. HIDE DEF u
<1>5. b \in Seq(Nat) /\ Len(b) = Len(a) + Len(k)
  BY <1>2, CatType
<1>6. d \in Seq(Nat) /\ d = Cat(b, u)
  <2>1. Cat(k, u) \in Seq(Nat)
    BY <1>2, <1>4, CatType
  <2>2. d \in Seq(Nat)
    BY <2>1, CatType
  <2>3. d = Cat(b, u)
    BY <1>2, <1>4, CatAssociative
  <2>. QED  BY <2>2, <2>3
<1>7. ReadCompactSize(d, Len(a)) = [n |-> n, next |-> Len(b)]
  <2>1. ReadCompactSize(d, Len(a)) = [n |-> n, next |-> Len(a) + Len(k)]
    BY <1>1, <1>4, ReadsCount DEF k
  <2>. QED  BY <1>5, <2>1
<1>. HIDE DEF d, b
<1>8. PICK skipped : /\ \A i \in 0..ReadCompactSize(d, Len(a)).n : skipped[i] \in Positions
                     /\ Skips(skipped, d, Len(a), before, after)
                     /\ SkipScripts(d, Len(a), before, after)
                          = skipped[ReadCompactSize(d, Len(a)).n]
  BY <1>1, <1>6, SkipUnfolds, ZenonT(40)
<1>9. /\ skipped[0] = Len(b)
      /\ \A i \in 1..n : skipped[i] = SkipScript(d, skipped[i - 1], before, after)
      /\ SkipScripts(d, Len(a), before, after) = skipped[n]
  BY <1>7, <1>8 DEF Skips
<1>. DEFINE T == {i \in 0..n : skipped[i] = Len(b) + Len(Joined(ss, i))}
<1>10. 0 \in T
  <2>1. Prefix(ss, 0) = <<>>
    BY PrefixAll
  <2>2. Joined(ss, 0) = <<>>
    BY <2>1, FlattenEmpty DEF Joined
  <2>3. Len(Joined(ss, 0)) = 0
    BY <2>2
  <2>4. skipped[0] = Len(b) + Len(Joined(ss, 0))
    <3>1. skipped[0] = Len(b)
      BY <1>9
    <3>2. Len(b) \in Nat
      BY <1>5
    <3>. HIDE DEF T
    <3>. QED  BY <2>3, <3>1, <3>2
  <2>5. 0 \in 0..n
    BY <1>1
  <2>. QED  BY <2>4, <2>5
<1>11. ASSUME NEW i \in 1..n, i - 1 \in T PROVE i \in T
  <2>. DEFINE t == FlattenSeq(Suffix(ss, i))
              x == ss[i]
              g == Joined(ss, i - 1)
              e == Cat(b, g)
  <2>1. /\ g \in Seq(Nat) /\ t \in Seq(Nat) /\ x \in Seq(Nat)
        /\ z = Cat(g, Cat(x, t))
        /\ Len(Joined(ss, i)) = Len(g) + Len(x)
    BY FlattenAt DEF n, z
  <2>2. Scripted(x, before, after) /\ skipped[i - 1] = Len(b) + Len(g)
    BY <1>11 DEF n
  <2>. HIDE DEF t, x, g
  <2>3. e \in Seq(Nat) /\ Len(e) = Len(b) + Len(g)
    BY <1>5, <2>1, CatType
  <2>4. Cat(t, c) \in Seq(Nat)
    BY <2>1, CatType
  <2>5. d = Cat(e, Cat(x, Cat(t, c)))
    <3>. DEFINE y == Cat(x, t)
    <3>1. y \in Seq(Nat)
      BY <2>1, CatType
    <3>2. Cat(y, c) = Cat(x, Cat(t, c))
      BY <2>1, CatAssociative
    <3>. HIDE DEF y
    <3>3. Cat(b, Cat(Cat(g, y), c)) = Cat(Cat(b, g), Cat(y, c))
      BY <1>5, <2>1, <3>1, CatShift
    <3>4. z = Cat(g, y)
      BY <2>1 DEF y
    <3>. QED  BY <1>6, <3>2, <3>3, <3>4, Zenon DEF u
  <2>. HIDE DEF e
  <2>6. SkipScript(d, Len(e), before, after) = Len(e) + Len(x)
    <3>. DEFINE v == Cat(t, c)
    <3>1. v \in Seq(Nat)
      BY <2>4
    <3>2. d = Cat(e, Cat(x, v))
      BY <2>5
    <3>. HIDE DEF v
    <3>3. SkipScript(Cat(e, Cat(x, v)), Len(e), before, after) = Len(e) + Len(x)
      <4>1. e \in Seq(Nat) /\ x \in Seq(Nat) /\ Scripted(x, before, after)
        BY <2>1, <2>2, <2>3
      <4>. QED  BY <3>1, <4>1, SkipsScript
    <3>. QED  BY <3>2, <3>3, Zenon
  <2>7. skipped[i] = Len(e) + Len(x)
    BY <1>9, <2>2, <2>3, <2>6
  <2>8. Len(b) \in Nat /\ Len(g) \in Nat /\ Len(x) \in Nat
    BY <1>5, <2>1
  <2>9. skipped[i] = Len(b) + Len(Joined(ss, i))
    BY <2>1, <2>3, <2>7, <2>8
  <2>. QED  BY <2>9
<1>12. n \in T
  <2>1. \A i \in 1..n : i - 1 \in T => i \in T
    BY <1>11
  <2>. HIDE DEF T
  <2>2. n \in 0..n
    BY <1>1
  <2>. QED  BY <1>1, <1>10, <2>1, <2>2, UpTo
<1>13. Joined(ss, n) = z
  <2>1. Prefix(ss, Len(ss)) = ss
    BY PrefixAll
  <2>. QED  BY <2>1 DEF n, z, Joined
<1>14. skipped[n] = Len(b) + Len(z)
  BY <1>12, <1>13
<1>. QED  BY <1>5, <1>9, <1>14 DEF d, u, z, k, n

----------------------------------------------------------------------------
(* Concatenations of sequences of one size.                                *)

\* An element of the middle part, and the length of the whole.
LEMMA CatAt ==
    ASSUME NEW S, NEW a \in Seq(S), NEW b \in Seq(S), NEW c \in Seq(S)
    PROVE  /\ Cat(a, Cat(b, c)) \in Seq(S)
           /\ Len(Cat(a, Cat(b, c))) = Len(a) + Len(b) + Len(c)
           /\ \A j \in 1..Len(b) : Cat(a, Cat(b, c))[Len(a) + j] = b[j]
<1>. DEFINE e == Cat(b, c)
<1>1. e \in Seq(S) /\ Len(e) = Len(b) + Len(c)
  BY CatType
<1>2. \A j \in 1..Len(b) : e[j] = b[j]
  BY CatFront
<1>. HIDE DEF e
<1>3. Cat(a, e) \in Seq(S) /\ Len(Cat(a, e)) = Len(a) + Len(e)
  BY <1>1, CatType
<1>4. \A j \in 1..Len(e) : Cat(a, e)[Len(a) + j] = e[j]
  BY <1>1, CatBack
<1>5. Len(a) \in Nat /\ Len(b) \in Nat /\ Len(c) \in Nat
  OBVIOUS
<1>6. ASSUME NEW j \in 1..Len(b) PROVE Cat(a, e)[Len(a) + j] = b[j]
  <2>1. j \in 1..Len(e)
    BY <1>1, <1>5
  <2>2. Cat(a, e)[Len(a) + j] = e[j]
    BY <1>4, <2>1
  <2>3. e[j] = b[j]
    BY <1>2
  <2>. QED  BY <2>2, <2>3
<1>7. Len(Cat(a, e)) = Len(a) + Len(b) + Len(c)
  BY <1>1, <1>3, <1>5
<1>. QED  BY <1>3, <1>6, <1>7 DEF e

LEMMA MiddleAt ==
    ASSUME NEW S
    PROVE  \A a, b, c \in Seq(S) : \A j \in 1..Len(b) : Cat(a, Cat(b, c))[Len(a) + j] = b[j]
BY CatAt

LEMMA MiddleLen ==
    ASSUME NEW S
    PROVE  \A a, b, c \in Seq(S) : Len(Cat(a, Cat(b, c))) = Len(a) + Len(b) + Len(c)
BY CatAt

\* An element of the i-th sequence.
LEMMA FlattenElement ==
    ASSUME NEW T, NEW ss \in Seq(Seq(T)), NEW i \in 1..Len(ss), NEW j \in 1..Len(ss[i])
    PROVE  FlattenSeq(ss)[Len(Joined(ss, i - 1)) + j] = ss[i][j]
<1>. DEFINE f == Joined(ss, i - 1)
            t == FlattenSeq(Suffix(ss, i))
            x == ss[i]
<1>1. f \in Seq(T) /\ t \in Seq(T) /\ FlattenSeq(ss) = Cat(f, Cat(x, t)) /\ x \in Seq(T)
  BY FlattenAt
<1>2. j \in 1..Len(x)
  OBVIOUS
<1>. HIDE DEF f, t, x
<1>3. \A k \in 1..Len(x) : Cat(f, Cat(x, t))[Len(f) + k] = x[k]
  BY <1>1, MiddleAt, ZenonT(40)
<1>. QED  BY <1>1, <1>2, <1>3 DEF f, x

\* Each of the sequences is no longer than all joined, and all joined no
\* shorter than their number, if none is empty.
LEMMA FlattenLonger ==
    ASSUME NEW T, NEW ss \in Seq(Seq(T)), \A i \in 1..Len(ss) : ss[i] # <<>>
    PROVE  /\ Len(ss) <= Len(FlattenSeq(ss))
           /\ \A i \in 1..Len(ss) : Len(ss[i]) <= Len(FlattenSeq(ss))
<1>. DEFINE n == Len(ss)
            U == {i \in 0..n : i <= Len(Joined(ss, i))}
<1>1. n \in Nat
  OBVIOUS
<1>2. \A i \in 1..n : ss[i] \in Seq(T) /\ Len(ss[i]) \in Nat /\ Len(ss[i]) # 0
  OBVIOUS
<1>3. 0 \in U
  <2>1. Prefix(ss, 0) = <<>>
    BY PrefixAll
  <2>2. Joined(ss, 0) = <<>>
    BY <2>1, FlattenEmpty DEF Joined
  <2>3. Len(Joined(ss, 0)) = 0
    BY <2>2
  <2>. QED  BY <1>1, <2>3
<1>4. ASSUME NEW i \in 1..n, i - 1 \in U PROVE i \in U
  <2>1. /\ Joined(ss, i - 1) \in Seq(T)
        /\ Len(Joined(ss, i)) = Len(Joined(ss, i - 1)) + Len(ss[i])
    BY FlattenAt
  <2>2. Len(Joined(ss, i - 1)) \in Nat
    BY <2>1
  <2>3. i - 1 <= Len(Joined(ss, i - 1))
    BY <1>4
  <2>4. i <= Len(Joined(ss, i)) /\ i \in 0..n
    <3>. DEFINE l == Len(ss[i])
                f == Len(Joined(ss, i - 1))
    <3>1. l \in Nat /\ l # 0 /\ f \in Nat /\ i - 1 <= f /\ Len(Joined(ss, i)) = f + l
      BY <1>2, <2>1, <2>2, <2>3
    <3>2. i \in Nat /\ i \in 0..n
      OBVIOUS
    <3>. HIDE DEF l, f
    <3>. QED  BY <3>1, <3>2
  <2>. QED  BY <2>4
<1>5. n \in U
  <2>1. \A i \in 1..n : i - 1 \in U => i \in U
    BY <1>4
  <2>2. n \in 0..n
    BY <1>1
  <2>. HIDE DEF U, n
  <2>. QED  BY <1>1, <1>3, <2>1, <2>2, UpTo
<1>6. Joined(ss, n) = FlattenSeq(ss)
  <2>1. Prefix(ss, Len(ss)) = ss
    BY PrefixAll
  <2>. QED  BY <2>1 DEF Joined
<1>7. ASSUME NEW i \in 1..n PROVE Len(ss[i]) <= Len(FlattenSeq(ss))
  <2>. DEFINE f == Joined(ss, i - 1)
              t == FlattenSeq(Suffix(ss, i))
              x == ss[i]
  <2>1. f \in Seq(T) /\ t \in Seq(T) /\ FlattenSeq(ss) = Cat(f, Cat(x, t)) /\ x \in Seq(T)
    BY FlattenAt
  <2>. HIDE DEF f, t, x
  <2>2. Len(FlattenSeq(ss)) = Len(f) + Len(x) + Len(t)
    BY <2>1, CatAt
  <2>3. Len(f) \in Nat /\ Len(t) \in Nat /\ Len(x) \in Nat
    BY <2>1
  <2>4. Len(x) <= Len(FlattenSeq(ss))
    BY <2>2, <2>3
  <2>. QED  BY <2>4 DEF x
<1>. QED  BY <1>5, <1>6, <1>7

\* If all are of size z, each is at a multiple of z.
LEMMA JoinedSized ==
    ASSUME NEW T, NEW ss \in Seq(Seq(T)), NEW z \in Nat, \A i \in 1..Len(ss) : Len(ss[i]) = z
    PROVE  \A i \in 0..Len(ss) : Len(Joined(ss, i)) = i * z
<1>. DEFINE n == Len(ss)
            U == {i \in 0..n : Len(Joined(ss, i)) = i * z}
<1>1. n \in Nat
  OBVIOUS
<1>2. 0 \in U
  <2>1. Prefix(ss, 0) = <<>>
    BY PrefixAll
  <2>2. Joined(ss, 0) = <<>>
    BY <2>1, FlattenEmpty DEF Joined
  <2>3. Len(Joined(ss, 0)) = 0 /\ 0 * z = 0
    BY <2>2
  <2>. QED  BY <1>1, <2>3
<1>3. ASSUME NEW i \in 1..n, i - 1 \in U PROVE i \in U
  <2>1. Len(Joined(ss, i)) = Len(Joined(ss, i - 1)) + Len(ss[i])
    BY FlattenAt
  <2>2. Len(Joined(ss, i - 1)) = (i - 1) * z /\ Len(ss[i]) = z
    BY <1>3
  <2>3. (i - 1) * z + z = i * z
    <3>1. i \in Int
      OBVIOUS
    <3>. QED  BY <3>1
  <2>4. Len(Joined(ss, i)) = i * z
    BY <2>1, <2>2, <2>3
  <2>. QED  BY <2>4
<1>4. \A i \in 0..n : i \in U
  <2>1. \A i \in 1..n : i - 1 \in U => i \in U
    BY <1>3
  <2>. HIDE DEF U, n
  <2>. QED  BY <1>1, <1>2, <2>1, UpTo
<1>. QED  BY <1>4

LEMMA FlattenSized ==
    ASSUME NEW T, NEW ss \in Seq(Seq(T)), NEW z \in Nat, \A i \in 1..Len(ss) : Len(ss[i]) = z
    PROVE  /\ Len(FlattenSeq(ss)) = Len(ss) * z
           /\ \A i \in 1..Len(ss) : \A j \in 1..z : FlattenSeq(ss)[(i - 1) * z + j] = ss[i][j]
<1>. DEFINE n == Len(ss)
<1>1. n \in Nat /\ \A i \in 0..n : Len(Joined(ss, i)) = i * z
  <2>1. \A i \in 0..Len(ss) : Len(Joined(ss, i)) = i * z
    BY JoinedSized
  <2>2. n \in Nat
    OBVIOUS
  <2>. QED  BY <2>1, <2>2
<1>2. Len(FlattenSeq(ss)) = n * z
  <2>1. Prefix(ss, Len(ss)) = ss
    BY PrefixAll
  <2>2. Joined(ss, n) = FlattenSeq(ss)
    BY <2>1 DEF Joined
  <2>3. n \in 0..n
    BY <1>1
  <2>. HIDE DEF n
  <2>. QED  BY <1>1, <2>2, <2>3
<1>3. ASSUME NEW i \in 1..n, NEW j \in 1..z PROVE FlattenSeq(ss)[(i - 1) * z + j] = ss[i][j]
  <2>1. i - 1 \in 0..n /\ j \in 1..Len(ss[i])
    OBVIOUS
  <2>2. FlattenSeq(ss)[Len(Joined(ss, i - 1)) + j] = ss[i][j]
    BY <2>1, FlattenElement
  <2>3. Len(Joined(ss, i - 1)) = (i - 1) * z
    BY <1>1, <2>1
  <2>. QED  BY <2>2, <2>3
<1>. QED  BY <1>2, <1>3

----------------------------------------------------------------------------
(* What the parser makes of a transaction as the node serialises it.       *)

\* The field at offset k of the i-th description.
LEMMA FieldAt ==
    ASSUME NEW a \in Seq(Nat), NEW c \in Seq(Nat), NEW ss \in Seq(Seq(Nat)), NEW z \in Nat,
           \A i \in 1..Len(ss) : Len(ss[i]) = z, NEW i \in 1..Len(ss), NEW j \in 1..z
    PROVE  Cat(a, Cat(FlattenSeq(ss), c))[Len(a) + (i - 1) * z + j] = ss[i][j]
<1>. DEFINE s == FlattenSeq(ss)
            k == (i - 1) * z + j
<1>1. s \in Seq(Nat)
  BY FlattenType
<1>2. s[k] = ss[i][j] /\ Len(s) = Len(ss) * z
  BY FlattenSized
<1>3. k \in 1..Len(s)
  <2>1. (i - 1) * z \in Nat /\ Len(ss) - i \in Nat /\ i - 1 \in Nat
    <3>1. i - 1 \in Nat /\ Len(ss) - i \in Nat
      OBVIOUS
    <3>. QED  BY <3>1, Product
  <2>2. (Len(ss) - i) * z \in Nat
    BY <2>1, Product
  <2>3. Len(ss) * z = (i - 1) * z + z + (Len(ss) - i) * z
    <3>1. i \in Int /\ Len(ss) \in Int
      OBVIOUS
    <3>. QED  BY <3>1
  <2>. DEFINE x == (i - 1) * z
              y == (Len(ss) - i) * z
  <2>4. Len(s) = x + z + y /\ x \in Nat /\ y \in Nat
    BY <1>2, <2>1, <2>2, <2>3
  <2>. HIDE DEF x, y, s
  <2>5. x + j \in 1..Len(s)
    BY <2>4
  <2>. QED  BY <2>5 DEF x
<1>. HIDE DEF s
<1>4. \A l \in 1..Len(s) : Cat(a, Cat(s, c))[Len(a) + l] = s[l]
  BY <1>1, MiddleAt, ZenonT(40)
<1>5. Cat(a, Cat(s, c))[Len(a) + k] = ss[i][j]
  <2>. HIDE DEF k
  <2>. QED  BY <1>2, <1>3, <1>4
<1>6. Len(a) + k = Len(a) + (i - 1) * z + j
  <2>1. i - 1 \in Nat
    OBVIOUS
  <2>2. (i - 1) * z \in Nat
    BY <2>1, Product
  <2>. DEFINE x == (i - 1) * z
  <2>3. k = x + j /\ x \in Nat
    BY <2>2
  <2>. HIDE DEF x, k
  <2>4. Len(a) + k = Len(a) + x + j
    BY <2>3
  <2>. QED  BY <2>4 DEF x
<1>. QED  BY <1>5, <1>6 DEF s

LEMMA FieldsAt ==
    ASSUME NEW z \in Nat
    PROVE  \A a, c \in Seq(Nat), ss \in Seq(Seq(Nat)) :
             (\A i \in 1..Len(ss) : Len(ss[i]) = z)
               => \A i \in 1..Len(ss), j \in 1..z :
                    Cat(a, Cat(FlattenSeq(ss), c))[Len(a) + (i - 1) * z + j] = ss[i][j]
BY FieldAt

\* What a shielded transaction comes to.
Parts2(n, m) ==
    [ shielded   |-> TRUE,
      nullifiers |-> [i \in 1..n |-> SpendDesc(i)[NullifierAt + 1]],
      outputs    |-> [i \in 1..m |-> [k \in 1..OutputFields |-> OutputDesc(i)[k]]] ]

\* Spends and outputs, each behind their count, are read field by field.
LEMMA ParsesDescs ==
    ASSUME NEW a \in Seq(Nat), NEW c \in Seq(Nat), NEW n \in Nat, NEW m \in Nat,
           n <= U32Max, m <= U32Max, n + m # 0
    PROVE  ParseSaplingDescs(
             Cat(a, Cat(WriteCompactSize(n), Cat(FlattenSeq(Spends(n)),
               Cat(WriteCompactSize(m), Cat(FlattenSeq(Outputs(m)), c))))), Len(a))
             = Parts2(n, m)
<1>. DEFINE k1 == WriteCompactSize(n)
            k2 == WriteCompactSize(m)
            s  == FlattenSeq(Spends(n))
            o  == FlattenSeq(Outputs(m))
            u3 == Cat(o, c)
            u2 == Cat(k2, u3)
            u1 == Cat(s, u2)
            d  == Cat(a, Cat(k1, u1))
            b1 == Cat(a, k1)
            e  == Cat(b1, s)
            b2 == Cat(e, k2)
<1>1. k1 \in Seq(Nat) /\ Len(k1) \in Nat /\ k2 \in Seq(Nat) /\ Len(k2) \in Nat
  BY CountShape
<1>2. /\ Spends(n) \in Seq(Seq(Nat)) /\ Len(Spends(n)) = n
      /\ \A i \in 1..n : Spends(n)[i] = SpendDesc(i) /\ Len(SpendDesc(i)) = SpendDescSize
      /\ Outputs(m) \in Seq(Seq(Nat)) /\ Len(Outputs(m)) = m
      /\ \A i \in 1..m : Outputs(m)[i] = OutputDesc(i) /\ Len(OutputDesc(i)) = OutputDescSize
  BY DescsType
<1>3. s \in Seq(Nat) /\ o \in Seq(Nat)
  BY <1>2, FlattenType
<1>4. Len(s) = n * 6 /\ Len(o) = m * 6
  <2>1. \A i \in 1..Len(Spends(n)) : Len(Spends(n)[i]) = 6
    BY <1>2 DEF SpendDescSize
  <2>2. \A i \in 1..Len(Outputs(m)) : Len(Outputs(m)[i]) = 6
    BY <1>2 DEF OutputDescSize
  <2>3. Len(s) = Len(Spends(n)) * 6
    BY <1>2, <2>1, FlattenSized
  <2>4. Len(o) = Len(Outputs(m)) * 6
    BY <1>2, <2>2, FlattenSized
  <2>. QED  BY <1>2, <2>3, <2>4
<1>. HIDE DEF k1, k2, s, o
<1>5. u3 \in Seq(Nat) /\ Len(u3) = Len(o) + Len(c)
  BY <1>3, CatType
<1>. HIDE DEF u3
<1>6. u2 \in Seq(Nat)
  BY <1>1, <1>5, CatType
<1>. HIDE DEF u2
<1>7. u1 \in Seq(Nat)
  BY <1>3, <1>6, CatType
<1>8. b1 \in Seq(Nat) /\ Len(b1) = Len(a) + Len(k1)
  BY <1>1, CatType
<1>9. d = Cat(b1, Cat(s, u2))
  BY <1>1, <1>7, CatShift DEF u1
<1>. HIDE DEF b1
<1>10. e \in Seq(Nat) /\ Len(e) = Len(b1) + Len(s)
  BY <1>3, <1>8, CatType
<1>11. d = Cat(e, Cat(k2, u3))
  BY <1>3, <1>6, <1>8, <1>9, CatShift DEF u2
<1>. HIDE DEF e
<1>12. b2 \in Seq(Nat) /\ Len(b2) = Len(e) + Len(k2)
  BY <1>1, <1>10, CatType
<1>13. d = Cat(b2, Cat(o, c))
  BY <1>1, <1>5, <1>10, <1>11, CatShift DEF u3
<1>. HIDE DEF b2
<1>14. Len(d) = Len(b2) + Len(o) + Len(c)
  <2>. HIDE DEF d
  <2>1. Len(Cat(b2, Cat(o, c))) = Len(b2) + Len(o) + Len(c)
    <3>1. \A x, y, z \in Seq(Nat) : Len(Cat(x, Cat(y, z))) = Len(x) + Len(y) + Len(z)
      BY MiddleLen
    <3>2. b2 \in Seq(Nat) /\ o \in Seq(Nat) /\ c \in Seq(Nat)
      BY <1>3, <1>12
    <3>. QED  BY <3>1, <3>2, Zenon
  <2>. QED  BY <1>13, <2>1, Zenon
<1>15. ReadCompactSize(d, Len(a)) = [n |-> n, next |-> Len(b1)]
  BY <1>7, <1>8, ReadsCount DEF k1
<1>16. ReadCompactSize(d, Len(e)) = [n |-> m, next |-> Len(b2)]
  BY <1>5, <1>10, <1>11, <1>12, ReadsCount, ZenonT(40) DEF k2
<1>17. Len(a) \in Nat /\ Len(b1) \in Nat /\ Len(b2) \in Nat /\ Len(e) \in Nat /\ Len(c) \in Nat
  BY <1>8, <1>10, <1>12
<1>18. ASSUME NEW i \in 1..n, NEW j \in 1..6
       PROVE  d[Len(b1) + (i - 1) * 6 + j] = SpendDesc(i)[j]
  <2>1. \A l \in 1..Len(Spends(n)) : Len(Spends(n)[l]) = 6
    BY <1>2 DEF SpendDescSize
  <2>2. i \in 1..Len(Spends(n)) /\ Spends(n)[i] = SpendDesc(i)
    BY <1>2
  <2>. DEFINE y == Cat(b1, Cat(s, u2))
              q == Len(b1) + (i - 1) * 6 + j
  <2>3. y[q] = Spends(n)[i][j]
    <3>1. 6 \in Nat /\ j \in 1..6
      OBVIOUS
    <3>2. \A x, z \in Seq(Nat), ss \in Seq(Seq(Nat)) :
            (\A l \in 1..Len(ss) : Len(ss[l]) = 6)
              => \A l \in 1..Len(ss), k \in 1..6 :
                   Cat(x, Cat(FlattenSeq(ss), z))[Len(x) + (l - 1) * 6 + k] = ss[l][k]
      BY <3>1, FieldsAt, Zenon
    <3>3. b1 \in Seq(Nat) /\ u2 \in Seq(Nat) /\ Spends(n) \in Seq(Seq(Nat))
      BY <1>2, <1>6, <1>8
    <3>. QED  BY <2>1, <2>2, <3>1, <3>2, <3>3, ZenonT(40) DEF s
  <2>. HIDE DEF d
  <2>4. d = y
    BY <1>9
  <2>. HIDE DEF y, q
  <2>5. d[q] = SpendDesc(i)[j]
    BY <2>2, <2>3, <2>4
  <2>. QED  BY <2>5 DEF q
<1>19. ASSUME NEW i \in 1..m, NEW j \in 1..6
       PROVE  d[Len(b2) + (i - 1) * 6 + j] = OutputDesc(i)[j]
  <2>1. \A l \in 1..Len(Outputs(m)) : Len(Outputs(m)[l]) = 6
    BY <1>2 DEF OutputDescSize
  <2>2. i \in 1..Len(Outputs(m)) /\ Outputs(m)[i] = OutputDesc(i)
    BY <1>2
  <2>. DEFINE y == Cat(b2, Cat(o, c))
              q == Len(b2) + (i - 1) * 6 + j
  <2>3. y[q] = Outputs(m)[i][j]
    <3>1. 6 \in Nat /\ j \in 1..6
      OBVIOUS
    <3>2. \A x, z \in Seq(Nat), ss \in Seq(Seq(Nat)) :
            (\A l \in 1..Len(ss) : Len(ss[l]) = 6)
              => \A l \in 1..Len(ss), k \in 1..6 :
                   Cat(x, Cat(FlattenSeq(ss), z))[Len(x) + (l - 1) * 6 + k] = ss[l][k]
      BY <3>1, FieldsAt, Zenon
    <3>3. b2 \in Seq(Nat) /\ c \in Seq(Nat) /\ Outputs(m) \in Seq(Seq(Nat))
      BY <1>2, <1>12
    <3>. QED  BY <2>1, <2>2, <3>1, <3>2, <3>3, ZenonT(40) DEF o
  <2>. HIDE DEF d
  <2>4. d = y
    BY <1>13
  <2>. HIDE DEF y, q
  <2>5. d[q] = OutputDesc(i)[j]
    BY <2>2, <2>3, <2>4
  <2>. QED  BY <2>5 DEF q
<1>. DEFINE r1 == ReadCompactSize(d, Len(a))
            behind == r1.next + r1.n * SpendDescSize
            r2 == ReadCompactSize(d, behind)
            end == r2.next + r2.n * OutputDescSize
            field(from, size, i, k) == d[from + (i - 1) * size + k + 1]
            nullifiers == [i \in 1..r1.n |-> field(r1.next, SpendDescSize, i, NullifierAt)]
            outputs == [i \in 1..r2.n |-> [k \in 1..OutputFields |->
                                            field(r2.next, OutputDescSize, i, k - 1)]]
<1>. HIDE DEF d
<1>20. ParseSaplingDescs(d, Len(a))
         = IF r1.next = Err \/ behind > Len(d) \/ r2.next = Err \/ end > Len(d)
              \/ r1.n + r2.n = 0 THEN NotShielded
           ELSE [shielded |-> TRUE, nullifiers |-> nullifiers, outputs |-> outputs]
  BY Zenon DEF ParseSaplingDescs
<1>21. r1.n = n /\ r1.next = Len(b1)
  BY <1>15
<1>22. behind = Len(e)
  <2>1. behind = Len(b1) + n * 6
    <3>. HIDE DEF r1
    <3>. QED  BY <1>21 DEF SpendDescSize
  <2>. QED  BY <1>4, <1>10, <2>1
<1>23. r2.n = m /\ r2.next = Len(b2)
  <2>. HIDE DEF behind
  <2>. QED  BY <1>16, <1>22
<1>24. end = Len(b2) + Len(o)
  <2>. HIDE DEF r2
  <2>. QED  BY <1>4, <1>23 DEF OutputDescSize
<1>25. ~(r1.next = Err \/ behind > Len(d) \/ r2.next = Err \/ end > Len(d) \/ r1.n + r2.n = 0)
  <2>1. Len(s) \in Nat /\ Len(o) \in Nat
    BY <1>3
  <2>2. ~(end > Len(d))
    <3>. HIDE DEF end, d
    <3>. QED  BY <1>14, <1>17, <1>24, <2>1
  <2>3. ~(behind > Len(d))
    <3>. HIDE DEF behind, d
    <3>. QED  BY <1>1, <1>12, <1>14, <1>17, <1>22, <2>1
  <2>4. ~(r1.next = Err) /\ ~(r2.next = Err)
    <3>. HIDE DEF r1, r2
    <3>. QED  BY <1>17, <1>21, <1>23 DEF Err
  <2>5. ~(r1.n + r2.n = 0)
    <3>. HIDE DEF r1, r2
    <3>. QED  BY <1>21, <1>23
  <2>. HIDE DEF r1, r2, behind, end, d
  <2>. QED  BY <2>2, <2>3, <2>4, <2>5
<1>26. nullifiers = [i \in 1..n |-> SpendDesc(i)[NullifierAt + 1]]
  <2>1. ASSUME NEW i \in 1..n
        PROVE  field(r1.next, SpendDescSize, i, NullifierAt) = SpendDesc(i)[NullifierAt + 1]
    <3>1. 3 \in 1..6 /\ i \in Int /\ (i - 1) * 6 \in Int
      OBVIOUS
    <3>. DEFINE x == (i - 1) * 6
                l == Len(b1)
    <3>2. d[l + x + 3] = SpendDesc(i)[3]
      BY <1>18, <3>1
    <3>3. l \in Nat /\ x \in Int /\ r1.next = l
      BY <1>17, <1>21, <3>1
    <3>4. r1.next + (i - 1) * SpendDescSize + NullifierAt + 1 = r1.next + x + 2 + 1
      BY DEF SpendDescSize, NullifierAt
    <3>. HIDE DEF l, x, r1
    <3>5. r1.next + x + 2 + 1 = l + x + 3
      BY <3>3
    <3>6. NullifierAt + 1 = 3
      BY DEF NullifierAt
    <3>. QED  BY <3>2, <3>4, <3>5, <3>6
  <2>. HIDE DEF r1, d
  <2>. QED  BY <1>21, <2>1
<1>27. outputs = [i \in 1..m |-> [k \in 1..OutputFields |-> OutputDesc(i)[k]]]
  <2>1. ASSUME NEW i \in 1..m, NEW k \in 1..OutputFields
        PROVE  field(r2.next, OutputDescSize, i, k - 1) = OutputDesc(i)[k]
    <3>1. k \in 1..6 /\ k \in Int /\ i \in Int /\ (i - 1) * 6 \in Int
      BY DEF OutputFields
    <3>. DEFINE x == (i - 1) * 6
                l == Len(b2)
    <3>2. d[l + x + k] = OutputDesc(i)[k]
      BY <1>19, <3>1
    <3>3. l \in Nat /\ x \in Int /\ r2.next = l
      BY <1>17, <1>23, <3>1
    <3>4. r2.next + (i - 1) * OutputDescSize + (k - 1) + 1 = r2.next + x + (k - 1) + 1
      BY DEF OutputDescSize
    <3>. HIDE DEF l, x, r2
    <3>5. r2.next + x + (k - 1) + 1 = l + x + k
      BY <3>1, <3>3
    <3>. QED  BY <3>2, <3>4, <3>5
  <2>. HIDE DEF r2, d
  <2>. QED  BY <1>23, <2>1
<1>. HIDE DEF r1, r2, behind, end, nullifiers, outputs
<1>28. ParseSaplingDescs(d, Len(a)) = Parts2(n, m)
  BY <1>20, <1>25, <1>26, <1>27 DEF Parts2
<1>. QED  BY <1>28 DEF d, u1, u2, u3, k1, k2, s, o

\* Six in a row, bracketed from the left and from the right.
LEMMA CatSix ==
    ASSUME NEW S, NEW a \in Seq(S), NEW b \in Seq(S), NEW c \in Seq(S),
           NEW d \in Seq(S), NEW e \in Seq(S), NEW f \in Seq(S)
    PROVE  Cat(Cat(Cat(Cat(Cat(a, b), c), d), e), f)
             = Cat(a, Cat(b, Cat(c, Cat(d, Cat(e, f)))))
<1>. DEFINE x == Cat(a, b)
            y == Cat(x, c)
            w == Cat(y, d)
            t1 == Cat(e, f)
            t2 == Cat(d, t1)
            t3 == Cat(c, t2)
<1>1. Cat(Cat(Cat(Cat(Cat(a, b), c), d), e), f) = Cat(Cat(w, e), f)
  OBVIOUS
<1>2. x \in Seq(S) /\ t1 \in Seq(S)
  <2>1. x \in Seq(S)
    BY CatType
  <2>2. t1 \in Seq(S)
    BY CatType
  <2>. QED  BY <2>1, <2>2
<1>. HIDE DEF x, t1
<1>3. y \in Seq(S) /\ t2 \in Seq(S)
  <2>1. y \in Seq(S)
    BY <1>2, CatType
  <2>2. t2 \in Seq(S)
    BY <1>2, CatType
  <2>. QED  BY <2>1, <2>2
<1>4. Cat(x, t3) = Cat(a, Cat(b, t3))
  <2>1. t3 \in Seq(S)
    BY <1>3, CatType
  <2>. HIDE DEF t3
  <2>. QED  BY <2>1, CatAssociative DEF x
<1>5. Cat(y, t2) = Cat(x, t3)
  <2>. HIDE DEF t2
  <2>. QED  BY <1>2, <1>3, CatAssociative
<1>. HIDE DEF y, t2
<1>6. w \in Seq(S)
  BY <1>3, CatType
<1>7. Cat(w, t1) = Cat(y, t2)
  BY <1>2, <1>3, CatAssociative DEF t2
<1>. HIDE DEF w
<1>8. Cat(Cat(w, e), f) = Cat(w, t1)
  BY <1>6, CatAssociative DEF t1
<1>9. Cat(Cat(Cat(Cat(Cat(a, b), c), d), e), f) = Cat(a, Cat(b, t3))
  BY <1>1, <1>4, <1>5, <1>7, <1>8, Zenon
<1>. QED  BY <1>9, Zenon DEF t3, t2, t1

\* Counts are written alike by the node and by the program.
LEMMA NodeCountIs ==
    ASSUME NEW n \in Nat, n <= U32Max
    PROVE  NodeCount(n) = WriteCompactSize(n)
<1>. DEFINE two  == <<Base - 3>> \o LE(2, n)
            four == <<Base - 2>> \o LE(4, n)
            b2   == Base * Base
<1>1. b2 \in Nat /\ Base \in Nat /\ Base >= 7 /\ U16Max = b2 - 1 /\ Base < b2
  <2>1. Base \in Nat /\ Base >= 7
    BY BaseAssumption
  <2>2. Base * (Base - 1) \in Nat /\ Base * (Base - 1) >= Base
    <3>1. Base * (Base - 2) \in Nat
      <4>1. Base - 2 \in Nat
        BY <2>1
      <4>. QED  BY <2>1, <4>1, Product
    <3>2. Base * (Base - 1) = Base * (Base - 2) + Base
      BY <2>1
    <3>. DEFINE u == Base * (Base - 2)
    <3>3. u \in Nat /\ Base * (Base - 1) = u + Base
      BY <3>1, <3>2
    <3>. HIDE DEF u
    <3>. QED  BY <2>1, <3>3
  <2>3. b2 = Base * (Base - 1) + Base
    BY <2>1
  <2>. DEFINE v == Base * (Base - 1)
  <2>4. v \in Nat /\ v >= Base /\ b2 = v + Base
    BY <2>2, <2>3
  <2>5. U16Max = b2 - 1
    BY DEF U16Max
  <2>. HIDE DEF v, b2
  <2>. QED  BY <2>1, <2>4, <2>5
<1>2. NodeCount(n) = CASE n < Base - 3               -> <<n>>
                       [] n \in (Base - 3)..(b2 - 1) -> two
                       [] n >= b2                    -> four
  BY Zenon DEF NodeCount
<1>3. WriteCompactSize(n) = IF n < Base - 3 THEN <<n>> ELSE IF n <= b2 - 1 THEN two ELSE four
  BY <1>1 DEF WriteCompactSize
<1>. HIDE DEF two, four, b2
<1>4. CASE n < Base - 3
  <2>1. ~(n \in (Base - 3)..(b2 - 1)) /\ ~(n >= b2)
    BY <1>1, <1>4
  <2>. QED  BY <1>2, <1>3, <1>4, <2>1
<1>5. CASE ~(n < Base - 3) /\ n <= b2 - 1
  <2>1. n \in (Base - 3)..(b2 - 1) /\ ~(n >= b2)
    BY <1>1, <1>5
  <2>. QED  BY <1>2, <1>3, <1>5, <2>1
<1>6. CASE ~(n < Base - 3) /\ ~(n <= b2 - 1)
  <2>1. ~(n \in (Base - 3)..(b2 - 1)) /\ n >= b2
    BY <1>1, <1>6
  <2>. QED  BY <1>2, <1>3, <1>6, <2>1
<1>. QED  BY <1>4, <1>5, <1>6

\* A script is as long as it says, behind its length.
LEMMA ScriptIs ==
    ASSUME NEW size \in Nat
    PROVE  \E t \in Seq(Nat) :
             /\ Len(t) = size /\ Script(size) = Cat(NodeCount(size), t)
             /\ NodeCount(size) \in Seq(Nat) /\ Len(NodeCount(size)) \in Nat
<1>. DEFINE t == [i \in 1..size |-> i % Base]
<1>1. \A i \in Nat : i % Base \in Nat
  BY BaseNat, DivMod
<1>2. t \in Seq(Nat) /\ Len(t) = size
  BY <1>1
<1>3. NodeCount(size) \in Seq(Nat)
  BY NodeCountType
<1>4. Script(size) = Cat(NodeCount(size), t)
  BY Zenon DEF Script, Cat
<1>. HIDE DEF t
<1>. QED  BY <1>2, <1>3, <1>4

\* Vins and vouts are scripts between their fields.
LEMMA VinScripted ==
    ASSUME NEW size \in Nat
    PROVE  /\ Vin(size) # <<>>
           /\ Len(Vin(size)) <= U32Max => Scripted(Vin(size), 1, 1)
<1>1. PICK t \in Seq(Nat) :
        /\ Len(t) = size /\ Script(size) = Cat(NodeCount(size), t)
        /\ NodeCount(size) \in Seq(Nat) /\ Len(NodeCount(size)) \in Nat
  BY ScriptIs
<1>. DEFINE k == NodeCount(size)
            one == <<1>>
            y == Cat(t, one)
            z == Cat(k, y)
<1>2. one \in Seq(Nat) /\ Len(one) = 1
  OBVIOUS
<1>. HIDE DEF k, one
<1>3. y \in Seq(Nat) /\ Len(y) = size + 1
  <2>1. y \in Seq(Nat) /\ Len(y) = Len(t) + Len(one)
    BY <1>2, CatType
  <2>. HIDE DEF y
  <2>. QED  BY <1>1, <1>2, <2>1
<1>4. Vin(size) = Cat(one, z)
  <2>1. Vin(size) = Cat(Cat(one, Cat(k, t)), one)
    BY <1>1, Zenon DEF Vin, Cat, one, k
  <2>2. Cat(k, t) \in Seq(Nat) /\ k \in Seq(Nat)
    <3>1. k \in Seq(Nat)
      BY <1>1 DEF k
    <3>. QED  BY <3>1, CatType
  <2>3. Cat(Cat(one, Cat(k, t)), one) = Cat(one, Cat(Cat(k, t), one))
    BY <1>2, <2>2, CatAssociative
  <2>4. Cat(Cat(k, t), one) = Cat(k, Cat(t, one))
    BY <1>2, <2>2, CatAssociative
  <2>. QED  BY <2>1, <2>3, <2>4, Zenon
<1>. HIDE DEF y
<1>5. z \in Seq(Nat) /\ Len(z) = Len(k) + Len(y)
  BY <1>1, <1>3, CatType DEF k
<1>. HIDE DEF z
<1>6. Len(Vin(size)) = 1 + Len(z)
  <2>1. Len(Cat(one, z)) = Len(one) + Len(z)
    BY <1>2, <1>5, CatType
  <2>. QED  BY <1>2, <1>4, <2>1
<1>7. Len(k) \in Nat
  BY <1>1 DEF k
<1>8. Vin(size) # <<>>
  <2>1. Len(Vin(size)) # 0
    BY <1>3, <1>5, <1>6, <1>7
  <2>. QED  BY <2>1
<1>9. ASSUME Len(Vin(size)) <= U32Max PROVE Scripted(Vin(size), 1, 1)
  <2>1. size <= U32Max /\ size \in 0..U32Max
    BY <1>3, <1>5, <1>6, <1>7, <1>9, U32Large
  <2>2. k = WriteCompactSize(size)
    BY <2>1, NodeCountIs DEF k
  <2>3. Vin(size) = Cat(one, Cat(WriteCompactSize(size), y))
    BY <1>4, <2>2 DEF z
  <2>. QED  BY <1>2, <1>3, <2>1, <2>3 DEF Scripted
<1>. QED  BY <1>8, <1>9

LEMMA VoutScripted ==
    ASSUME NEW size \in Nat
    PROVE  /\ Vout(size) # <<>>
           /\ Len(Vout(size)) <= U32Max => Scripted(Vout(size), 1, 0)
<1>1. PICK t \in Seq(Nat) :
        /\ Len(t) = size /\ Script(size) = Cat(NodeCount(size), t)
        /\ NodeCount(size) \in Seq(Nat) /\ Len(NodeCount(size)) \in Nat
  BY ScriptIs
<1>. DEFINE k == NodeCount(size)
            one == <<1>>
            z == Cat(k, t)
<1>2. one \in Seq(Nat) /\ Len(one) = 1
  OBVIOUS
<1>. HIDE DEF k, one
<1>3. Vout(size) = Cat(one, z)
  BY <1>1, Zenon DEF Vout, Cat, one, k
<1>4. z \in Seq(Nat) /\ Len(z) = Len(k) + Len(t)
  BY <1>1, CatType DEF k
<1>. HIDE DEF z
<1>5. Len(Vout(size)) = 1 + Len(z)
  <2>1. Len(Cat(one, z)) = Len(one) + Len(z)
    BY <1>2, <1>4, CatType
  <2>. QED  BY <1>2, <1>3, <2>1
<1>6. Len(k) \in Nat
  BY <1>1 DEF k
<1>7. Vout(size) # <<>>
  <2>1. Len(Vout(size)) # 0
    BY <1>1, <1>4, <1>5, <1>6
  <2>. QED  BY <2>1
<1>8. ASSUME Len(Vout(size)) <= U32Max PROVE Scripted(Vout(size), 1, 0)
  <2>1. size <= U32Max /\ size \in 0..U32Max
    BY <1>1, <1>4, <1>5, <1>6, <1>8, U32Large
  <2>2. k = WriteCompactSize(size)
    BY <2>1, NodeCountIs DEF k
  <2>3. Vout(size) = Cat(one, Cat(WriteCompactSize(size), t))
    BY <1>3, <2>2 DEF z
  <2>4. Len(t) = size + 0
    BY <1>1
  <2>. QED  BY <1>2, <2>1, <2>3, <2>4 DEF Scripted
<1>. QED  BY <1>7, <1>8

\* All of them, if together they are no longer than a length can be.
LEMMA AllScripted ==
    ASSUME NEW s \in Seq(Nat)
    PROVE  /\ Len(FlattenSeq(Vins(s))) <= U32Max
                => /\ Len(s) <= U32Max
                   /\ \A i \in 1..Len(Vins(s)) : Scripted(Vins(s)[i], 1, 1)
           /\ Len(FlattenSeq(Vouts(s))) <= U32Max
                => /\ Len(s) <= U32Max
                   /\ \A i \in 1..Len(Vouts(s)) : Scripted(Vouts(s)[i], 1, 0)
<1>1. /\ Vins(s) \in Seq(Seq(Nat)) /\ Len(Vins(s)) = Len(s)
      /\ Vouts(s) \in Seq(Seq(Nat)) /\ Len(Vouts(s)) = Len(s)
  BY ScriptsType
<1>2. \A i \in 1..Len(s) : s[i] \in Nat /\ Vins(s)[i] = Vin(s[i]) /\ Vouts(s)[i] = Vout(s[i])
  BY DEF Vins, Vouts
<1>3. \A i \in 1..Len(Vins(s)) : Vins(s)[i] # <<>>
  BY <1>1, <1>2, VinScripted
<1>4. \A i \in 1..Len(Vouts(s)) : Vouts(s)[i] # <<>>
  BY <1>1, <1>2, VoutScripted
<1>5. /\ Len(s) <= Len(FlattenSeq(Vins(s)))
      /\ \A i \in 1..Len(s) : Len(Vins(s)[i]) <= Len(FlattenSeq(Vins(s)))
      /\ FlattenSeq(Vins(s)) \in Seq(Nat)
  BY <1>1, <1>3, FlattenLonger, FlattenType
<1>6. /\ Len(s) <= Len(FlattenSeq(Vouts(s)))
      /\ \A i \in 1..Len(s) : Len(Vouts(s)[i]) <= Len(FlattenSeq(Vouts(s)))
      /\ FlattenSeq(Vouts(s)) \in Seq(Nat)
  BY <1>1, <1>4, FlattenLonger, FlattenType
<1>7. U32Max \in Nat
  BY U32Large
<1>8. \A i \in 1..Len(s) : Vins(s)[i] \in Seq(Nat) /\ Vouts(s)[i] \in Seq(Nat)
  BY <1>1
<1>9. \A i \in 1..Len(s) : Len(Vins(s)[i]) \in Nat /\ Len(Vouts(s)[i]) \in Nat
  BY <1>8
<1>10. ASSUME Len(FlattenSeq(Vins(s))) <= U32Max
       PROVE  Len(s) <= U32Max /\ \A i \in 1..Len(s) : Scripted(Vins(s)[i], 1, 1)
  <2>1. Len(FlattenSeq(Vins(s))) \in Nat /\ Len(s) \in Nat
    BY <1>5
  <2>2. Len(s) <= U32Max
    BY <1>5, <1>7, <1>10, <2>1
  <2>3. \A i \in 1..Len(s) : Len(Vins(s)[i]) <= U32Max
    BY <1>5, <1>7, <1>9, <1>10, <2>1
  <2>4. \A i \in 1..Len(s) : Len(Vin(s[i])) <= U32Max
    BY <1>2, <2>3
  <2>5. \A i \in 1..Len(s) : Scripted(Vin(s[i]), 1, 1)
    BY <1>2, <2>4, VinScripted
  <2>. QED  BY <1>2, <2>2, <2>5
<1>11. ASSUME Len(FlattenSeq(Vouts(s))) <= U32Max
       PROVE  Len(s) <= U32Max /\ \A i \in 1..Len(s) : Scripted(Vouts(s)[i], 1, 0)
  <2>1. Len(FlattenSeq(Vouts(s))) \in Nat /\ Len(s) \in Nat
    BY <1>6
  <2>2. Len(s) <= U32Max
    BY <1>6, <1>7, <1>11, <2>1
  <2>3. \A i \in 1..Len(s) : Len(Vouts(s)[i]) <= U32Max
    BY <1>6, <1>7, <1>9, <1>11, <2>1
  <2>4. \A i \in 1..Len(s) : Len(Vout(s[i])) <= U32Max
    BY <1>2, <2>3
  <2>5. \A i \in 1..Len(s) : Scripted(Vout(s[i]), 1, 0)
    BY <1>2, <2>4, VoutScripted
  <2>. QED  BY <1>2, <2>2, <2>5
<1>. QED  BY <1>1, <1>10, <1>11

\* A part is no longer than the whole.
LEMMA CatLonger ==
    ASSUME NEW S, NEW a \in Seq(S), NEW b \in Seq(S), NEW l \in Nat, Len(Cat(a, b)) <= l
    PROVE  Cat(a, b) \in Seq(S) /\ Len(a) <= l /\ Len(b) <= l
<1>1. Cat(a, b) \in Seq(S) /\ Len(Cat(a, b)) = Len(a) + Len(b)
  BY CatType
<1>2. Len(a) \in Nat /\ Len(b) \in Nat
  OBVIOUS
<1>. DEFINE c == Len(Cat(a, b))
<1>3. c = Len(a) + Len(b) /\ c <= l
  BY <1>1
<1>. HIDE DEF c
<1>4. Len(a) <= l /\ Len(b) <= l
  BY <1>2, <1>3
<1>. QED  BY <1>1, <1>4

\* A raw transaction laid out, with the counts and lengths the program reads.
LEMMA RawLaid ==
    ASSUME NEW tx \in Transaction, Len(RawTx(tx)) <= U32Max
    PROVE  /\ RawTx(tx) = Cat(<<tx.version, 0, 0, 0>>,
                            Cat(WriteCompactSize(Len(tx.vin)), Cat(FlattenSeq(Vins(tx.vin)),
                            Cat(WriteCompactSize(Len(tx.vout)), Cat(FlattenSeq(Vouts(tx.vout)),
                            Cat(<<0>>, Behind(tx)))))))
           /\ Len(tx.vin) <= U32Max /\ Len(tx.vout) <= U32Max
           /\ \A i \in 1..Len(Vins(tx.vin)) : Scripted(Vins(tx.vin)[i], 1, 1)
           /\ \A i \in 1..Len(Vouts(tx.vout)) : Scripted(Vouts(tx.vout)[i], 1, 0)
           /\ Len(Behind(tx)) <= U32Max
<1>. DEFINE h  == <<tx.version, 0, 0, 0>>
            n1 == Len(tx.vin)
            n2 == Len(tx.vout)
            k1 == NodeCount(n1)
            z1 == FlattenSeq(Vins(tx.vin))
            k2 == NodeCount(n2)
            z2 == FlattenSeq(Vouts(tx.vout))
            o  == <<0>>
            f  == Behind(tx)
            t6 == Cat(o, f)
            t5 == Cat(z2, t6)
            t4 == Cat(k2, t5)
            t3 == Cat(z1, t4)
            t2 == Cat(k1, t3)
            t1 == Cat(h, t2)
<1>1. tx.vin \in Seq(Nat) /\ tx.vout \in Seq(Nat) /\ tx.version \in Nat
  BY BaseNat DEF Transaction
<1>2. n1 \in Nat /\ n2 \in Nat
  BY <1>1
<1>3. h \in Seq(Nat) /\ o \in Seq(Nat) /\ f \in Seq(Nat)
  BY <1>1, BehindType
<1>4. k1 \in Seq(Nat) /\ k2 \in Seq(Nat)
  <2>. HIDE DEF n1, n2
  <2>. QED  BY <1>2, NodeCountType
<1>5. z1 \in Seq(Nat) /\ z2 \in Seq(Nat)
  <2>1. Vins(tx.vin) \in Seq(Seq(Nat)) /\ Vouts(tx.vout) \in Seq(Seq(Nat))
    BY <1>1, ScriptsType
  <2>. QED  BY <2>1, FlattenType
<1>6. RawTx(tx) = h \o k1 \o z1 \o k2 \o z2 \o o \o f
  BY RawTxParts
<1>. HIDE DEF h, n1, n2, k1, k2, z1, z2, o, f
<1>7. RawTx(tx) = t1
  <2>. DEFINE g == Cat(h, k1)
  <2>1. g \in Seq(Nat)
    BY <1>3, <1>4, CatType
  <2>2. RawTx(tx) = g \o z1 \o k2 \o z2 \o o \o f
    BY <1>6, Zenon DEF Cat
  <2>. HIDE DEF g
  <2>3. g \o z1 \o k2 \o z2 \o o \o f = Cat(g, t3)
    <3>1. g \o z1 \o k2 \o z2 \o o \o f = Cat(Cat(Cat(Cat(Cat(g, z1), k2), z2), o), f)
      BY Zenon DEF Cat
    <3>2. Cat(Cat(Cat(Cat(Cat(g, z1), k2), z2), o), f) = Cat(g, t3)
      <4>1. \A a, b, c, d, e, y \in Seq(Nat) :
              Cat(Cat(Cat(Cat(Cat(a, b), c), d), e), y)
                = Cat(a, Cat(b, Cat(c, Cat(d, Cat(e, y)))))
        BY CatSix
      <4>2. /\ g \in Seq(Nat) /\ z1 \in Seq(Nat) /\ k2 \in Seq(Nat)
            /\ z2 \in Seq(Nat) /\ o \in Seq(Nat) /\ f \in Seq(Nat)
        BY <1>3, <1>4, <1>5, <2>1
      <4>. HIDE DEF t1, t2, t3, t4, t5, t6
      <4>3. Cat(Cat(Cat(Cat(Cat(g, z1), k2), z2), o), f)
              = Cat(g, Cat(z1, Cat(k2, Cat(z2, Cat(o, f)))))
        BY <4>1, <4>2
      <4>. QED  BY <4>3, Zenon DEF t3, t4, t5, t6
    <3>. QED  BY <3>1, <3>2, Zenon
  <2>4. t3 \in Seq(Nat)
    <3>1. t6 \in Seq(Nat)
      BY <1>3, CatType
    <3>. HIDE DEF t6
    <3>2. t5 \in Seq(Nat)
      BY <1>5, <3>1, CatType
    <3>. HIDE DEF t5
    <3>3. t4 \in Seq(Nat)
      BY <1>4, <3>2, CatType
    <3>. HIDE DEF t4
    <3>. QED  BY <1>5, <3>3, CatType
  <2>. HIDE DEF t3
  <2>5. Cat(g, t3) = t1
    BY <1>3, <1>4, <2>4, CatAssociative DEF g
  <2>. HIDE DEF t1
  <2>. QED  BY <2>2, <2>3, <2>5, Zenon
<1>8. U32Max \in Nat
  BY U32Large
<1>9. /\ t6 \in Seq(Nat) /\ t5 \in Seq(Nat) /\ t4 \in Seq(Nat)
      /\ t3 \in Seq(Nat) /\ t2 \in Seq(Nat)
  <2>1. t6 \in Seq(Nat)
    BY <1>3, CatType
  <2>. HIDE DEF t6
  <2>2. t5 \in Seq(Nat)
    BY <1>5, <2>1, CatType
  <2>. HIDE DEF t5
  <2>3. t4 \in Seq(Nat)
    BY <1>4, <2>2, CatType
  <2>. HIDE DEF t4
  <2>4. t3 \in Seq(Nat)
    BY <1>5, <2>3, CatType
  <2>. HIDE DEF t3
  <2>5. t2 \in Seq(Nat)
    BY <1>4, <2>4, CatType
  <2>. QED  BY <2>1, <2>2, <2>3, <2>4, <2>5
<1>10. Len(t2) <= U32Max
  <2>1. Len(t1) <= U32Max
    BY <1>7
  <2>. HIDE DEF t2
  <2>. QED  BY <1>3, <1>8, <1>9, <2>1, CatLonger
<1>11. Len(t3) <= U32Max
  <2>. HIDE DEF t3
  <2>. QED  BY <1>4, <1>8, <1>9, <1>10, CatLonger
<1>12. Len(z1) <= U32Max /\ Len(t4) <= U32Max
  <2>. HIDE DEF t4
  <2>. QED  BY <1>5, <1>8, <1>9, <1>11, CatLonger
<1>13. Len(t5) <= U32Max
  <2>. HIDE DEF t5
  <2>. QED  BY <1>4, <1>8, <1>9, <1>12, CatLonger
<1>14. Len(z2) <= U32Max /\ Len(t6) <= U32Max
  <2>. HIDE DEF t6
  <2>. QED  BY <1>5, <1>8, <1>9, <1>13, CatLonger
<1>15. Len(f) <= U32Max
  BY <1>3, <1>8, <1>14, CatLonger
<1>16. n1 <= U32Max /\ \A i \in 1..Len(Vins(tx.vin)) : Scripted(Vins(tx.vin)[i], 1, 1)
  BY <1>1, <1>12, AllScripted DEF z1, n1
<1>17. n2 <= U32Max /\ \A i \in 1..Len(Vouts(tx.vout)) : Scripted(Vouts(tx.vout)[i], 1, 0)
  BY <1>1, <1>14, AllScripted DEF z2, n2
<1>18. k1 = WriteCompactSize(n1) /\ k2 = WriteCompactSize(n2)
  BY <1>2, <1>16, <1>17, NodeCountIs DEF k1, k2
<1>19. RawTx(tx) = Cat(h, Cat(WriteCompactSize(n1), Cat(z1, Cat(WriteCompactSize(n2),
                     Cat(z2, Cat(o, f))))))
  BY <1>7, <1>18, Zenon DEF t1, t2, t3, t4, t5, t6
<1>. HIDE DEF t1, t2, t3, t4, t5, t6
<1>20. Len(tx.vin) <= U32Max /\ Len(tx.vout) <= U32Max /\ Len(Behind(tx)) <= U32Max
  BY <1>15, <1>16, <1>17 DEF n1, n2, f
<1>. QED  BY <1>16, <1>17, <1>19, <1>20, Zenon DEF h, n1, n2, z1, z2, o, f

\* What is behind the lock time of a Sapling transaction.
LEMMA BehindLaid ==
    ASSUME NEW tx \in Transaction, Sapling(tx), Len(Behind(tx)) <= U32Max
    PROVE  /\ Behind(tx) = Cat(<<1, 0>>,
                             Cat(WriteCompactSize(tx.spends), Cat(FlattenSeq(Spends(tx.spends)),
                             Cat(WriteCompactSize(tx.outputs), Cat(FlattenSeq(Outputs(tx.outputs)),
                             <<0>>)))))
           /\ tx.spends \in Nat /\ tx.spends <= U32Max
           /\ tx.outputs \in Nat /\ tx.outputs <= U32Max
           /\ tx.spends + tx.outputs # 0
<1>1. tx.spends \in Nat /\ tx.outputs \in Nat /\ tx.spends + tx.outputs # 0
  <2>1. tx.spends \in Nat /\ tx.outputs \in Nat
    BY DEF Transaction
  <2>2. tx.spends + tx.outputs > 0
    BY DEF Sapling
  <2>. QED  BY <2>1, <2>2
<1>. DEFINE n  == tx.spends
            m  == tx.outputs
            h  == <<1, 0>>
            k1 == NodeCount(n)
            z1 == FlattenSeq(Spends(n))
            k2 == NodeCount(m)
            z2 == FlattenSeq(Outputs(m))
            o  == <<0>>
            t5 == Cat(z2, o)
            t4 == Cat(k2, t5)
            t3 == Cat(z1, t4)
            t2 == Cat(k1, t3)
            t1 == Cat(h, t2)
<1>2. h \in Seq(Nat) /\ o \in Seq(Nat)
  OBVIOUS
<1>3. Behind(tx) = h \o k1 \o z1 \o k2 \o z2 \o o
  BY <1>1 DEF Behind
<1>. HIDE DEF n, m
<1>4. k1 \in Seq(Nat) /\ k2 \in Seq(Nat)
  BY <1>1, NodeCountType DEF n, m
<1>5. /\ Spends(n) \in Seq(Seq(Nat)) /\ Len(Spends(n)) = n
      /\ Outputs(m) \in Seq(Seq(Nat)) /\ Len(Outputs(m)) = m
      /\ \A i \in 1..n : Spends(n)[i] = SpendDesc(i) /\ Len(SpendDesc(i)) = 6
      /\ \A i \in 1..m : Outputs(m)[i] = OutputDesc(i) /\ Len(OutputDesc(i)) = 6
  <2>1. n \in Nat /\ m \in Nat
    BY <1>1 DEF n, m
  <2>. QED  BY <2>1, DescsType DEF SpendDescSize, OutputDescSize
<1>6. z1 \in Seq(Nat) /\ z2 \in Seq(Nat)
  BY <1>5, FlattenType
<1>. HIDE DEF h, k1, k2, z1, z2, o
<1>7. Behind(tx) = t1
  <2>1. Behind(tx) = Cat(Cat(Cat(Cat(Cat(h, k1), z1), k2), z2), o)
    BY <1>3, Zenon DEF Cat
  <2>2. Cat(Cat(Cat(Cat(Cat(h, k1), z1), k2), z2), o) = t1
    BY <1>2, <1>4, <1>6, CatSix
  <2>. QED  BY <2>1, <2>2, Zenon
<1>8. U32Max \in Nat
  BY U32Large
<1>9. t5 \in Seq(Nat) /\ t4 \in Seq(Nat) /\ t3 \in Seq(Nat) /\ t2 \in Seq(Nat)
  <2>2. t5 \in Seq(Nat)
    BY <1>2, <1>6, CatType
  <2>. HIDE DEF t5
  <2>3. t4 \in Seq(Nat)
    BY <1>4, <2>2, CatType
  <2>. HIDE DEF t4
  <2>4. t3 \in Seq(Nat)
    BY <1>6, <2>3, CatType
  <2>. HIDE DEF t3
  <2>5. t2 \in Seq(Nat)
    BY <1>4, <2>4, CatType
  <2>. QED  BY <2>2, <2>3, <2>4, <2>5
<1>10. Len(t2) <= U32Max
  <2>1. Len(t1) <= U32Max
    BY <1>7
  <2>. HIDE DEF t2
  <2>. QED  BY <1>2, <1>8, <1>9, <2>1, CatLonger
<1>11. Len(t3) <= U32Max
  <2>. HIDE DEF t3
  <2>. QED  BY <1>4, <1>8, <1>9, <1>10, CatLonger
<1>12. Len(z1) <= U32Max /\ Len(t4) <= U32Max
  <2>. HIDE DEF t4
  <2>. QED  BY <1>6, <1>8, <1>9, <1>11, CatLonger
<1>13. Len(t5) <= U32Max
  <2>. HIDE DEF t5
  <2>. QED  BY <1>4, <1>8, <1>9, <1>12, CatLonger
<1>14. Len(z2) <= U32Max
  <2>1. \A a, b \in Seq(Nat), l \in Nat : Len(Cat(a, b)) <= l => Len(a) <= l
    BY CatLonger
  <2>. QED  BY <1>2, <1>6, <1>8, <1>13, <2>1, Zenon
<1>15. \A i \in 1..Len(Spends(n)) : Spends(n)[i] # <<>>
  <2>1. ASSUME NEW i \in 1..n, Spends(n)[i] = <<>> PROVE FALSE
    <3>1. Len(<<>>) = 6
      BY <1>5, <2>1, Zenon
    <3>. QED  BY <3>1
  <2>. QED  BY <1>5, <2>1, Zenon
<1>16. \A i \in 1..Len(Outputs(m)) : Outputs(m)[i] # <<>>
  <2>1. ASSUME NEW i \in 1..m, Outputs(m)[i] = <<>> PROVE FALSE
    <3>1. Len(<<>>) = 6
      BY <1>5, <2>1, Zenon
    <3>. QED  BY <3>1
  <2>. QED  BY <1>5, <2>1, Zenon
<1>17. n <= Len(z1) /\ Len(z1) \in Nat
  BY <1>5, <1>6, <1>15, FlattenLonger DEF z1
<1>18. m <= Len(z2) /\ Len(z2) \in Nat
  BY <1>5, <1>6, <1>16, FlattenLonger DEF z2
<1>19. n \in Nat /\ n <= U32Max /\ m \in Nat /\ m <= U32Max
  <2>1. n \in Nat /\ m \in Nat
    BY <1>1 DEF n, m
  <2>. QED  BY <1>8, <1>12, <1>14, <1>17, <1>18, <2>1
<1>20. k1 = WriteCompactSize(n) /\ k2 = WriteCompactSize(m)
  BY <1>19, NodeCountIs DEF k1, k2
<1>21. Behind(tx) = Cat(h, Cat(WriteCompactSize(n), Cat(z1, Cat(WriteCompactSize(m), Cat(z2, o)))))
  BY <1>7, <1>20, Zenon DEF t1, t2, t3, t4, t5
<1>. HIDE DEF t1, t2, t3, t4, t5
<1>. QED  BY <1>1, <1>19, <1>21, Zenon DEF h, n, m, z1, z2, o

LEMMA CatPast ==
    ASSUME NEW S, NEW a \in Seq(S), NEW b \in Seq(S), NEW c \in Seq(S), NEW d \in Seq(S)
    PROVE  /\ Cat(a, Cat(b, Cat(c, d))) = Cat(Cat(a, Cat(b, c)), d)
           /\ Cat(a, Cat(b, c)) \in Seq(S)
           /\ Len(Cat(a, Cat(b, c))) = Len(a) + Len(b) + Len(c)
<1>. DEFINE x == Cat(b, c)
<1>1. x \in Seq(S) /\ Cat(x, d) = Cat(b, Cat(c, d))
  BY CatType, CatAssociative
<1>2. Cat(a, x) \in Seq(S) /\ Len(Cat(a, x)) = Len(a) + Len(b) + Len(c)
  BY CatAt
<1>. HIDE DEF x
<1>3. Cat(Cat(a, x), d) = Cat(a, Cat(x, d))
  BY <1>1, CatAssociative
<1>4. Cat(a, Cat(b, Cat(c, d))) = Cat(Cat(a, x), d)
  BY <1>1, <1>3, Zenon
<1>. QED  BY <1>2, <1>4 DEF x

\* The parser finds, in a transaction as the node serialises it, its spends and
\* outputs, wherever the scripts in front of them end.
LEMMA RawParsed ==
    ASSUME NEW tx \in Transaction, Len(RawTx(tx)) <= U32Max
    PROVE  ParseSaplingTx(RawTx(tx))
             = IF Sapling(tx) THEN Parts2(tx.spends, tx.outputs) ELSE NotShielded
<1>. DEFINE d  == RawTx(tx)
            h  == <<tx.version, 0, 0, 0>>
            v1 == Vins(tx.vin)
            v2 == Vouts(tx.vout)
            k1 == WriteCompactSize(Len(v1))
            z1 == FlattenSeq(v1)
            k2 == WriteCompactSize(Len(v2))
            z2 == FlattenSeq(v2)
            o  == <<0>>
            f  == Behind(tx)
            c2 == Cat(o, f)
            b2 == Cat(z2, c2)
            c1 == Cat(k2, b2)
            b1 == Cat(z1, c1)
            a1 == Cat(h, Cat(k1, z1))
            a2 == Cat(a1, Cat(k2, z2))
            a3 == Cat(a2, o)
<1>1. tx.vin \in Seq(Nat) /\ tx.vout \in Seq(Nat) /\ tx.version \in Nat
  BY BaseNat DEF Transaction
<1>2. /\ v1 \in Seq(Seq(Nat)) /\ Len(v1) = Len(tx.vin)
      /\ v2 \in Seq(Seq(Nat)) /\ Len(v2) = Len(tx.vout)
  BY <1>1, ScriptsType
<1>3. /\ d = Cat(h, Cat(k1, b1))
      /\ Len(v1) <= U32Max /\ Len(v2) <= U32Max
      /\ \A i \in 1..Len(v1) : Scripted(v1[i], 1, 1)
      /\ \A i \in 1..Len(v2) : Scripted(v2[i], 1, 0)
      /\ Len(f) <= U32Max
  <2>1. /\ RawTx(tx) = Cat(<<tx.version, 0, 0, 0>>,
                            Cat(WriteCompactSize(Len(tx.vin)), Cat(FlattenSeq(Vins(tx.vin)),
                            Cat(WriteCompactSize(Len(tx.vout)), Cat(FlattenSeq(Vouts(tx.vout)),
                            Cat(<<0>>, Behind(tx)))))))
        /\ Len(tx.vin) <= U32Max /\ Len(tx.vout) <= U32Max
        /\ \A i \in 1..Len(Vins(tx.vin)) : Scripted(Vins(tx.vin)[i], 1, 1)
        /\ \A i \in 1..Len(Vouts(tx.vout)) : Scripted(Vouts(tx.vout)[i], 1, 0)
        /\ Len(Behind(tx)) <= U32Max
    BY RawLaid
  <2>. QED  BY <1>2, <2>1, Zenon
<1>4. h \in Seq(Nat) /\ o \in Seq(Nat) /\ f \in Seq(Nat)
  BY <1>1, BehindType
<1>22. Len(h) = 4 /\ Len(o) = 1
  OBVIOUS
<1>5. k1 \in Seq(Nat) /\ k2 \in Seq(Nat)
  <2>1. Len(v1) \in Nat /\ Len(v2) \in Nat
    BY <1>2
  <2>. HIDE DEF v1, v2
  <2>2. k1 \in Seq(Nat)
    BY <1>3, <2>1, CountShape
  <2>3. k2 \in Seq(Nat)
    BY <1>3, <2>1, CountShape
  <2>. QED  BY <2>2, <2>3
<1>6. z1 \in Seq(Nat) /\ z2 \in Seq(Nat)
  BY <1>2, FlattenType
<1>. HIDE DEF d, h, v1, v2, k1, z1, k2, z2, o, f
<1>7. c2 \in Seq(Nat)
  BY <1>4, CatType
<1>8. b2 \in Seq(Nat)
  <2>. HIDE DEF c2
  <2>. QED  BY <1>6, <1>7, CatType
<1>9. c1 \in Seq(Nat)
  <2>. HIDE DEF b2
  <2>. QED  BY <1>5, <1>8, CatType
<1>10. d = Cat(a1, c1) /\ a1 \in Seq(Nat) /\ Len(a1) = Len(h) + Len(k1) + Len(z1)
  <2>. HIDE DEF c1
  <2>1. Cat(h, Cat(k1, Cat(z1, c1))) = Cat(Cat(h, Cat(k1, z1)), c1)
    BY <1>4, <1>5, <1>6, <1>9, CatPast
  <2>2. a1 \in Seq(Nat) /\ Len(a1) = Len(h) + Len(k1) + Len(z1)
    BY <1>4, <1>5, <1>6, CatAt
  <2>3. d = Cat(a1, c1)
    BY <1>3, <2>1, Zenon
  <2>. QED  BY <2>2, <2>3
<1>. DEFINE vouts == SkipScripts(d, Len(SaplingHeader), 1, 1)
<1>11. vouts = Len(a1)
  <2>1. SkipScripts(Cat(h, Cat(WriteCompactSize(Len(v1)), Cat(FlattenSeq(v1), c1))), Len(h), 1, 1)
          = Len(h) + Len(WriteCompactSize(Len(v1))) + Len(FlattenSeq(v1))
    <3>. HIDE DEF c1
    <3>1. /\ h \in Seq(Nat) /\ c1 \in Seq(Nat) /\ v1 \in Seq(Seq(Nat)) /\ Len(v1) <= U32Max
          /\ 1 \in Nat /\ 1 \in Nat
      BY <1>2, <1>3, <1>4, <1>9
    <3>2. \A i \in 1..Len(v1) : Scripted(v1[i], 1, 1)
      BY <1>3
    <3>. QED  BY <3>1, <3>2, SkipsScripts
  <2>2. Len(SaplingHeader) = Len(h)
    BY <1>22 DEF SaplingHeader
  <2>3. vouts = Len(h) + Len(k1) + Len(z1)
    BY <1>3, <2>1, <2>2, Zenon DEF k1, z1
  <2>. HIDE DEF vouts, a1
  <2>. QED  BY <1>10, <2>3
<1>. HIDE DEF a1, vouts
<1>12. d = Cat(a2, c2) /\ a2 \in Seq(Nat) /\ Len(a2) = Len(a1) + Len(k2) + Len(z2)
  <2>. HIDE DEF c2
  <2>1. Cat(a1, Cat(k2, Cat(z2, c2))) = Cat(Cat(a1, Cat(k2, z2)), c2)
    <3>1. a1 \in Seq(Nat)
      BY <1>10
    <3>. QED  BY <1>5, <1>6, <1>7, <3>1, CatPast
  <2>2. a2 \in Seq(Nat) /\ Len(a2) = Len(a1) + Len(k2) + Len(z2)
    <3>1. a1 \in Seq(Nat)
      BY <1>10
    <3>. QED  BY <1>5, <1>6, <3>1, CatAt
  <2>3. d = Cat(a2, c2)
    BY <1>10, <2>1, Zenon
  <2>. QED  BY <2>2, <2>3
<1>. DEFINE locked == SkipScripts(d, vouts, 1, 0)
<1>13. locked = Len(a2)
  <2>1. SkipScripts(Cat(a1, Cat(WriteCompactSize(Len(v2)), Cat(FlattenSeq(v2), c2))), Len(a1), 1, 0)
          = Len(a1) + Len(WriteCompactSize(Len(v2))) + Len(FlattenSeq(v2))
    <3>. HIDE DEF c2
    <3>1. /\ a1 \in Seq(Nat) /\ c2 \in Seq(Nat) /\ v2 \in Seq(Seq(Nat)) /\ Len(v2) <= U32Max
          /\ 1 \in Nat /\ 0 \in Nat
      BY <1>2, <1>3, <1>10, <1>7
    <3>2. \A i \in 1..Len(v2) : Scripted(v2[i], 1, 0)
      BY <1>3
    <3>. QED  BY <3>1, <3>2, SkipsScripts
  <2>2. locked = Len(a1) + Len(k2) + Len(z2)
    BY <1>10, <1>11, <2>1, Zenon DEF k2, z2
  <2>. HIDE DEF locked, a2
  <2>. QED  BY <1>12, <2>2
<1>. HIDE DEF a2, locked
<1>14. d = Cat(a3, f) /\ a3 \in Seq(Nat) /\ Len(a3) = Len(a2) + 1
  <2>1. a3 \in Seq(Nat) /\ Len(a3) = Len(a2) + Len(o)
    BY <1>4, <1>12, CatType
  <2>2. Cat(Cat(a2, o), f) = Cat(a2, Cat(o, f))
    BY <1>4, <1>12, CatAssociative
  <2>3. d = Cat(a3, f)
    BY <1>12, <2>2, Zenon
  <2>. HIDE DEF a3
  <2>. QED  BY <1>22, <2>1, <2>3
<1>. HIDE DEF a3
<1>15. Len(d) = Len(a3) + Len(f)
  <2>1. Len(Cat(a3, f)) = Len(a3) + Len(f)
    BY <1>4, <1>14, CatType
  <2>. QED  BY <1>14, <2>1, Zenon
<1>16. \A i \in 1..Len(f) : d[Len(a3) + i] = f[i]
  <2>1. \A i \in 1..Len(f) : Cat(a3, f)[Len(a3) + i] = f[i]
    BY <1>4, <1>14, CatBack
  <2>. QED  BY <1>14, <2>1
<1>17. Len(a2) \in Nat /\ Len(a3) \in Nat /\ Len(f) \in Nat
  BY <1>4, <1>12, <1>14
<1>18. ParseSaplingTx(d)
         = IF locked = Err \/ locked + 1 >= Len(d) THEN NotShielded
           ELSE IF d[locked + 1 + 1] = 0 \/ locked + 1 + 2 > Len(d) THEN NotShielded
           ELSE ParseSaplingDescs(d, locked + 1 + 2)
  BY Zenon DEF ParseSaplingTx, locked, vouts
<1>19. /\ locked # Err /\ locked + 1 = Len(a3)
       /\ locked + 1 + 1 = Len(a3) + 1 /\ locked + 1 + 2 = Len(a3) + 2
  BY <1>13, <1>14, <1>17 DEF Err
<1>20. CASE ~Sapling(tx)
  <2>1. tx.spends + tx.outputs = 0
    <3>1. tx.spends \in Nat /\ tx.outputs \in Nat
      BY DEF Transaction
    <3>2. ~(tx.spends + tx.outputs > 0)
      BY <1>20 DEF Sapling
    <3>. QED  BY <3>1, <3>2
  <2>2. f = <<0>>
    BY <2>1 DEF f, Behind
  <2>3. Len(f) = 1 /\ f[1] = 0
    BY <2>2
  <2>4. d[Len(a3) + 1] = 0
    BY <1>16, <2>3
  <2>5. ParseSaplingTx(d) = NotShielded
    BY <1>18, <1>19, <2>4
  <2>. QED  BY <1>20, <2>5 DEF d
<1>21. CASE Sapling(tx)
  <2>. DEFINE n == tx.spends
              m == tx.outputs
              w == <<1, 0>>
              g == Cat(WriteCompactSize(n), Cat(FlattenSeq(Spends(n)),
                     Cat(WriteCompactSize(m), Cat(FlattenSeq(Outputs(m)), o))))
              a4 == Cat(a3, w)
  <2>1. f = Cat(w, g) /\ n \in Nat /\ n <= U32Max /\ m \in Nat /\ m <= U32Max /\ n + m # 0
    <3>1. Len(Behind(tx)) <= U32Max
      BY <1>3 DEF f
    <3>. QED  BY <1>21, <3>1, BehindLaid, Zenon DEF f, o
  <2>2. w \in Seq(Nat) /\ Len(w) = 2 /\ w[1] = 1
    OBVIOUS
  <2>3. g \in Seq(Nat)
    <3>1. WriteCompactSize(n) \in Seq(Nat) /\ WriteCompactSize(m) \in Seq(Nat)
      BY <2>1, CountShape
    <3>2. FlattenSeq(Spends(n)) \in Seq(Nat) /\ FlattenSeq(Outputs(m)) \in Seq(Nat)
      BY <2>1, DescsType, FlattenType
    <3>. DEFINE g3 == Cat(FlattenSeq(Outputs(m)), o)
                g2 == Cat(WriteCompactSize(m), g3)
                g1 == Cat(FlattenSeq(Spends(n)), g2)
    <3>3. g3 \in Seq(Nat)
      BY <1>4, <3>2, CatType
    <3>4. g2 \in Seq(Nat)
      <4>. HIDE DEF g3
      <4>. QED  BY <3>1, <3>3, CatType
    <3>5. g1 \in Seq(Nat)
      <4>. HIDE DEF g2
      <4>. QED  BY <3>2, <3>4, CatType
    <3>6. Cat(WriteCompactSize(n), g1) \in Seq(Nat)
      <4>. HIDE DEF g1
      <4>. QED  BY <3>1, <3>5, CatType
    <3>. QED  BY <3>6
  <2>. HIDE DEF w, g, n, m
  <2>4. Len(f) = 2 + Len(g) /\ Len(g) \in Nat
    <3>1. Len(Cat(w, g)) = Len(w) + Len(g)
      BY <2>2, <2>3, CatType
    <3>. QED  BY <2>1, <2>2, <2>3, <3>1
  <2>5. f[1] = 1
    <3>1. \A i \in 1..Len(w) : Cat(w, g)[i] = w[i]
      BY <2>2, <2>3, CatFront
    <3>2. Cat(w, g)[1] = 1
      BY <2>2, <3>1
    <3>. QED  BY <2>1, <3>2
  <2>6. d[Len(a3) + 1] = 1
    BY <1>16, <2>4, <2>5
  <2>7. d = Cat(a4, g) /\ a4 \in Seq(Nat) /\ Len(a4) = Len(a3) + 2
    <3>1. a4 \in Seq(Nat) /\ Len(a4) = Len(a3) + Len(w)
      BY <1>14, <2>2, CatType
    <3>2. Cat(Cat(a3, w), g) = Cat(a3, Cat(w, g))
      BY <1>14, <2>2, <2>3, CatAssociative
    <3>3. d = Cat(a4, g)
      BY <1>14, <2>1, <3>2, Zenon
    <3>. HIDE DEF a4
    <3>. QED  BY <2>2, <3>1, <3>3
  <2>. HIDE DEF a4
  <2>8. ParseSaplingDescs(Cat(a4, g), Len(a4)) = Parts2(n, m)
    BY <1>4, <2>1, <2>7, ParsesDescs DEF g
  <2>9. ParseSaplingDescs(d, locked + 1 + 2) = Parts2(n, m)
    BY <1>19, <2>7, <2>8, Zenon
  <2>10. ~(locked + 1 >= Len(d)) /\ ~(locked + 1 + 2 > Len(d)) /\ d[locked + 1 + 1] # 0
    <3>1. ~(Len(a3) >= Len(d)) /\ ~(Len(a3) + 2 > Len(d))
      BY <1>15, <1>17, <2>4
    <3>2. d[Len(a3) + 1] # 0
      BY <2>6
    <3>. QED  BY <1>19, <3>1, <3>2
  <2>11. ParseSaplingTx(d) = Parts2(n, m)
    BY <1>18, <1>19, <2>9, <2>10
  <2>. QED  BY <1>21, <2>11 DEF d, n, m
<1>. QED  BY <1>20, <1>21

----------------------------------------------------------------------------
(* What a reader makes of a transaction in a compact stream.               *)

\* A payload laid out.
LEMMA PayloadIs ==
    ASSUME NEW tx \in Notations, NEW plus \in BOOLEAN
    PROVE  CompactPayload(tx, plus)
             = Cat(<<CompactTagOf(plus)>>, Cat(WriteCompactSize(Len(tx.nullifiers)),
                 Cat(WriteCompactSize(Len(tx.outputs)), Cat(tx.nullifiers,
                   FlattenSeq(OutputsKept(tx, plus))))))
<1>. DEFINE t  == <<CompactTagOf(plus)>>
            k1 == WriteCompactSize(Len(tx.nullifiers))
            k2 == WriteCompactSize(Len(tx.outputs))
            z1 == tx.nullifiers
            z2 == FlattenSeq(OutputsKept(tx, plus))
            u  == Cat(z1, z2)
<1>1. t \in Seq(Nat)
  BY DEF CompactTagOf, CompactTag, CompactPlusTag
<1>2. k1 \in Seq(Nat) /\ k2 \in Seq(Nat)
  <2>1. Len(tx.nullifiers) \in Nat /\ Len(tx.outputs) \in Nat
    BY DEF Notations
  <2>. QED  BY <2>1, WriteCompactSizeType
<1>3. z1 \in Seq(Nat) /\ z2 \in Seq(Nat)
  <2>1. z1 \in Seq(Nat)
    BY DEF Notations
  <2>2. z2 \in Seq(Nat)
    BY OutputsKeptType, FlattenType
  <2>. QED  BY <2>1, <2>2
<1>4. CompactPayload(tx, plus) = Cat(Cat(Cat(t, Cat(k1, k2)), z1), z2)
  BY Zenon DEF CompactPayload, Counts, Cat
<1>. HIDE DEF t, k1, k2, z1, z2
<1>5. u \in Seq(Nat)
  BY <1>3, CatType
<1>6. Cat(t, Cat(k1, k2)) \in Seq(Nat)
  <2>1. Cat(k1, k2) \in Seq(Nat)
    BY <1>2, CatType
  <2>. QED  BY <1>1, <2>1, CatType
<1>7. Cat(Cat(Cat(t, Cat(k1, k2)), z1), z2) = Cat(Cat(t, Cat(k1, k2)), u)
  <2>. DEFINE v == Cat(t, Cat(k1, k2))
  <2>. HIDE DEF v
  <2>1. v \in Seq(Nat)
    BY <1>6 DEF v
  <2>2. Cat(Cat(v, z1), z2) = Cat(v, Cat(z1, z2))
    BY <1>3, <2>1, CatAssociative
  <2>. QED  BY <2>2 DEF v
<1>. HIDE DEF u
<1>8. Cat(t, Cat(k1, Cat(k2, u))) = Cat(Cat(t, Cat(k1, k2)), u)
  BY <1>1, <1>2, <1>5, CatPast
<1>9. CompactPayload(tx, plus) = Cat(t, Cat(k1, Cat(k2, Cat(z1, z2))))
  BY <1>4, <1>7, <1>8, Zenon DEF u
<1>. QED  BY <1>9 DEF t, k1, k2, z1, z2

\* What is in the payload is what is read from it.
LEMMA ReadsPayload ==
    ASSUME NEW tx \in Notations, NEW plus \in BOOLEAN,
           Len(tx.nullifiers) <= U32Max, Len(tx.outputs) <= U32Max
    PROVE  ReadTx(CompactPayload(tx, plus))
             = [nullifiers |-> tx.nullifiers, outputs |-> OutputsKept(tx, plus)]
<1>. DEFINE d  == CompactPayload(tx, plus)
            n  == Len(tx.nullifiers)
            m  == Len(tx.outputs)
            t  == <<CompactTagOf(plus)>>
            k1 == WriteCompactSize(n)
            k2 == WriteCompactSize(m)
            z1 == tx.nullifiers
            os == OutputsKept(tx, plus)
            z2 == FlattenSeq(os)
            z  == IF plus THEN 3 ELSE 5
            u3 == Cat(z1, z2)
            u2 == Cat(k2, u3)
            a2 == Cat(t, k1)
            a3 == Cat(a2, k2)
            a4 == Cat(a3, z1)
<1>1. t \in Seq(Nat)
  BY DEF CompactTagOf, CompactTag, CompactPlusTag
<1>2. n \in Nat /\ m \in Nat /\ z1 \in Seq(Nat) /\ z \in Nat
  BY DEF Notations
<1>3. k1 \in Seq(Nat) /\ k2 \in Seq(Nat)
  BY <1>2, WriteCompactSizeType
<1>4. os \in Seq(Seq(Nat)) /\ Len(os) = m /\ \A i \in 1..m : Len(os[i]) = z
  BY OutputsKeptType
<1>5. z2 \in Seq(Nat)
  BY <1>4, FlattenType
<1>6. d = Cat(t, Cat(k1, u2))
  BY PayloadIs
<1>7. Len(t) = 1 /\ t[1] = CompactTagOf(plus)
  OBVIOUS
<1>8. Len(z1) = n
  OBVIOUS
<1>20. n <= U32Max /\ m <= U32Max
  OBVIOUS
<1>. HIDE DEF d, n, m, t, k1, k2, z1, os, z2, z
<1>9. u3 \in Seq(Nat)
  BY <1>2, <1>5, CatType
<1>10. u2 \in Seq(Nat)
  <2>. HIDE DEF u3
  <2>. QED  BY <1>3, <1>9, CatType
<1>11. a2 \in Seq(Nat) /\ Len(a2) = Len(t) + Len(k1)
  BY <1>1, <1>3, CatType
<1>12. d = Cat(a2, Cat(k2, u3))
  <2>. HIDE DEF u2
  <2>1. Cat(Cat(t, k1), u2) = Cat(t, Cat(k1, u2))
    BY <1>1, <1>3, <1>10, CatAssociative
  <2>. QED  BY <1>6, <2>1, Zenon DEF u2
<1>. HIDE DEF a2
<1>13. a3 \in Seq(Nat) /\ Len(a3) = Len(a2) + Len(k2)
  <2>1. a2 \in Seq(Nat)
    BY <1>11
  <2>. QED  BY <1>3, <2>1, CatType
<1>14. d = Cat(a3, Cat(z1, z2))
  <2>1. a2 \in Seq(Nat)
    BY <1>11
  <2>. HIDE DEF u3
  <2>2. Cat(Cat(a2, k2), u3) = Cat(a2, Cat(k2, u3))
    BY <1>3, <1>9, <2>1, CatAssociative
  <2>. QED  BY <1>12, <2>2, Zenon DEF u3
<1>. HIDE DEF a3
<1>15. a4 \in Seq(Nat) /\ Len(a4) = Len(a3) + Len(z1)
  <2>1. a3 \in Seq(Nat)
    BY <1>13
  <2>. QED  BY <1>2, <2>1, CatType
<1>16. d = Cat(a4, Cat(z2, <<>>)) /\ Len(d) = Len(a4) + Len(z2)
  <2>1. a3 \in Seq(Nat) /\ a4 \in Seq(Nat)
    BY <1>13, <1>15
  <2>2. Cat(Cat(a3, z1), z2) = Cat(a3, Cat(z1, z2))
    BY <1>2, <1>5, <2>1, CatAssociative
  <2>3. Cat(z2, <<>>) = z2
    BY <1>5, CatEmpty
  <2>4. d = Cat(a4, z2)
    BY <1>14, <2>2, Zenon
  <2>. HIDE DEF a4
  <2>5. Len(Cat(a4, z2)) = Len(a4) + Len(z2)
    BY <1>5, <2>1, CatType
  <2>. QED  BY <2>3, <2>4, <2>5, Zenon
<1>. HIDE DEF a4, u2, u3
<1>17. Len(a2) \in Nat /\ Len(a3) \in Nat /\ Len(a4) \in Nat /\ Len(z2) \in Nat
  BY <1>5, <1>11, <1>13, <1>15
<1>18. Len(z2) = m * z
  <2>1. \A i \in 1..Len(os) : Len(os[i]) = z
    BY <1>4
  <2>2. Len(z2) = Len(os) * z
    BY <1>2, <1>4, <2>1, FlattenSized DEF z2
  <2>. QED  BY <1>4, <2>2
<1>19. \A i \in 1..n : d[Len(a3) + i] = z1[i]
  <2>1. a3 \in Seq(Nat)
    BY <1>13
  <2>2. \A i \in 1..Len(z1) : Cat(a3, Cat(z1, z2))[Len(a3) + i] = z1[i]
    BY <1>2, <1>5, <2>1, CatAt
  <2>. QED  BY <1>8, <1>14, <2>2
<1>21. ASSUME NEW i \in 1..m, NEW j \in 1..z
       PROVE  d[Len(a4) + (i - 1) * z + j] = os[i][j]
  <2>1. \A l \in 1..Len(os) : Len(os[l]) = z
    BY <1>4
  <2>2. \A x, y \in Seq(Nat), ss \in Seq(Seq(Nat)) :
          (\A l \in 1..Len(ss) : Len(ss[l]) = z)
            => \A l \in 1..Len(ss), k \in 1..z :
                 Cat(x, Cat(FlattenSeq(ss), y))[Len(x) + (l - 1) * z + k] = ss[l][k]
    BY <1>2, FieldsAt, Zenon
  <2>3. a4 \in Seq(Nat) /\ <<>> \in Seq(Nat) /\ os \in Seq(Seq(Nat)) /\ i \in 1..Len(os)
    BY <1>4, <1>15
  <2>. DEFINE y == Cat(a4, Cat(z2, <<>>))
              q == Len(a4) + (i - 1) * z + j
  <2>4. y[q] = os[i][j]
    BY <2>1, <2>2, <2>3, Zenon DEF z2
  <2>5. d = y
    BY <1>16
  <2>. HIDE DEF y, q
  <2>6. d[q] = os[i][j]
    BY <2>4, <2>5
  <2>. QED  BY <2>6 DEF q
<1>22. ReadCompactSize(d, 1) = [n |-> n, next |-> Len(a2)]
  <2>1. ReadCompactSize(Cat(t, Cat(k1, u2)), Len(t)) = [n |-> n, next |-> Len(t) + Len(k1)]
    BY <1>1, <1>2, <1>10, <1>20, ReadsCount DEF k1
  <2>. QED  BY <1>6, <1>7, <1>11, <2>1, Zenon
<1>23. ReadCompactSize(d, Len(a2)) = [n |-> m, next |-> Len(a3)]
  <2>1. a2 \in Seq(Nat)
    BY <1>11
  <2>2. ReadCompactSize(Cat(a2, Cat(k2, u3)), Len(a2)) = [n |-> m, next |-> Len(a2) + Len(k2)]
    BY <1>2, <1>9, <1>20, <2>1, ReadsCount DEF k2
  <2>3. Len(a3) = Len(a2) + Len(k2)
    BY <1>13
  <2>. QED  BY <1>12, <2>2, <2>3, Zenon
<1>24. d[1] = CompactTagOf(plus)
  <2>1. \A i \in 1..Len(t) : Cat(t, Cat(k1, u2))[i] = t[i]
    <3>. DEFINE y == Cat(k1, u2)
    <3>1. y \in Seq(Nat)
      BY <1>3, <1>10, CatType
    <3>. HIDE DEF y
    <3>2. \A i \in 1..Len(t) : Cat(t, y)[i] = t[i]
      BY <1>1, <3>1, CatFront
    <3>. QED  BY <3>2 DEF y
  <2>2. 1 \in 1..Len(t)
    BY <1>7
  <2>. QED  BY <1>6, <1>7, <2>1, <2>2
<1>. DEFINE r1   == ReadCompactSize(d, 1)
            r2   == ReadCompactSize(d, r1.next)
            size == IF d[1] = CompactTag THEN 5 ELSE 3
            from == r2.next + r1.n
            part(i) == Cut(d, from + (i - 1) * size, from + i * size)
<1>25. ReadTx(d) = [nullifiers |-> Cut(d, r2.next, from), outputs |-> [i \in 1..r2.n |-> part(i)]]
  BY Zenon DEF ReadTx
<1>26. r1.n = n /\ r1.next = Len(a2)
  BY <1>22
<1>. HIDE DEF r1
<1>27. r2.n = m /\ r2.next = Len(a3)
  BY <1>23, <1>26
<1>. HIDE DEF r2
<1>28. from = Len(a4) /\ Len(a4) = Len(a3) + n
  BY <1>2, <1>8, <1>15, <1>17, <1>26, <1>27
<1>29. size = z
  BY <1>24 DEF CompactTagOf, CompactTag, CompactPlusTag, z
<1>. HIDE DEF size, from
<1>30. Cut(d, r2.next, from) = z1
  <2>. DEFINE b == Len(a3)
              l == Len(d)
  <2>1. b \in Nat /\ l \in Nat /\ b + n <= l
    BY <1>2, <1>16, <1>17, <1>28
  <2>2. Cut(d, b, b + n) = [i \in 1..((b + n) - b) |-> IF b + i <= l THEN d[b + i] ELSE Err]
    BY DEF Cut
  <2>3. \A i \in 1..n : d[b + i] = z1[i]
    BY <1>19
  <2>. HIDE DEF b, l
  <2>4. (b + n) - b = n
    BY <1>2, <2>1
  <2>5. ASSUME NEW i \in 1..n PROVE (IF b + i <= l THEN d[b + i] ELSE Err) = z1[i]
    <3>1. b + i <= l
      BY <1>2, <2>1
    <3>. QED  BY <2>3, <3>1
  <2>6. z1 = [i \in 1..n |-> z1[i]]
    BY <1>2, <1>8
  <2>7. Cut(d, b, b + n) = z1
    BY <2>2, <2>4, <2>5, <2>6
  <2>. QED  BY <1>27, <1>28, <2>7 DEF b
<1>31. ASSUME NEW i \in 1..m PROVE part(i) = os[i]
  <2>. DEFINE x == (i - 1) * z
              b == Len(a4) + x
              l == Len(d)
              e == from + i * size
  <2>1. x \in Nat /\ i - 1 \in Nat
    <3>1. i - 1 \in Nat
      BY <1>2
    <3>. QED  BY <1>2, <3>1, Product
  <2>2. i * z = x + z
    <3>1. i \in Int /\ z \in Int
      BY <1>2
    <3>. QED  BY <3>1
  <2>3. m * z = x + z + (m - i) * z /\ (m - i) * z \in Nat
    <3>1. m - i \in Nat
      BY <1>2
    <3>2. (m - i) * z \in Nat
      BY <1>2, <3>1, Product
    <3>3. i \in Int /\ m \in Int /\ z \in Int
      BY <1>2
    <3>. QED  BY <3>2, <3>3
  <2>. DEFINE y == (m - i) * z
  <2>4. y \in Nat /\ l = Len(a4) + (x + z + y)
    BY <1>16, <1>18, <2>3
  <2>5. part(i) = [k \in 1..(e - (from + (i - 1) * size)) |->
                     IF (from + (i - 1) * size) + k <= l THEN d[(from + (i - 1) * size) + k]
                     ELSE Err]
    BY DEF Cut
  <2>6. from + (i - 1) * size = b /\ e = b + z
    <3>1. e = Len(a4) + i * z
      BY <1>28, <1>29
    <3>2. from + (i - 1) * size = Len(a4) + (i - 1) * z
      BY <1>28, <1>29
    <3>3. from + (i - 1) * size = b
      BY <3>2
    <3>. HIDE DEF x, e
    <3>4. e = b + z
      BY <1>2, <1>17, <2>1, <2>2, <3>1
    <3>. QED  BY <3>3, <3>4
  <2>7. \A k \in 1..z : d[b + k] = os[i][k]
    BY <1>21
  <2>. HIDE DEF x, y, l, e
  <2>8. b \in Nat /\ (b + z) - b = z /\ b + z <= l
    BY <1>2, <1>17, <2>1, <2>4
  <2>. HIDE DEF b, part
  <2>9. part(i) = [k \in 1..z |-> IF b + k <= l THEN d[b + k] ELSE Err]
    BY <2>5, <2>6, <2>8
  <2>10. ASSUME NEW k \in 1..z PROVE (IF b + k <= l THEN d[b + k] ELSE Err) = os[i][k]
    <3>1. l \in Nat
      BY <1>2, <1>17, <2>1, <2>4
    <3>2. b + k <= l
      BY <1>2, <2>8, <3>1
    <3>. QED  BY <2>7, <3>2
  <2>11. os[i] = [k \in 1..z |-> os[i][k]]
    <3>1. os[i] \in Seq(Nat) /\ Len(os[i]) = z
      BY <1>4
    <3>. QED  BY <3>1
  <2>. QED  BY <2>9, <2>10, <2>11
<1>32. os = [i \in 1..m |-> os[i]]
  BY <1>4
<1>33. [i \in 1..r2.n |-> part(i)] = os
  <2>. HIDE DEF part
  <2>. QED  BY <1>27, <1>31, <1>32
<1>. HIDE DEF part
<1>34. ReadTx(d) = [nullifiers |-> z1, outputs |-> os]
  BY <1>25, <1>30, <1>33, Zenon
<1>. QED  BY <1>34 DEF d, z1, os

LEMMA CatFiveLong ==
    ASSUME NEW S, NEW a \in Seq(S), NEW b \in Seq(S), NEW c \in Seq(S),
           NEW d \in Seq(S), NEW e \in Seq(S)
    PROVE  /\ Cat(a, Cat(b, Cat(c, Cat(d, e)))) \in Seq(S)
           /\ Len(Cat(a, Cat(b, Cat(c, Cat(d, e))))) = Len(a) + Len(b) + Len(c) + Len(d) + Len(e)
<1>. DEFINE x == Cat(c, Cat(d, e))
<1>1. x \in Seq(S) /\ Len(x) = Len(c) + Len(d) + Len(e)
  BY CatAt
<1>. HIDE DEF x
<1>2. Cat(a, Cat(b, x)) \in Seq(S) /\ Len(Cat(a, Cat(b, x))) = Len(a) + Len(b) + Len(x)
  <2>1. x \in Seq(S)
    BY <1>1
  <2>. QED  BY <2>1, CatAt
<1>3. Len(a) \in Nat /\ Len(b) \in Nat /\ Len(c) \in Nat /\ Len(d) \in Nat /\ Len(e) \in Nat
  OBVIOUS
<1>4. Len(Cat(a, Cat(b, x))) = Len(a) + Len(b) + Len(c) + Len(d) + Len(e)
  <2>. DEFINE l == Len(Cat(a, Cat(b, x)))
              k == Len(x)
  <2>1. l = Len(a) + Len(b) + k /\ k = Len(c) + Len(d) + Len(e)
    BY <1>1, <1>2
  <2>. HIDE DEF l, k
  <2>2. l = Len(a) + Len(b) + Len(c) + Len(d) + Len(e)
    BY <1>3, <2>1
  <2>. QED  BY <2>2 DEF l
<1>. QED  BY <1>2, <1>4 DEF x

\* What a shielded transaction comes to is shorter than its descriptions.
LEMMA PayloadShort ==
    ASSUME NEW tx \in Transaction, Sapling(tx), Len(Behind(tx)) <= U32Max,
           NEW plus \in BOOLEAN, NEW p \in Notations,
           Len(p.nullifiers) = tx.spends, Len(p.outputs) = tx.outputs
    PROVE  CompactPayload(p, plus) \in Short
<1>. DEFINE n  == tx.spends
            m  == tx.outputs
            t  == <<CompactTagOf(plus)>>
            w  == <<1, 0>>
            o  == <<0>>
            k1 == WriteCompactSize(n)
            k2 == WriteCompactSize(m)
            s1 == FlattenSeq(Spends(n))
            s2 == FlattenSeq(Outputs(m))
            z1 == p.nullifiers
            os == OutputsKept(p, plus)
            z2 == FlattenSeq(os)
            z  == IF plus THEN 3 ELSE 5
            b  == Cat(k1, Cat(s1, Cat(k2, Cat(s2, o))))
            c  == Cat(t, Cat(k1, Cat(k2, Cat(z1, z2))))
<1>1. Behind(tx) = Cat(w, b) /\ n \in Nat /\ n <= U32Max /\ m \in Nat /\ m <= U32Max
  BY BehindLaid
<1>2. t \in Seq(Nat) /\ w \in Seq(Nat) /\ o \in Seq(Nat)
  BY DEF CompactTagOf, CompactTag, CompactPlusTag
<1>3. Len(t) = 1 /\ Len(w) = 2 /\ Len(o) = 1
  OBVIOUS
<1>4. k1 \in Seq(Nat) /\ k2 \in Seq(Nat)
  <2>. HIDE DEF n, m
  <2>. QED  BY <1>1, WriteCompactSizeType
<1>5. /\ Spends(n) \in Seq(Seq(Nat)) /\ Len(Spends(n)) = n
      /\ Outputs(m) \in Seq(Seq(Nat)) /\ Len(Outputs(m)) = m
      /\ \A i \in 1..n : Spends(n)[i] = SpendDesc(i) /\ Len(SpendDesc(i)) = SpendDescSize
      /\ \A i \in 1..m : Outputs(m)[i] = OutputDesc(i) /\ Len(OutputDesc(i)) = OutputDescSize
  <2>. HIDE DEF n, m
  <2>. QED  BY <1>1, DescsType
<1>6. s1 \in Seq(Nat) /\ s2 \in Seq(Nat)
  BY <1>5, FlattenType
<1>7. Len(s1) = n * 6 /\ Len(s2) = m * 6
  <2>. HIDE DEF n, m
  <2>1. \A i \in 1..Len(Spends(n)) : Len(Spends(n)[i]) = 6
    BY <1>5 DEF SpendDescSize
  <2>2. \A i \in 1..Len(Outputs(m)) : Len(Outputs(m)[i]) = 6
    BY <1>5 DEF OutputDescSize
  <2>3. Len(s1) = Len(Spends(n)) * 6
    BY <1>5, <2>1, FlattenSized
  <2>4. Len(s2) = Len(Outputs(m)) * 6
    BY <1>5, <2>2, FlattenSized
  <2>. QED  BY <1>5, <2>3, <2>4
<1>8. z1 \in Seq(Nat) /\ Len(z1) = n
  BY DEF Notations
<1>9. os \in Seq(Seq(Nat)) /\ Len(os) = m /\ \A i \in 1..m : Len(os[i]) = z
  BY OutputsKeptType
<1>10. z \in Nat /\ z <= 5
  OBVIOUS
<1>11. z2 \in Seq(Nat)
  BY <1>9, FlattenType
<1>12. CompactPayload(p, plus) = c
  BY PayloadIs
<1>. HIDE DEF n, m, t, w, o, k1, k2, s1, s2, z1, os, z2, z
<1>13. Len(z2) = m * z
  <2>1. \A i \in 1..Len(os) : Len(os[i]) = z
    BY <1>9
  <2>2. Len(z2) = Len(os) * z
    BY <1>9, <1>10, <2>1, FlattenSized DEF z2
  <2>. QED  BY <1>9, <2>2
<1>14. b \in Seq(Nat) /\ Len(b) = Len(k1) + Len(s1) + Len(k2) + Len(s2) + Len(o)
  BY <1>2, <1>4, <1>6, CatFiveLong
<1>15. c \in Seq(Nat) /\ Len(c) = Len(t) + Len(k1) + Len(k2) + Len(z1) + Len(z2)
  <2>1. z1 \in Seq(Nat)
    BY <1>8
  <2>. QED  BY <1>2, <1>4, <1>11, <2>1, CatFiveLong
<1>. HIDE DEF b, c
<1>16. Len(Behind(tx)) = Len(w) + Len(b)
  <2>1. b \in Seq(Nat)
    BY <1>14
  <2>2. Len(Cat(w, b)) = Len(w) + Len(b)
    BY <1>2, <2>1, CatType
  <2>. QED  BY <1>1, <2>2
<1>17. Len(k1) \in Nat /\ Len(k2) \in Nat
  BY <1>4
<1>18. m * z \in Nat /\ m * z <= m * 6 /\ n <= n * 6
  <2>1. m \in Nat /\ n \in Nat
    BY <1>1
  <2>2. m * z \in Nat /\ m * (6 - z) \in Nat
    <3>1. 6 - z \in Nat
      BY <1>10
    <3>. QED  BY <1>10, <2>1, <3>1, Product
  <2>3. m * 6 = m * z + m * (6 - z)
    BY <1>10, <2>1
  <2>. DEFINE x == m * z
              y == m * (6 - z)
  <2>4. x \in Nat /\ y \in Nat /\ m * 6 = x + y
    BY <2>2, <2>3
  <2>. HIDE DEF x, y
  <2>5. x \in Nat /\ x <= m * 6 /\ n <= n * 6
    BY <2>1, <2>4
  <2>. QED  BY <2>5 DEF x
<1>19. Len(c) <= U32Max
  <2>. DEFINE x == m * z
              y == m * 6
              u == Len(b)
              v == Len(Behind(tx))
              l == Len(c)
  <2>1. x \in Nat /\ x <= y /\ n <= n * 6 /\ n \in Nat /\ y \in Nat
    BY <1>1, <1>18
  <2>2. u = Len(k1) + n * 6 + Len(k2) + y + 1 /\ v = 2 + u /\ v <= U32Max /\ U32Max \in Nat
    BY <1>3, <1>7, <1>14, <1>16, U32Large
  <2>3. l = 1 + Len(k1) + Len(k2) + n + x
    BY <1>3, <1>8, <1>13, <1>15
  <2>. HIDE DEF x, y, u, v, l
  <2>4. l <= U32Max
    BY <1>17, <2>1, <2>2, <2>3
  <2>. QED  BY <2>4 DEF l
<1>. QED  BY <1>12, <1>15, <1>19 DEF Short

\* What of an output goes into a packet is what a wallet expects there.
NoteOutput(i, plus) == IF plus THEN SubSeq(OutputDesc(i), 2, 4) ELSE SubSeq(OutputDesc(i), 1, 5)

LEMMA KeptIs ==
    ASSUME NEW i \in Nat, NEW plus \in BOOLEAN
    PROVE  OutputKept([k \in 1..OutputFields |-> OutputDesc(i)[k]], plus) = NoteOutput(i, plus)
<1>. DEFINE e   == OutputDesc(i)
            out == [k \in 1..5 |-> e[k]]
<1>1. SubSeq(out, 2, 4) = [k \in 1..3 |-> out[k + 1]]
  <2>. HIDE DEF out
  <2>. QED  OBVIOUS
<1>2. SubSeq(e, 2, 4) = [k \in 1..3 |-> e[k + 1]] /\ SubSeq(e, 1, 5) = [k \in 1..5 |-> e[k]]
  <2>. HIDE DEF e
  <2>. QED  OBVIOUS
<1>3. \A k \in 1..3 : out[k + 1] = e[k + 1]
  <2>. HIDE DEF e
  <2>. QED  OBVIOUS
<1>4. SubSeq(out, 2, 4) = SubSeq(e, 2, 4)
  <2>. HIDE DEF e, out
  <2>. QED  BY <1>1, <1>2, <1>3
<1>5. [k \in 1..OutputFields |-> OutputDesc(i)[k]] = out
  BY DEF OutputFields
<1>. HIDE DEF out, e
<1>6. SubSeq(e, 1, 5) = out
  BY <1>2 DEF out
<1>. QED  BY <1>4, <1>5, <1>6 DEF OutputKept, NoteOutput, e

\* The transactions that are kept are those with Sapling data.
LEMMA KeptIffSapling ==
    ASSUME NEW tx \in Transaction, Len(RawTx(tx)) <= U32Max
    PROVE  IsShielded(RawTx(tx)) <=> Sapling(tx)
<1>1. ParseSaplingTx(RawTx(tx))
        = IF Sapling(tx) THEN Parts2(tx.spends, tx.outputs) ELSE NotShielded
  BY RawParsed
<1>2. Parts2(tx.spends, tx.outputs).shielded /\ ~NotShielded.shielded
  BY DEF Parts2, NotShielded
<1>3. ASSUME Sapling(tx) PROVE IsPrefix(SaplingHeader, RawTx(tx))
  <2>. DEFINE h == <<tx.version, 0, 0, 0>>
              t == Cat(WriteCompactSize(Len(tx.vin)), Cat(FlattenSeq(Vins(tx.vin)),
                     Cat(WriteCompactSize(Len(tx.vout)), Cat(FlattenSeq(Vouts(tx.vout)),
                     Cat(<<0>>, Behind(tx))))))
  <2>1. RawTx(tx) = Cat(h, t)
    BY RawLaid
  <2>2. h = SaplingHeader
    <3>1. tx.version = TxVersion
      BY <1>3 DEF Transaction
    <3>. QED  BY <3>1 DEF SaplingHeader
  <2>3. h \in Seq(Nat) /\ Len(h) = 4
    <3>1. tx.version \in Nat
      BY BaseNat DEF Transaction
    <3>. QED  BY <3>1
  <2>4. t \in Seq(Nat)
    <3>1. tx.vin \in Seq(Nat) /\ tx.vout \in Seq(Nat)
      BY DEF Transaction
    <3>2. WriteCompactSize(Len(tx.vin)) \in Seq(Nat) /\ WriteCompactSize(Len(tx.vout)) \in Seq(Nat)
      <4>1. Len(tx.vin) \in Nat /\ Len(tx.vout) \in Nat
        BY <3>1
      <4>. QED  BY <4>1, WriteCompactSizeType
    <3>3. FlattenSeq(Vins(tx.vin)) \in Seq(Nat) /\ FlattenSeq(Vouts(tx.vout)) \in Seq(Nat)
      BY <3>1, ScriptsType, FlattenType
    <3>4. Cat(<<0>>, Behind(tx)) \in Seq(Nat)
      <4>1. <<0>> \in Seq(Nat) /\ Behind(tx) \in Seq(Nat)
        BY BehindType
      <4>. QED  BY <4>1, CatType
    <3>. QED  BY <3>2, <3>3, <3>4, CatFiveLong
  <2>. HIDE DEF h, t
  <2>5. SubSeq(Cat(h, t), 1, Len(h)) = h
    <3>1. <<>> \in Seq(Nat)
      OBVIOUS
    <3>. DEFINE e == <<>>
    <3>2. SubSeq(Cat(e, Cat(h, t)), Len(e) + 1, Len(e) + Len(h)) = h
      BY <2>3, <2>4, <3>1, Middle
    <3>3. Cat(e, Cat(h, t)) = Cat(h, t)
      <4>1. Cat(h, t) \in Seq(Nat)
        BY <2>3, <2>4, CatType
      <4>. QED  BY <4>1, CatEmpty
    <3>4. Len(e) + 1 = 1 /\ Len(e) + Len(h) = Len(h)
      BY <2>3
    <3>. QED  BY <3>2, <3>3, <3>4, Zenon
  <2>6. Len(h) <= Len(Cat(h, t)) /\ SubSeq(h, 1, Len(h)) = h
    <3>1. h \in Seq(Nat)
      BY <2>3
    <3>2. Len(Cat(h, t)) = Len(h) + Len(t)
      BY <2>4, <3>1, CatType
    <3>3. Len(h) \in Nat /\ Len(t) \in Nat
      BY <2>4, <3>1
    <3>4. SubSeq(h, 1, Len(h)) = h
      BY <3>1
    <3>. QED  BY <3>2, <3>3, <3>4
  <2>7. IsPrefix(h, Cat(h, t))
    BY <2>5, <2>6, Zenon DEF IsPrefix
  <2>. QED  BY <2>1, <2>2, <2>7, Zenon
<1>4. CASE Sapling(tx)
  BY <1>1, <1>2, <1>3, <1>4 DEF IsShielded
<1>5. CASE ~Sapling(tx)
  BY <1>1, <1>2, <1>5 DEF IsShielded
<1>. QED  BY <1>4, <1>5

\* A wallet reads its nullifiers and outputs from its packet, for which it is
\* never too long.
LEMMA ReadsNotes ==
    ASSUME NEW tx \in Transaction, Len(RawTx(tx)) <= U32Max, Sapling(tx), NEW plus \in BOOLEAN
    PROVE  LET x == CompactPayload(ParseSaplingTx(RawTx(tx)), plus)
           IN  x \in Short /\ x[1] # BlockTag /\ ReadTx(x) = Notes(tx, plus)
<1>. DEFINE n == tx.spends
            m == tx.outputs
            p == Parts2(n, m)
<1>1. ParseSaplingTx(RawTx(tx)) = p
  BY RawParsed
<1>2. p \in Notations
  <2>1. RawTx(tx) \in Seq(Nat)
    BY RawTxType
  <2>2. ParseSaplingTx(RawTx(tx)) \in Notations
    BY <2>1, Parsed
  <2>. QED  BY <1>1, <2>2
<1>3. Len(Behind(tx)) <= U32Max
  BY RawLaid
<1>4. n \in Nat /\ n <= U32Max /\ m \in Nat /\ m <= U32Max
  BY <1>3, BehindLaid
<1>5. /\ p.nullifiers = [i \in 1..n |-> SpendDesc(i)[3]]
      /\ p.outputs = [i \in 1..m |-> [k \in 1..OutputFields |-> OutputDesc(i)[k]]]
  BY DEF Parts2, NullifierAt
<1>6. Len(p.nullifiers) = n /\ Len(p.outputs) = m
  <2>. HIDE DEF p, n, m
  <2>. QED  BY <1>4, <1>5
<1>. HIDE DEF p, n, m
<1>7. CompactPayload(p, plus) \in Short
  BY <1>2, <1>3, <1>6, PayloadShort DEF n, m
<1>8. CompactPayload(p, plus)[1] # BlockTag
  <2>. DEFINE t == <<CompactTagOf(plus)>>
              u == Cat(WriteCompactSize(Len(p.nullifiers)),
                     Cat(WriteCompactSize(Len(p.outputs)), Cat(p.nullifiers,
                       FlattenSeq(OutputsKept(p, plus)))))
  <2>1. CompactPayload(p, plus) = Cat(t, u)
    BY <1>2, PayloadIs
  <2>2. t \in Seq(Nat) /\ t[1] # BlockTag /\ Len(t) = 1
    BY DEF CompactTagOf, CompactTag, CompactPlusTag, BlockTag
  <2>3. u \in Seq(Nat)
    <3>1. p.nullifiers \in Seq(Nat)
      BY <1>2 DEF Notations
    <3>2. FlattenSeq(OutputsKept(p, plus)) \in Seq(Nat)
      BY <1>2, OutputsKeptType, FlattenType
    <3>3. WriteCompactSize(n) \in Seq(Nat) /\ WriteCompactSize(m) \in Seq(Nat)
      BY <1>4, WriteCompactSizeType
    <3>. DEFINE y == Cat(p.nullifiers, FlattenSeq(OutputsKept(p, plus)))
    <3>4. y \in Seq(Nat)
      BY <3>1, <3>2, CatType
    <3>. HIDE DEF y
    <3>5. Cat(WriteCompactSize(n), Cat(WriteCompactSize(m), y)) \in Seq(Nat)
      BY <3>3, <3>4, CatAt
    <3>. QED  BY <1>6, <3>5, Zenon DEF y
  <2>. HIDE DEF t, u
  <2>4. \A i \in 1..Len(t) : Cat(t, u)[i] = t[i]
    <3>1. t \in Seq(Nat)
      BY <2>2
    <3>. QED  BY <2>3, <3>1, CatFront
  <2>5. Cat(t, u)[1] = t[1]
    BY <2>2, <2>4
  <2>. QED  BY <2>1, <2>2, <2>5
<1>9. ReadTx(CompactPayload(p, plus))
        = [nullifiers |-> p.nullifiers, outputs |-> OutputsKept(p, plus)]
  BY <1>2, <1>4, <1>6, ReadsPayload
<1>10. OutputsKept(p, plus) = [i \in 1..m |-> NoteOutput(i, plus)]
  <2>1. ASSUME NEW i \in 1..m PROVE OutputKept(p.outputs[i], plus) = NoteOutput(i, plus)
    <3>1. i \in Nat
      BY <1>4
    <3>2. OutputKept([k \in 1..OutputFields |-> OutputDesc(i)[k]], plus) = NoteOutput(i, plus)
      BY <3>1, KeptIs
    <3>3. p.outputs[i] = [k \in 1..OutputFields |-> OutputDesc(i)[k]]
      BY <1>5
    <3>. QED  BY <3>2, <3>3, Zenon
  <2>. QED  BY <1>6, <2>1 DEF OutputsKept
<1>11. Notes(tx, plus) = [ nullifiers |-> [i \in 1..n |-> SpendDesc(i)[3]],
                           outputs    |-> [i \in 1..m |-> NoteOutput(i, plus)] ]
  BY DEF Notes, NoteOutput, n, m
<1>12. ReadTx(CompactPayload(p, plus)) = Notes(tx, plus)
  BY <1>5, <1>9, <1>10, <1>11, Zenon
<1>. QED  BY <1>1, <1>7, <1>8, <1>12, Zenon

----------------------------------------------------------------------------
(* What a reader makes of a compact stream.                                *)

Maps(f, S, T) == f \in [S -> Seq(T)]

LEMMA MappedJoins ==
    ASSUME NEW S, NEW T, NEW f, Maps(f, S, T)
    PROVE  \A s, t \in Seq(S) : Mapped(f, Cat(s, t)) = Cat(Mapped(f, s), Mapped(f, t))
<1>1. f \in [S -> Seq(T)]
  BY DEF Maps
<1>. QED  BY <1>1, MappedConcat

\* A function of each element of a concatenation, part by part.
LEMMA MappedFlatten ==
    ASSUME NEW S, NEW T, NEW f \in [S -> Seq(T)], NEW ss \in Seq(Seq(S))
    PROVE  Mapped(f, FlattenSeq(ss)) = FlattenSeq([i \in 1..Len(ss) |-> Mapped(f, ss[i])])
<1>0. \A s, t \in Seq(S) : Mapped(f, Cat(s, t)) = Cat(Mapped(f, s), Mapped(f, t))
  <2>1. Maps(f, S, T)
    BY DEF Maps
  <2>. QED  BY <2>1, MappedJoins
<1>. DEFINE n == Len(ss)
            F == [s \in Seq(S) |-> Mapped(f, s)]
            A == {i \in 0..n : Mapped(f, FlattenSeq(Prefix(ss, i))) = Mapped(F, Prefix(ss, i))}
<1>1. n \in Nat
  OBVIOUS
<1>2. F \in [Seq(S) -> Seq(T)] /\ \A s \in Seq(S) : F[s] = Mapped(f, s)
  <2>1. \A s \in Seq(S) : Mapped(f, s) \in Seq(T)
    BY MappedType
  <2>. QED  BY <2>1
<1>. HIDE DEF F
<1>3. 0 \in A
  <2>1. Prefix(ss, 0) = <<>>
    BY PrefixAll
  <2>2. Mapped(f, <<>>) = <<>> /\ Mapped(F, <<>>) = <<>>
    BY MappedEmpty
  <2>3. Mapped(f, FlattenSeq(Prefix(ss, 0))) = Mapped(F, Prefix(ss, 0))
    BY <2>1, <2>2, FlattenEmpty, Zenon
  <2>. QED  BY <1>1, <2>3
<1>4. ASSUME NEW i \in 1..n, i - 1 \in A PROVE i \in A
  <2>. DEFINE u == Prefix(ss, i - 1)
              x == ss[i]
              y == FlattenSeq(u)
  <2>1. Prefix(ss, i) = Append(u, x) /\ u \in Seq(Seq(S)) /\ x \in Seq(S)
    BY PrefixAppends
  <2>2. Mapped(f, y) = Mapped(F, u)
    BY <1>4
  <2>3. i \in 0..n
    BY <1>1
  <2>. HIDE DEF u, x
  <2>4. FlattenSeq(Append(u, x)) = Cat(y, x) /\ y \in Seq(S)
    BY <2>1, FlattenAppend, FlattenType
  <2>. HIDE DEF y
  <2>5. Mapped(f, Cat(y, x)) = Cat(Mapped(f, y), Mapped(f, x))
    <3>1. y \in Seq(S) /\ x \in Seq(S)
      BY <2>1, <2>4
    <3>. QED  BY <1>0, <3>1, Zenon
  <2>6. Mapped(F, Append(u, x)) = Cat(Mapped(F, u), F[x])
    <3>1. u \in Seq(Seq(S)) /\ x \in Seq(S)
      BY <2>1
    <3>2. F \in [Seq(S) -> Seq(T)]
      BY <1>2
    <3>. QED  BY <3>1, <3>2, MappedAppend, ZenonT(40)
  <2>7. F[x] = Mapped(f, x)
    BY <1>2, <2>1
  <2>8. Mapped(f, FlattenSeq(Prefix(ss, i))) = Mapped(F, Prefix(ss, i))
    BY <2>1, <2>2, <2>4, <2>5, <2>6, <2>7, Zenon
  <2>. QED  BY <2>3, <2>8
<1>5. n \in A
  <2>1. \A i \in 1..n : i - 1 \in A => i \in A
    BY <1>4
  <2>2. n \in 0..n
    BY <1>1
  <2>. HIDE DEF A, n
  <2>. QED  BY <1>1, <1>3, <2>1, <2>2, UpTo
<1>6. Mapped(f, FlattenSeq(ss)) = Mapped(F, ss)
  <2>1. Prefix(ss, n) = ss
    BY PrefixAll
  <2>2. Mapped(f, FlattenSeq(Prefix(ss, n))) = Mapped(F, Prefix(ss, n))
    BY <1>5
  <2>. QED  BY <2>1, <2>2, Zenon
<1>7. [i \in 1..Len(ss) |-> F[ss[i]]] = [i \in 1..Len(ss) |-> Mapped(f, ss[i])]
  <2>1. \A i \in 1..Len(ss) : ss[i] \in Seq(S)
    OBVIOUS
  <2>2. \A i \in 1..Len(ss) : F[ss[i]] = Mapped(f, ss[i])
    BY <1>2, <2>1
  <2>. QED  BY <2>2
<1>. QED  BY <1>6, <1>7, Zenon DEF Mapped

LEMMA MappedParts ==
    ASSUME NEW S, NEW T, NEW f, Maps(f, S, T)
    PROVE  \A ss \in Seq(Seq(S)) :
             Mapped(f, FlattenSeq(ss)) = FlattenSeq([i \in 1..Len(ss) |-> Mapped(f, ss[i])])
<1>1. f \in [S -> Seq(T)]
  BY DEF Maps
<1>. QED  BY <1>1, MappedFlatten

LEMMA FramedFlatten ==
    ASSUME NEW ss \in Seq(Seq(Seq(Nat)))
    PROVE  Framed(FlattenSeq(ss)) = FlattenSeq([i \in 1..Len(ss) |-> Framed(ss[i])])
<1>. DEFINE f == [x \in Seq(Nat) |-> Packet(x)]
<1>1. f \in [Seq(Nat) -> Seq(Nat)] /\ \A x \in Seq(Nat) : f[x] = Packet(x)
  <2>1. \A x \in Seq(Nat) : Packet(x) \in Seq(Nat)
    BY PacketType
  <2>. QED  BY <2>1
<1>. HIDE DEF f
<1>2. ASSUME NEW xs \in Seq(Seq(Nat)) PROVE Framed(xs) = Mapped(f, xs)
  <2>1. \A i \in 1..Len(xs) : xs[i] \in Seq(Nat)
    OBVIOUS
  <2>2. [i \in 1..Len(xs) |-> Packet(xs[i])] = [i \in 1..Len(xs) |-> f[xs[i]]]
    BY <1>1, <2>1
  <2>. QED  BY <2>2, Zenon DEF Framed, Concat, Mapped
<1>3. FlattenSeq(ss) \in Seq(Seq(Nat))
  BY FlattenType
<1>4. Mapped(f, FlattenSeq(ss)) = FlattenSeq([i \in 1..Len(ss) |-> Mapped(f, ss[i])])
  <2>1. f \in [Seq(Nat) -> Seq(Nat)]
    BY <1>1
  <2>. QED  BY <2>1, MappedFlatten
<1>5. [i \in 1..Len(ss) |-> Mapped(f, ss[i])] = [i \in 1..Len(ss) |-> Framed(ss[i])]
  <2>1. \A i \in 1..Len(ss) : ss[i] \in Seq(Seq(Nat))
    OBVIOUS
  <2>2. \A i \in 1..Len(ss) : Mapped(f, ss[i]) = Framed(ss[i])
    BY <1>2, <2>1
  <2>. QED  BY <2>2
<1>6. Framed(FlattenSeq(ss)) = Mapped(f, FlattenSeq(ss))
  BY <1>2, <1>3
<1>. QED  BY <1>4, <1>5, <1>6, Zenon

\* The raw Sapling transactions of the node, and the blocks made of them.
NodeTxs ==
    {RawTx(tx) : tx \in {t \in Transaction : Sapling(t) /\ Len(RawTx(t)) <= U32Max}}

NodeBlocks == {b \in ShieldBlocks : b.txs \in Seq(NodeTxs)}

\* The payloads of a transaction and of a block in a compact stream, and what is
\* read from them.
TxPayload(raw, plus) == CompactPayload(ParseSaplingTx(raw), plus)
TxPayloads(txs, plus) == [i \in 1..Len(txs) |-> TxPayload(txs[i], plus)]
CompactPayloads(b, plus) == Cat(<<HeaderPayload(b.height)>>, TxPayloads(b.txs, plus))
TxNote(plus) == [raw \in NodeTxs |-> <<ReadTx(TxPayload(raw, plus))>>]
NotesOf(b, plus) == [height |-> b.height, txs |-> Mapped(TxNote(plus), b.txs)]

LEMMA NodeTxShape ==
    ASSUME NEW raw \in NodeTxs, NEW plus \in BOOLEAN
    PROVE  raw \in ShieldTxs /\ TxPayload(raw, plus) \in Short /\ TxPayload(raw, plus)[1] # BlockTag
<1>1. PICK tx \in Transaction : Sapling(tx) /\ Len(RawTx(tx)) <= U32Max /\ raw = RawTx(tx)
  BY DEF NodeTxs
<1>2. raw \in Seq(Nat)
  BY <1>1, RawTxType
<1>3. IsShielded(raw)
  BY <1>1, KeptIffSapling
<1>4. TxPayload(raw, plus) \in Short /\ TxPayload(raw, plus)[1] # BlockTag
  BY <1>1, ReadsNotes DEF TxPayload
<1>. QED  BY <1>1, <1>2, <1>3, <1>4 DEF ShieldTxs, Short

\* A block in a compact stream.
LEMMA CompactPayloadsType ==
    ASSUME NEW b \in NodeBlocks, NEW plus \in BOOLEAN
    PROVE  LET n  == Len(b.txs)
               ys == CompactPayloads(b, plus)
           IN  /\ ys \in Seq(Short) /\ Len(ys) = 1 + n /\ n \in Nat
               /\ ys[1] = HeaderPayload(b.height) /\ b.height \in 0..U32Max
               /\ \A i \in 1..n : ys[1 + i] = TxPayload(b.txs[i], plus) /\ b.txs[i] \in NodeTxs
               /\ CompactBlock(plus)[b] = Framed(ys)
<1>. DEFINE txs == b.txs
            n  == Len(txs)
            h  == <<HeaderPayload(b.height)>>
            ps == TxPayloads(txs, plus)
<1>1. b \in ShieldBlocks /\ txs \in Seq(NodeTxs) /\ b.height \in 0..U32Max /\ n \in Nat
  <2>1. b \in ShieldBlocks /\ txs \in Seq(NodeTxs)
    BY DEF NodeBlocks
  <2>2. b.height \in 0..U32Max
    BY <2>1 DEF ShieldBlocks
  <2>. QED  BY <2>1, <2>2
<1>. HIDE DEF txs
<1>2. \A i \in 1..n : txs[i] \in NodeTxs /\ TxPayload(txs[i], plus) \in Short
  <2>1. \A i \in 1..n : txs[i] \in NodeTxs
    BY <1>1
  <2>. QED  BY <2>1, NodeTxShape
<1>3. ps \in Seq(Short) /\ Len(ps) = n /\ \A i \in 1..n : ps[i] = TxPayload(txs[i], plus)
  BY <1>1, <1>2 DEF TxPayloads
<1>4. HeaderPayload(b.height) \in Short
  <2>. DEFINE x == HeaderPayload(b.height)
  <2>1. x \in Seq(Nat) /\ Len(x) = 5
    BY <1>1, HeaderType
  <2>. HIDE DEF x
  <2>2. Len(x) <= U32Max
    BY <2>1, U32Large
  <2>3. x \in Short
    BY <2>1, <2>2, Zenon DEF Short
  <2>. QED  BY <2>3 DEF x
<1>5. h \in Seq(Short) /\ Len(h) = 1 /\ h[1] = HeaderPayload(b.height)
  BY <1>4
<1>. HIDE DEF h, ps, n
<1>6. Cat(h, ps) \in Seq(Short) /\ Len(Cat(h, ps)) = Len(h) + Len(ps)
  <2>1. h \in Seq(Short) /\ ps \in Seq(Short)
    BY <1>3, <1>5
  <2>. QED  BY <2>1, CatType
<1>7. Cat(h, ps)[1] = HeaderPayload(b.height)
  <2>1. h \in Seq(Short) /\ ps \in Seq(Short)
    BY <1>3, <1>5
  <2>2. \A i \in 1..Len(h) : Cat(h, ps)[i] = h[i]
    BY <2>1, CatFront
  <2>. QED  BY <1>5, <2>2
<1>8. \A i \in 1..n : Cat(h, ps)[1 + i] = TxPayload(txs[i], plus)
  <2>1. h \in Seq(Short) /\ ps \in Seq(Short)
    BY <1>3, <1>5
  <2>2. \A i \in 1..Len(ps) : Cat(h, ps)[Len(h) + i] = ps[i]
    BY <2>1, CatBack
  <2>. QED  BY <1>3, <1>5, <2>2
<1>9. Framed(Cat(h, ps)) = Cat(Framed(h), Framed(ps))
  <2>1. h \in Seq(Seq(Nat)) /\ ps \in Seq(Seq(Nat))
    BY <1>3, <1>5, ShortParts
  <2>. QED  BY <2>1, FramedConcat
<1>10. Framed(h) = EncodeBlockHeader(b.height)
  <2>1. HeaderPayload(b.height) \in Seq(Nat) /\ EncodeBlockHeader(b.height) = Packet(HeaderPayload(b.height))
    BY <1>1, HeaderType
  <2>. QED  BY <2>1, FramedOne DEF h
<1>11. Framed(ps) = Mapped(TxPacket(plus), txs)
  <2>1. ASSUME NEW i \in 1..n PROVE Packet(ps[i]) = TxPacket(plus)[txs[i]]
    <3>1. txs[i] \in ShieldTxs
      BY <1>2, NodeTxShape
    <3>2. ps[i] = TxPayload(txs[i], plus)
      BY <1>3
    <3>. QED  BY <3>1, <3>2 DEF TxPacket, TxPayload
  <2>2. [i \in 1..Len(ps) |-> Packet(ps[i])] = [i \in 1..Len(txs) |-> TxPacket(plus)[txs[i]]]
    BY <1>3, <2>1 DEF n
  <2>. QED  BY <2>2, Zenon DEF Framed, Concat, Mapped
<1>12. CompactBlock(plus)[b] = Framed(Cat(h, ps))
  <2>1. CompactBlock(plus)[b] = Cat(EncodeBlockHeader(b.height), Mapped(TxPacket(plus), txs))
    BY <1>1 DEF CompactBlock, txs
  <2>. QED  BY <1>9, <1>10, <1>11, <2>1, Zenon
<1>13. Len(Cat(h, ps)) = 1 + n
  BY <1>3, <1>5, <1>6
<1>. QED  BY <1>1, <1>2, <1>6, <1>7, <1>8, <1>12, <1>13 DEF CompactPayloads, h, ps, n, txs

\* A compact stream frames the payloads of its blocks.
LEMMA CompactFramed ==
    ASSUME NEW bs \in Seq(NodeBlocks), NEW plus \in BOOLEAN
    PROVE  LET ss == [i \in 1..Len(bs) |-> CompactPayloads(bs[i], plus)]
           IN  /\ ss \in Seq(Seq(Short)) /\ Len(ss) = Len(bs)
               /\ FlattenSeq(ss) \in Seq(Short)
               /\ Mapped(CompactBlock(plus), bs) = Framed(FlattenSeq(ss))
<1>. DEFINE ss == [i \in 1..Len(bs) |-> CompactPayloads(bs[i], plus)]
<1>1. \A i \in 1..Len(bs) : bs[i] \in NodeBlocks
  OBVIOUS
<1>2. \A i \in 1..Len(bs) : /\ CompactPayloads(bs[i], plus) \in Seq(Short)
                            /\ CompactBlock(plus)[bs[i]] = Framed(CompactPayloads(bs[i], plus))
  BY <1>1, CompactPayloadsType
<1>3. ss \in Seq(Seq(Short)) /\ Len(ss) = Len(bs)
  BY <1>2
<1>4. FlattenSeq(ss) \in Seq(Short)
  <2>. HIDE DEF ss
  <2>. QED  BY <1>3, FlattenType
<1>5. ss \in Seq(Seq(Seq(Nat)))
  <2>1. \A x \in Seq(Short) : x \in Seq(Seq(Nat))
    BY ShortParts
  <2>2. \A i \in 1..Len(bs) : CompactPayloads(bs[i], plus) \in Seq(Seq(Nat))
    BY <1>2, <2>1
  <2>. QED  BY <2>2
<1>6. [i \in 1..Len(bs) |-> CompactBlock(plus)[bs[i]]] = [i \in 1..Len(ss) |-> Framed(ss[i])]
  <2>1. \A i \in 1..Len(bs) : ss[i] = CompactPayloads(bs[i], plus)
    OBVIOUS
  <2>. HIDE DEF ss
  <2>. QED  BY <1>2, <1>3, <2>1
<1>. HIDE DEF ss
<1>7. Framed(FlattenSeq(ss)) = FlattenSeq([i \in 1..Len(ss) |-> Framed(ss[i])])
  BY <1>5, FramedFlatten
<1>8. Mapped(CompactBlock(plus), bs) = Framed(FlattenSeq(ss))
  BY <1>6, <1>7, Zenon DEF Mapped
<1>. QED  BY <1>3, <1>4, <1>8 DEF ss

\* What a reader does with a payload.
Reads(blocks, x) ==
    IF x[1] = BlockTag
    THEN Append(blocks, [height |-> FromLE(SubSeq(x, 2, 5)), txs |-> <<>>])
    ELSE [blocks EXCEPT ![Len(blocks)].txs = Append(@, ReadTx(x))]

ReadsAll(read, xs) ==
    /\ read[0] = <<>>
    /\ \A i \in 1..Len(xs) : read[i] = Reads(read[i - 1], xs[i])

LEMMA ReadsType ==
    ASSUME NEW H, NEW N, NEW r \in Seq([height : H, txs : Seq(N)]), NEW x,
           FromLE(SubSeq(x, 2, 5)) \in H, ReadTx(x) \in N
    PROVE  Reads(r, x) \in Seq([height : H, txs : Seq(N)])
<1>. DEFINE B == [height : H, txs : Seq(N)]
<1>1. CASE x[1] = BlockTag
  <2>1. [height |-> FromLE(SubSeq(x, 2, 5)), txs |-> <<>>] \in B
    OBVIOUS
  <2>2. Append(r, [height |-> FromLE(SubSeq(x, 2, 5)), txs |-> <<>>]) \in Seq(B)
    <3>. HIDE DEF B
    <3>1. r \in Seq(B)
      BY DEF B
    <3>. QED  BY <2>1, <3>1
  <2>. QED  BY <1>1, <2>2 DEF Reads
<1>2. CASE x[1] # BlockTag
  <2>. DEFINE k == Len(r)
              y == ReadTx(x)
              b == [r[k] EXCEPT !.txs = Append(@, y)]
  <2>1. Reads(r, x) = [r EXCEPT ![k] = b]
    BY <1>2 DEF Reads
  <2>2. ASSUME k \in 1..Len(r) PROVE b \in B
    <3>1. r[k] \in B
      <4>1. r \in Seq(B)
        OBVIOUS
      <4>. HIDE DEF B, k
      <4>. QED  BY <2>2, <4>1
    <3>. HIDE DEF k, y
    <3>2. r[k].txs \in Seq(N) /\ r[k].height \in H /\ y \in N
      BY <3>1 DEF y
    <3>3. Append(r[k].txs, y) \in Seq(N)
      BY <3>2
    <3>. QED  BY <3>1, <3>2, <3>3
  <2>3. [r EXCEPT ![k] = b] \in Seq(B)
    <3>1. r \in Seq(B) /\ k \in Nat
      OBVIOUS
    <3>. HIDE DEF b, B
    <3>2. CASE k \in 1..Len(r)
      <4>1. b \in B
        BY <2>2, <3>2
      <4>. HIDE DEF k
      <4>. QED  BY <3>1, <3>2, <4>1
    <3>3. CASE k \notin 1..Len(r)
      <4>1. r = <<>> /\ DOMAIN r = 1..Len(r)
        BY <3>1, <3>3
      <4>. HIDE DEF k
      <4>2. [r EXCEPT ![k] = b] = r
        BY <3>1, <3>3, <4>1
      <4>. QED  BY <3>1, <4>2
    <3>. QED  BY <3>2, <3>3
  <2>. QED  BY <2>1, <2>3
<1>. QED  BY <1>1, <1>2

\* The reader's loop over the packets, step by step.
LEMMA ReadUnfolds ==
    ASSUME NEW d, NEW xs \in Seq(Short), Laid(d, xs), Packets(d, FALSE) = Listing(xs)
    PROVE  \E read : ReadsAll(read, xs) /\ ReadCompact(d) = read[Len(xs)]
<1>. DEFINE packets == Packets(d, FALSE)
            n == Len(xs)
            H == {FromLE(SubSeq(xs[i], 2, 5)) : i \in 1..n}
            N == {ReadTx(xs[i]) : i \in 1..n}
            R == Seq([height : H, txs : Seq(N)])
            Then(read, i) ==
              IF i = 0 THEN <<>>
              ELSE LET blocks  == read[i - 1]
                       payload == Payload(d, packets[i])
                   IN  IF payload[1] = BlockTag
                       THEN Append(blocks, [height |-> FromLE(SubSeq(payload, 2, 5)),
                                            txs    |-> <<>>])
                       ELSE [blocks EXCEPT ![Len(blocks)].txs = Append(@, ReadTx(payload))]
            Is(read) == read = [i \in 0..Len(packets) |-> Then(read, i)]
            step == [p \in R \X (1..n) |-> Reads(p[1], xs[p[2]])]
<1>1. n \in Nat /\ <<>> \in R
  OBVIOUS
<1>2. Len(packets) = n
  <2>1. Len(Listing(xs)) = n
    <3>. HIDE DEF n
    <3>1. Listing(xs) = [i \in 1..n |-> Span(xs, i)]
      BY DEF Listing, n
    <3>. QED  BY <1>1, <3>1
  <2>. QED  BY <2>1
<1>3. step \in [R \X (1..n) -> R]
  <2>1. ASSUME NEW r \in R, NEW i \in 1..n PROVE Reads(r, xs[i]) \in R
    <3>1. FromLE(SubSeq(xs[i], 2, 5)) \in H /\ ReadTx(xs[i]) \in N
      OBVIOUS
    <3>. HIDE DEF H, N, n
    <3>. QED  BY <3>1, ReadsType
  <2>. HIDE DEF R, n
  <2>. QED  BY <2>1
<1>. HIDE DEF R
<1>4. PICK f \in [0..n -> R] : Follows(f, n, <<>>, step)
  <2>. HIDE DEF step, n
  <2>. QED  BY <1>1, <1>3, Recursion
<1>5. f[0] = <<>> /\ \A i \in 1..n : f[i] = Reads(f[i - 1], xs[i])
  <2>1. \A i \in 1..n : f[i - 1] \in R
    BY <1>1
  <2>. HIDE DEF n
  <2>. QED  BY <1>4, <2>1 DEF Follows
<1>6. ASSUME NEW read, NEW i \in 1..n PROVE Then(read, i) = Reads(read[i - 1], xs[i])
  <2>3. Payload(d, Listing(xs)[i]) = xs[i]
    BY PayloadLaid
  <2>1. i # 0 /\ Payload(d, packets[i]) = xs[i]
    BY <1>1, <2>3
  <2>2. Then(read, i) = LET blocks  == read[i - 1]
                            payload == Payload(d, packets[i])
                        IN  IF payload[1] = BlockTag
                            THEN Append(blocks, [height |-> FromLE(SubSeq(payload, 2, 5)),
                                                 txs    |-> <<>>])
                            ELSE [blocks EXCEPT ![Len(blocks)].txs = Append(@, ReadTx(payload))]
    BY <2>1
  <2>. HIDE DEF packets, n, Then
  <2>. QED  BY <2>1, <2>2, Zenon DEF Reads
<1>7. \A read : Then(read, 0) = <<>>
  OBVIOUS
<1>8. Is(f)
  <2>. HIDE DEF Then, packets, n
  <2>1. ASSUME NEW i \in 0..n PROVE f[i] = Then(f, i)
    <3>1. CASE i = 0
      BY <1>5, <1>7, <3>1
    <3>2. CASE i # 0
      <4>1. i \in 1..n
        BY <1>1, <3>2
      <4>. QED  BY <1>5, <1>6, <4>1
    <3>. QED  BY <3>1, <3>2
  <2>2. f = [i \in 0..n |-> f[i]]
    OBVIOUS
  <2>. QED  BY <1>2, <2>1, <2>2
<1>9. ReadCompact(d) = (CHOOSE read : Is(read))[Len(packets)]
  BY DEF ReadCompact
<1>10. PICK read : Is(read) /\ ReadCompact(d) = read[Len(packets)]
  <2>. HIDE DEF Is, packets
  <2>. QED  BY <1>8, <1>9
<1>11. \A i \in 0..n : read[i] = Then(read, i)
  <2>. HIDE DEF Then, packets, n
  <2>. QED  BY <1>2, <1>10
<1>12. ReadsAll(read, xs)
  <2>1. read[0] = <<>>
    <3>1. 0 \in 0..n
      BY <1>1
    <3>. HIDE DEF Then
    <3>. QED  BY <1>7, <1>11, <3>1
  <2>2. ASSUME NEW i \in 1..n PROVE read[i] = Reads(read[i - 1], xs[i])
    <3>1. i \in 0..n
      BY <1>1
    <3>. HIDE DEF Then, n
    <3>. QED  BY <1>6, <1>11, <3>1
  <2>. QED  BY <2>1, <2>2 DEF ReadsAll
<1>13. ReadCompact(d) = read[n]
  <2>. HIDE DEF packets, n, Is
  <2>. QED  BY <1>2, <1>10
<1>. QED  BY <1>12, <1>13

\* The packets of what is framed, when the walk goes over an empty one.
LEMMA FramedPackets ==
    ASSUME NEW xs \in Seq(Short)
    PROVE  Laid(Framed(xs), xs) /\ Packets(Framed(xs), FALSE) = Listing(xs)
<1>. DEFINE d == Framed(xs)
<1>1. xs \in Seq(Seq(Nat)) /\ Len(xs) \in Nat
  BY ShortParts
<1>2. d \in Seq(Nat) /\ Len(d) \in Nat
  <2>1. d \in Seq(Nat)
    BY <1>1, FramedType
  <2>. HIDE DEF d
  <2>. QED  BY <2>1
<1>3. Laid(d, xs)
  <2>1. <<>> \in Seq(Nat)
    OBVIOUS
  <2>2. Laid(Cat(Framed(xs), <<>>), xs)
    BY <1>1, <2>1, FramedLaid
  <2>3. Cat(d, <<>>) = d
    <3>. HIDE DEF d
    <3>. QED  BY <1>2, CatEmpty
  <2>. QED  BY <2>2, <2>3, Zenon
<1>4. End(xs, Len(xs)) = Len(d)
  BY <1>1, EndStart
<1>. HIDE DEF d
<1>5. ~Goes(d, FALSE, Len(d)) /\ Len(d) \in 0..Len(d)
  BY <1>2 DEF Goes
<1>6. ~Goes(d, FALSE, End(xs, Len(xs))) /\ End(xs, Len(xs)) \in 0..Len(d)
  BY <1>4, <1>5, Zenon
<1>7. Packets(d, FALSE) = Listing(xs)
  BY <1>2, <1>3, <1>6, WalkLaid
<1>. QED  BY <1>3, <1>7 DEF d

LEMMA TxNoteType ==
    ASSUME NEW plus \in BOOLEAN
    PROVE  LET N == {ReadTx(TxPayload(raw, plus)) : raw \in NodeTxs}
           IN  /\ TxNote(plus) \in [NodeTxs -> Seq(N)]
               /\ \A raw \in NodeTxs : /\ TxNote(plus)[raw] = <<ReadTx(TxPayload(raw, plus))>>
                                       /\ ReadTx(TxPayload(raw, plus)) \in N
<1>. DEFINE N == {ReadTx(TxPayload(raw, plus)) : raw \in NodeTxs}
<1>1. \A raw \in NodeTxs : ReadTx(TxPayload(raw, plus)) \in N
  OBVIOUS
<1>2. \A raw \in NodeTxs : <<ReadTx(TxPayload(raw, plus))>> \in Seq(N)
  <2>. HIDE DEF N
  <2>. QED  BY <1>1
<1>. HIDE DEF N
<1>. QED  BY <1>1, <1>2 DEF TxNote, N

\* A transaction more for the block that was read last.
LEMMA GrowsLast ==
    ASSUME NEW Q, NEW r \in Seq(Q), NEW h, NEW N, NEW t \in Seq(N), NEW y, NEW x,
           x[1] # BlockTag, ReadTx(x) = y
    PROVE  Reads(Append(r, [height |-> h, txs |-> t]), x)
             = Append(r, [height |-> h, txs |-> Append(t, y)])
<1>. DEFINE b == [height |-> h, txs |-> t]
            c == [height |-> h, txs |-> Append(t, y)]
            s == Append(r, b)
            l == Len(r) + 1
<1>1. l \in Nat /\ Len(s) = l /\ s[l] = b /\ Len(Append(r, c)) = l /\ Append(r, c)[l] = c
  <2>. HIDE DEF b, c
  <2>. QED  OBVIOUS
<1>2. Reads(s, x) = [s EXCEPT ![Len(s)] = [s[Len(s)] EXCEPT !.txs = Append(s[Len(s)].txs, y)]]
  <2>. HIDE DEF s, b, c, l
  <2>1. Reads(s, x) = [s EXCEPT ![Len(s)].txs = Append(@, ReadTx(x))]
    BY DEF Reads
  <2>. QED  BY <2>1
<1>3. [b EXCEPT !.txs = Append(b.txs, y)] = c
  <2>. DEFINE w == Append(t, y)
  <2>1. b.txs = t
    OBVIOUS
  <2>2. [b EXCEPT !.txs = w] = [height |-> h, txs |-> w]
    <3>. HIDE DEF w
    <3>. QED  OBVIOUS
  <2>. QED  BY <2>1, <2>2
<1>4. Reads(s, x) = [s EXCEPT ![l] = c]
  <2>. HIDE DEF s, b, c, l
  <2>. QED  BY <1>1, <1>2, <1>3
<1>5. [s EXCEPT ![l] = c] = Append(r, c)
  <2>. HIDE DEF b, c
  <2>1. r \in Seq(Q) /\ DOMAIN s = 1..l /\ DOMAIN Append(r, c) = 1..l
    OBVIOUS
  <2>2. ASSUME NEW i \in 1..l PROVE [s EXCEPT ![l] = c][i] = Append(r, c)[i]
    <3>1. CASE i = l
      BY <1>1, <2>1, <3>1
    <3>2. CASE i # l
      <4>1. i \in 1..Len(r)
        BY <1>1, <3>2
      <4>2. s[i] = r[i] /\ Append(r, c)[i] = r[i]
        BY <4>1
      <4>3. [s EXCEPT ![l] = c][i] = s[i]
        <5>. HIDE DEF s, l
        <5>. QED  BY <2>1, <3>2
      <4>. QED  BY <4>2, <4>3, Zenon
    <3>. QED  BY <3>1, <3>2
  <2>3. Append(r, c) = [i \in 1..l |-> Append(r, c)[i]]
    <3>. DEFINE P == Q \cup {c}
                g == Append(r, c)
    <3>1. r \in Seq(P) /\ c \in P
      <4>1. Q \subseteq P /\ c \in P
        OBVIOUS
      <4>. HIDE DEF P
      <4>. QED  BY <2>1, <4>1, SeqMonotonic
    <3>2. g \in Seq(P) /\ Len(g) = l
      <4>. HIDE DEF P
      <4>. QED  BY <3>1
    <3>. HIDE DEF P, g, l
    <3>3. g = [i \in 1..l |-> g[i]]
      BY <3>2
    <3>. QED  BY <3>3 DEF g
  <2>. DEFINE e == [s EXCEPT ![l] = c]
  <2>4. e = [i \in 1..l |-> e[i]]
    <3>. HIDE DEF s, l
    <3>. QED  BY <2>1
  <2>. HIDE DEF s, l, e
  <2>5. \A i \in 1..l : e[i] = Append(r, c)[i]
    BY <2>2 DEF e
  <2>6. e = Append(r, c)
    BY <2>3, <2>4, <2>5
  <2>. QED  BY <2>6 DEF e
<1>. QED  BY <1>4, <1>5, Zenon

\* What is read of a block, by a name the provers do not look into.
Had(h, t) == [height |-> h, txs |-> t]

LEMMA GrowsAlways ==
    ASSUME NEW Q, NEW N
    PROVE  \A r \in Seq(Q), t \in Seq(N) : \A h, y, x :
             x[1] # BlockTag /\ ReadTx(x) = y
               => Reads(Append(r, Had(h, t)), x) = Append(r, Had(h, Append(t, y)))
BY GrowsLast DEF Had

\* A block's packets behind others: the block behind those read before.
LEMMA ReadsBlock ==
    ASSUME NEW read, NEW xs, ReadsAll(read, xs), NEW plus \in BOOLEAN,
           NEW b \in NodeBlocks, NEW m \in Nat, NEW Q, NEW r \in Seq(Q),
           m + Len(CompactPayloads(b, plus)) <= Len(xs), Len(xs) \in Nat,
           \A j \in 1..Len(CompactPayloads(b, plus)) : xs[m + j] = CompactPayloads(b, plus)[j],
           read[m] = r
    PROVE  read[m + Len(CompactPayloads(b, plus))] = Append(r, NotesOf(b, plus))
<1>. DEFINE ts == b.txs
            h == b.height
            n == Len(ts)
            ys == CompactPayloads(b, plus)
            N == {ReadTx(TxPayload(raw, plus)) : raw \in NodeTxs}
            f == TxNote(plus)
            A == {j \in 0..n : read[m + (1 + j)] = Append(r, Had(h, Mapped(f, Prefix(ts, j))))}
<1>1. /\ Len(ys) = 1 + n /\ n \in Nat
      /\ ys[1] = HeaderPayload(h) /\ h \in 0..U32Max
      /\ \A i \in 1..n : ys[1 + i] = TxPayload(ts[i], plus) /\ ts[i] \in NodeTxs
  BY CompactPayloadsType
<1>2. ts \in Seq(NodeTxs)
  BY DEF NodeBlocks
<1>3. f \in [NodeTxs -> Seq(N)] /\ \A raw \in NodeTxs :
        f[raw] = <<ReadTx(TxPayload(raw, plus))>> /\ ReadTx(TxPayload(raw, plus)) \in N
  BY TxNoteType
<1>. HIDE DEF ys, ts, n, f, N, h
<1>4. m + (1 + n) <= Len(xs) /\ \A j \in 1..(1 + n) : xs[m + j] = ys[j]
  BY <1>1 DEF ys
<1>5. ASSUME NEW j \in 1..(1 + n)
      PROVE  read[m + j] = Reads(read[m + (j - 1)], ys[j])
  <2>1. m + j \in 1..Len(xs) /\ (m + j) - 1 = m + (j - 1)
    BY <1>1, <1>4
  <2>2. read[m + j] = Reads(read[(m + j) - 1], xs[m + j])
    BY <2>1 DEF ReadsAll
  <2>3. xs[m + j] = ys[j]
    BY <1>4
  <2>. QED  BY <2>1, <2>2, <2>3
<1>6. 0 \in A
  <2>1. read[m + 1] = Reads(read[m + (1 - 1)], ys[1])
    <3>1. 1 \in 1..(1 + n)
      BY <1>1
    <3>. QED  BY <1>5, <3>1
  <2>2. m + (1 - 1) = m /\ m + (1 + 0) = m + 1 /\ 0 \in 0..n
    BY <1>1
  <2>3. /\ HeaderPayload(h)[1] = BlockTag
        /\ FromLE(SubSeq(HeaderPayload(h), 2, 5)) = h
    <3>1. /\ HeaderPayload(h)[1] = BlockTag /\ SubSeq(HeaderPayload(h), 2, 5) = LE(4, h)
          /\ FromLE(LE(4, h)) = h
      BY <1>1, HeaderType
    <3>. QED  BY <3>1, Zenon
  <2>4. Reads(r, HeaderPayload(h)) = Append(r, Had(h, <<>>))
    BY <2>3 DEF Reads, Had
  <2>5. Mapped(f, Prefix(ts, 0)) = <<>>
    <3>1. Prefix(ts, 0) = <<>>
      BY <1>2, PrefixAll
    <3>. QED  BY <3>1, MappedEmpty
  <2>6. read[m + (1 + 0)] = Append(r, Had(h, Mapped(f, Prefix(ts, 0))))
    BY <1>1, <2>1, <2>2, <2>4, <2>5
  <2>. QED  BY <2>2, <2>6
<1>7. ASSUME NEW j \in 1..n, j - 1 \in A PROVE j \in A
  <2>. DEFINE x == ys[1 + j]
              t == Mapped(f, Prefix(ts, j - 1))
              y == ReadTx(TxPayload(ts[j], plus))
  <2>1. read[m + (1 + (j - 1))] = Append(r, Had(h, t))
    BY <1>7
  <2>2. 1 + j \in 1..(1 + n) /\ j \in 0..n /\ (1 + j) - 1 = 1 + (j - 1)
    BY <1>1
  <2>3. read[m + (1 + j)] = Reads(read[m + ((1 + j) - 1)], x)
    BY <1>5, <2>2
  <2>4. ts[j] \in NodeTxs /\ x = TxPayload(ts[j], plus)
    BY <1>1
  <2>5. x[1] # BlockTag /\ ReadTx(x) = y
    BY <2>4, NodeTxShape
  <2>6. /\ Prefix(ts, j) = Append(Prefix(ts, j - 1), ts[j])
        /\ Prefix(ts, j - 1) \in Seq(NodeTxs)
    BY <1>2, PrefixAppends DEF n
  <2>7. t \in Seq(N)
    BY <1>3, <2>6, MappedType
  <2>8. Mapped(f, Prefix(ts, j)) = Append(t, y)
    <3>. DEFINE p == Prefix(ts, j - 1)
                v == ts[j]
    <3>1. p \in Seq(NodeTxs) /\ v \in NodeTxs
      BY <2>4, <2>6
    <3>2. f[v] = <<y>> /\ y \in N
      BY <1>3, <2>4
    <3>. HIDE DEF p, v, y
    <3>3. Mapped(f, Append(p, v)) = Cat(Mapped(f, p), f[v])
      <4>1. f \in [NodeTxs -> Seq(N)]
        BY <1>3
      <4>. QED  BY <3>1, <4>1, MappedAppend
    <3>4. Cat(t, <<y>>) = Append(t, y)
      <4>. HIDE DEF t
      <4>. QED  BY <2>7, <3>2 DEF Cat
    <3>. QED  BY <2>6, <3>2, <3>3, <3>4, Zenon DEF p, v
  <2>. HIDE DEF x, t, y
  <2>9. Reads(Append(r, Had(h, t)), x) = Append(r, Had(h, Append(t, y)))
    <3>1. \A u \in Seq(Q), v \in Seq(N) : \A g, z, w :
            w[1] # BlockTag /\ ReadTx(w) = z
              => Reads(Append(u, Had(g, v)), w) = Append(u, Had(g, Append(v, z)))
      BY GrowsAlways
    <3>2. r \in Seq(Q)
      OBVIOUS
    <3>3. \A g, z, w : w[1] # BlockTag /\ ReadTx(w) = z
             => Reads(Append(r, Had(g, t)), w) = Append(r, Had(g, Append(t, z)))
      BY <2>7, <3>1, <3>2
    <3>4. x[1] # BlockTag /\ ReadTx(x) = y
            => Reads(Append(r, Had(h, t)), x) = Append(r, Had(h, Append(t, y)))
      BY <3>3
    <3>. QED  BY <2>5, <3>4, Zenon
  <2>10. read[m + (1 + j)] = Append(r, Had(h, Mapped(f, Prefix(ts, j))))
    BY <2>1, <2>2, <2>3, <2>8, <2>9
  <2>. QED  BY <2>2, <2>10
<1>8. n \in A
  <2>1. \A j \in 0..n : j \in A
    <3>. HIDE DEF A
    <3>. QED  BY <1>1, <1>6, <1>7, UpTo
  <2>2. n \in 0..n
    BY <1>1
  <2>. HIDE DEF A
  <2>. QED  BY <2>1, <2>2
<1>9. Prefix(ts, n) = ts
  BY <1>2, PrefixAll DEF n
<1>10. read[m + (1 + n)] = Append(r, Had(h, Mapped(f, Prefix(ts, n))))
  BY <1>8
<1>11. Had(h, Mapped(f, Prefix(ts, n))) = NotesOf(b, plus)
  BY <1>9 DEF NotesOf, Had, ts, f, h
<1>. QED  BY <1>1, <1>10, <1>11 DEF ys

\* From element m on, xs has ys.
Shows(xs, m, ys) ==
    m \in Nat /\ m + Len(ys) <= Len(xs) /\ \A j \in 1..Len(ys) : xs[m + j] = ys[j]

LEMMA ReadsNext ==
    ASSUME NEW Q, NEW plus \in BOOLEAN
    PROVE  \A read, xs, m : \A b \in NodeBlocks, r \in Seq(Q) :
             /\ ReadsAll(read, xs)
             /\ Len(xs) \in Nat
             /\ Shows(xs, m, CompactPayloads(b, plus))
             /\ read[m] = r
             => read[m + Len(CompactPayloads(b, plus))] = Append(r, NotesOf(b, plus))
<1>. TAKE read, xs, m
<1>. TAKE b \in NodeBlocks, r \in Seq(Q)
<1>. HAVE /\ ReadsAll(read, xs)
          /\ Len(xs) \in Nat
          /\ Shows(xs, m, CompactPayloads(b, plus))
          /\ read[m] = r
<1>1. /\ m \in Nat /\ m + Len(CompactPayloads(b, plus)) <= Len(xs)
      /\ \A j \in 1..Len(CompactPayloads(b, plus)) : xs[m + j] = CompactPayloads(b, plus)[j]
  BY DEF Shows
<1>2. ReadsAll(read, xs) /\ Len(xs) \in Nat /\ read[m] = r
  OBVIOUS
<1>. QED  BY <1>1, <1>2, ReadsBlock

\* The first blocks read, after their packets.
LEMMA ReadsStream ==
    ASSUME NEW bs \in Seq(NodeBlocks), NEW plus \in BOOLEAN, NEW read,
           NEW ss \in Seq(Seq(Short)), Len(ss) = Len(bs),
           \A i \in 1..Len(bs) : ss[i] = CompactPayloads(bs[i], plus),
           ReadsAll(read, FlattenSeq(ss))
    PROVE  read[Len(FlattenSeq(ss))] = [i \in 1..Len(bs) |-> NotesOf(bs[i], plus)]
<1>. DEFINE n == Len(bs)
            xs == FlattenSeq(ss)
            Q == {NotesOf(bs[i], plus) : i \in 1..n}
            At(i) == Len(Joined(ss, i))
            Got(i) == [k \in 1..i |-> NotesOf(bs[k], plus)]
            A == {i \in 0..n : read[At(i)] = Got(i)}
<1>1. n \in Nat
  OBVIOUS
<1>2. Len(ss) = n /\ \A i \in 1..n : ss[i] = CompactPayloads(bs[i], plus) /\ bs[i] \in NodeBlocks
  OBVIOUS
<1>3. xs \in Seq(Short) /\ Len(xs) \in Nat
  <2>1. xs \in Seq(Short)
    BY FlattenType
  <2>. HIDE DEF xs
  <2>. QED  BY <2>1
<1>4. ReadsAll(read, xs)
  OBVIOUS
<1>. HIDE DEF n
<1>5. \A i \in 0..n : Got(i) \in Seq(Q)
  <2>1. ASSUME NEW i \in 0..n PROVE Got(i) \in Seq(Q)
    <3>1. \A k \in 1..i : NotesOf(bs[k], plus) \in Q
      BY <1>1
    <3>2. i \in Nat
      BY <1>1
    <3>. HIDE DEF Q
    <3>. QED  BY <3>1, <3>2
  <2>. QED  BY <2>1
<1>6. 0 \in A
  <2>1. Joined(ss, 0) = <<>>
    <3>1. Prefix(ss, 0) = <<>>
      BY PrefixAll
    <3>. QED  BY <3>1, FlattenEmpty DEF Joined
  <2>2. At(0) = 0
    <3>1. Len(<<>>) = 0
      OBVIOUS
    <3>. QED  BY <2>1, <3>1, Zenon
  <2>3. read[0] = <<>>
    BY <1>4 DEF ReadsAll
  <2>4. Got(0) = <<>>
    OBVIOUS
  <2>5. read[At(0)] = Got(0)
    BY <2>2, <2>3, <2>4, Zenon
  <2>6. 0 \in 0..n
    BY <1>1
  <2>. QED  BY <2>5, <2>6
<1>7. ASSUME NEW i \in 1..n, i - 1 \in A PROVE i \in A
  <2>. DEFINE b == bs[i]
              ys == CompactPayloads(b, plus)
              f == Joined(ss, i - 1)
              t == FlattenSeq(Suffix(ss, i))
              m == At(i - 1)
              r == Got(i - 1)
  <2>1. read[m] = r
    BY <1>7
  <2>2. b \in NodeBlocks /\ ss[i] = ys /\ i \in 1..Len(ss)
    BY <1>2
  <2>3. /\ f \in Seq(Short) /\ t \in Seq(Short) /\ ys \in Seq(Short)
        /\ xs = Cat(f, Cat(ys, t)) /\ Len(Joined(ss, i)) = Len(f) + Len(ys)
    <3>1. /\ f \in Seq(Short) /\ t \in Seq(Short) /\ ss[i] \in Seq(Short)
          /\ xs = Cat(f, Cat(ss[i], t)) /\ Len(Joined(ss, i)) = Len(f) + Len(ss[i])
      BY <2>2, FlattenAt
    <3>2. ss[i] = ys
      BY <2>2
    <3>. HIDE DEF ys, f, t, xs
    <3>. QED  BY <3>1, <3>2, Zenon
  <2>4. \A j \in 1..Len(ys) : xs[m + j] = ys[j]
    <3>1. \A j \in 1..Len(ss[i]) : xs[Len(Joined(ss, i - 1)) + j] = ss[i][j]
      BY <2>2, FlattenElement
    <3>2. ss[i] = ys
      BY <2>2
    <3>. HIDE DEF ys, xs
    <3>. QED  BY <3>1, <3>2, Zenon
  <2>5. Len(xs) = Len(f) + Len(ys) + Len(t)
    <3>. HIDE DEF f, t, ys, xs
    <3>1. f \in Seq(Short) /\ ys \in Seq(Short) /\ t \in Seq(Short)
      BY <2>3
    <3>2. Len(Cat(f, Cat(ys, t))) = Len(f) + Len(ys) + Len(t)
      BY <3>1, MiddleLen
    <3>. QED  BY <2>3, <3>2, Zenon
  <2>6. Len(f) \in Nat /\ Len(ys) \in Nat /\ Len(t) \in Nat
    <3>. HIDE DEF f, t, ys
    <3>. QED  BY <2>3
  <2>7. m \in Nat /\ m + Len(ys) <= Len(xs)
    <3>1. m = Len(f)
      OBVIOUS
    <3>. HIDE DEF f, t, ys, m, xs
    <3>. QED  BY <2>5, <2>6, <3>1
  <2>8. r \in Seq(Q)
    <3>1. i - 1 \in 0..n
      BY <1>1
    <3>. QED  BY <1>5, <3>1
  <2>9. read[m + Len(ys)] = Append(r, NotesOf(b, plus))
    <3>1. ReadsAll(read, xs) /\ Len(xs) \in Nat /\ read[m] = r
      BY <1>3, <1>4, <2>1
    <3>2. Shows(xs, m, ys) /\ b \in NodeBlocks
      BY <2>2, <2>4, <2>7 DEF Shows
    <3>3. \A v, z, l : \A c \in NodeBlocks, u \in Seq(Q) :
            /\ ReadsAll(v, z)
            /\ Len(z) \in Nat
            /\ Shows(z, l, CompactPayloads(c, plus))
            /\ v[l] = u
            => v[l + Len(CompactPayloads(c, plus))] = Append(u, NotesOf(c, plus))
      BY ReadsNext
    <3>. HIDE DEF b, xs, m, r, Q
    <3>4. /\ ReadsAll(read, xs)
          /\ Len(xs) \in Nat
          /\ Shows(xs, m, CompactPayloads(b, plus))
          /\ read[m] = r
          => read[m + Len(CompactPayloads(b, plus))] = Append(r, NotesOf(b, plus))
      BY <2>8, <3>2, <3>3, Zenon
    <3>. QED  BY <3>1, <3>2, <3>4, Zenon
  <2>10. Append(r, NotesOf(b, plus)) = Got(i)
    <3>. DEFINE e == NotesOf(b, plus)
                g == Append(r, e)
    <3>1. e \in Q
      OBVIOUS
    <3>2. Len(r) = i - 1 /\ i - 1 \in Nat
      BY <1>1
    <3>3. g \in Seq(Q) /\ Len(g) = i /\ g[i] = e /\ \A k \in 1..(i - 1) : g[k] = r[k]
      <4>. HIDE DEF Q, e, r
      <4>. QED  BY <2>8, <3>1, <3>2
    <3>4. \A k \in 1..(i - 1) : r[k] = NotesOf(bs[k], plus)
      OBVIOUS
    <3>5. \A k \in 1..i : g[k] = NotesOf(bs[k], plus)
      <4>1. ASSUME NEW k \in 1..i PROVE g[k] = NotesOf(bs[k], plus)
        <5>1. CASE k = i
          BY <3>3, <5>1
        <5>2. CASE k # i
          <6>1. k \in 1..(i - 1)
            BY <1>1, <5>2
          <6>. HIDE DEF g, r
          <6>. QED  BY <3>3, <3>4, <6>1
        <5>. QED  BY <5>1, <5>2
      <4>. QED  BY <4>1
    <3>. HIDE DEF g, Q
    <3>6. g = [k \in 1..i |-> g[k]]
      BY <3>3
    <3>. QED  BY <3>5, <3>6 DEF g
  <2>11. At(i) = m + Len(ys) /\ i \in 0..n
    BY <1>1, <2>3
  <2>12. read[At(i)] = Got(i)
    <3>. HIDE DEF At, Got, m, ys, b, r
    <3>. QED  BY <2>9, <2>10, <2>11, Zenon
  <2>. QED  BY <2>11, <2>12
<1>8. \A i \in 0..n : i \in A
  <2>. HIDE DEF A
  <2>. QED  BY <1>1, <1>6, <1>7, UpTo
<1>9. n \in 0..n
  BY <1>1
<1>10. read[At(n)] = Got(n)
  <2>. HIDE DEF At, Got
  <2>. QED  BY <1>8, <1>9
<1>11. Prefix(ss, Len(ss)) = ss
  BY PrefixAll
<1>12. At(n) = Len(xs)
  BY <1>2, <1>11, Zenon DEF Joined
<1>. QED  BY <1>10, <1>12, Zenon DEF n

\* A reader gets the blocks' notes from a compact stream.
LEMMA ReadsCompact ==
    ASSUME NEW bs \in Seq(NodeBlocks), NEW plus \in BOOLEAN
    PROVE  ReadCompact(Mapped(CompactBlock(plus), bs)) = [i \in 1..Len(bs) |-> NotesOf(bs[i], plus)]
<1>. DEFINE ss == [i \in 1..Len(bs) |-> CompactPayloads(bs[i], plus)]
            xs == FlattenSeq(ss)
            d == Framed(xs)
<1>1. /\ ss \in Seq(Seq(Short)) /\ Len(ss) = Len(bs) /\ xs \in Seq(Short)
      /\ Mapped(CompactBlock(plus), bs) = d
  BY CompactFramed
<1>2. \A i \in 1..Len(bs) : ss[i] = CompactPayloads(bs[i], plus)
  OBVIOUS
<1>. HIDE DEF ss
<1>3. Laid(d, xs) /\ Packets(d, FALSE) = Listing(xs)
  <2>. HIDE DEF xs
  <2>. QED  BY <1>1, FramedPackets
<1>4. PICK read : ReadsAll(read, xs) /\ ReadCompact(d) = read[Len(xs)]
  <2>. HIDE DEF xs, d
  <2>. QED  BY <1>1, <1>3, ReadUnfolds
<1>5. read[Len(xs)] = [i \in 1..Len(bs) |-> NotesOf(bs[i], plus)]
  <2>1. ss \in Seq(Seq(Short)) /\ Len(ss) = Len(bs)
    BY <1>1
  <2>2. ReadsAll(read, FlattenSeq(ss))
    BY <1>4
  <2>. QED  BY <1>2, <2>1, <2>2, ReadsStream
<1>. QED  BY <1>1, <1>4, <1>5, Zenon

LEMMA MappedOne ==
    ASSUME NEW S, NEW T, NEW f \in [S -> Seq(T)], NEW x \in S
    PROVE  Mapped(f, <<x>>) = f[x]
<1>1. <<>> \in Seq(S) /\ Append(<<>>, x) = <<x>>
  OBVIOUS
<1>2. Mapped(f, Append(<<>>, x)) = Cat(Mapped(f, <<>>), f[x])
  BY <1>1, MappedAppend
<1>3. Mapped(f, <<>>) = <<>>
  BY MappedEmpty
<1>4. Cat(<<>>, f[x]) = f[x]
  <2>1. f[x] \in Seq(T)
    OBVIOUS
  <2>. QED  BY <2>1, CatEmpty
<1>. QED  BY <1>1, <1>2, <1>3, <1>4, Zenon

\* What is read of a block the scanner made: its Sapling transactions, in order.
LEMMA ScannedNotes ==
    ASSUME NEW h \in 1..Len(Candidates), NEW txs \in Candidates[h], NEW plus \in BOOLEAN
    PROVE  LET notes(tx) == IF Sapling(tx) THEN <<Notes(tx, plus)>> ELSE <<>>
           IN  /\ Scanned(h, txs) \in NodeBlocks
               /\ NotesOf(Scanned(h, txs), plus) = [height |-> h, txs |-> Concat(notes, txs)]
<1>. DEFINE notes(tx) == IF Sapling(tx) THEN <<Notes(tx, plus)>> ELSE <<>>
            b == Scanned(h, txs)
            n == Len(txs)
            ks == [i \in 1..n |-> Kept(RawTx(txs[i]))]
            f == TxNote(plus)
            N == {ReadTx(TxPayload(raw, plus)) : raw \in NodeTxs}
<1>1. /\ b \in ShieldBlocks /\ b.height = h /\ b.txs = FlattenSeq(ks)
      /\ txs \in Seq(Transaction) /\ \A i \in 1..n : RawTx(txs[i]) \in Short
  BY ScannedType
<1>. HIDE DEF b
<1>2. n \in Nat
  <2>1. txs \in Seq(Transaction)
    BY <1>1
  <2>. QED  BY <2>1
<1>3. ASSUME NEW i \in 1..n
      PROVE  /\ txs[i] \in Transaction /\ Len(RawTx(txs[i])) <= U32Max
             /\ IsShielded(RawTx(txs[i])) <=> Sapling(txs[i])
             /\ Sapling(txs[i]) => RawTx(txs[i]) \in NodeTxs
  <2>1. txs[i] \in Transaction
    <3>1. txs \in Seq(Transaction)
      BY <1>1
    <3>. QED  BY <3>1
  <2>2. Len(RawTx(txs[i])) <= U32Max
    BY <1>1 DEF Short
  <2>3. IsShielded(RawTx(txs[i])) <=> Sapling(txs[i])
    BY <2>1, <2>2, KeptIffSapling
  <2>4. Sapling(txs[i]) => RawTx(txs[i]) \in NodeTxs
    BY <2>1, <2>2 DEF NodeTxs
  <2>. QED  BY <2>1, <2>2, <2>3, <2>4
<1>4. f \in [NodeTxs -> Seq(N)] /\ \A raw \in NodeTxs : f[raw] = <<ReadTx(TxPayload(raw, plus))>>
  BY TxNoteType
<1>. HIDE DEF f, N
<1>5. ASSUME NEW i \in 1..n
      PROVE  Kept(RawTx(txs[i])) \in Seq(NodeTxs) /\ Mapped(f, Kept(RawTx(txs[i]))) = notes(txs[i])
  <2>. DEFINE tx == txs[i]
              raw == RawTx(tx)
  <2>1. CASE Sapling(tx)
    <3>1. Kept(raw) = <<raw>> /\ raw \in NodeTxs
      BY <1>3, <2>1 DEF Kept
    <3>2. ReadTx(TxPayload(raw, plus)) = Notes(tx, plus)
      <4>1. tx \in Transaction /\ Len(RawTx(tx)) <= U32Max
        BY <1>3
      <4>. HIDE DEF tx
      <4>. QED  BY <2>1, <4>1, ReadsNotes DEF TxPayload
    <3>3. notes(tx) = <<Notes(tx, plus)>>
      BY <2>1
    <3>4. f[raw] = <<ReadTx(TxPayload(raw, plus))>>
      BY <1>4, <3>1
    <3>. HIDE DEF raw, notes, tx
    <3>5. Mapped(f, <<raw>>) = f[raw]
      <4>1. f \in [NodeTxs -> Seq(N)] /\ raw \in NodeTxs
        BY <1>4, <3>1
      <4>. QED  BY <4>1, MappedOne
    <3>6. <<raw>> \in Seq(NodeTxs)
      BY <3>1
    <3>7. Kept(raw) \in Seq(NodeTxs) /\ Mapped(f, Kept(raw)) = notes(tx)
      BY <3>1, <3>2, <3>3, <3>4, <3>5, <3>6, Zenon
    <3>. QED  BY <3>7 DEF raw, tx
  <2>2. CASE ~Sapling(tx)
    <3>1. Kept(raw) = <<>> /\ notes(tx) = <<>>
      BY <1>3, <2>2 DEF Kept
    <3>2. <<>> \in Seq(NodeTxs)
      OBVIOUS
    <3>3. Mapped(f, <<>>) = <<>>
      BY MappedEmpty
    <3>. HIDE DEF raw, notes, tx
    <3>4. Kept(raw) \in Seq(NodeTxs) /\ Mapped(f, Kept(raw)) = notes(tx)
      BY <3>1, <3>2, <3>3, Zenon
    <3>. QED  BY <3>4 DEF raw, tx
  <2>. QED  BY <2>1, <2>2
<1>6. ks \in Seq(Seq(NodeTxs)) /\ Len(ks) = n /\ \A i \in 1..n : ks[i] = Kept(RawTx(txs[i]))
  <2>1. \A i \in 1..n : Kept(RawTx(txs[i])) \in Seq(NodeTxs)
    BY <1>5
  <2>. HIDE DEF n
  <2>. QED  BY <1>2, <2>1
<1>7. [i \in 1..Len(ks) |-> Mapped(f, ks[i])] = [i \in 1..Len(txs) |-> notes(txs[i])]
  <2>. HIDE DEF notes, ks
  <2>. QED  BY <1>5, <1>6
<1>. HIDE DEF ks
<1>8. b.txs \in Seq(NodeTxs)
  <2>1. FlattenSeq(ks) \in Seq(NodeTxs)
    BY <1>6, FlattenType
  <2>. QED  BY <1>1, <2>1
<1>9. Mapped(f, b.txs) = Concat(notes, txs)
  <2>1. Maps(f, NodeTxs, N) /\ ks \in Seq(Seq(NodeTxs))
    BY <1>4, <1>6 DEF Maps
  <2>2. Mapped(f, FlattenSeq(ks)) = FlattenSeq([i \in 1..Len(ks) |-> Mapped(f, ks[i])])
    BY <2>1, MappedParts
  <2>3. Concat(notes, txs) = FlattenSeq([i \in 1..Len(txs) |-> notes(txs[i])])
    BY DEF Concat
  <2>. HIDE DEF notes
  <2>. QED  BY <1>1, <1>7, <2>2, <2>3, Zenon
<1>10. b \in NodeBlocks
  BY <1>1, <1>8 DEF NodeBlocks
<1>11. NotesOf(b, plus) = [height |-> h, txs |-> Concat(notes, txs)]
  <2>1. NotesOf(b, plus) = [height |-> b.height, txs |-> Mapped(f, b.txs)]
    BY DEF NotesOf, f
  <2>2. b.height = h
    BY <1>1
  <2>. QED  BY <1>9, <2>1, <2>2, Zenon
<1>. QED  BY <1>10, <1>11 DEF b

\* What a wallet that follows the format's description makes of a compact
\* stream is the node's chain: the heights, and of each block the nullifiers and
\* outputs of its Sapling transactions, whatever else is in them.  The bytes go
\* through block_scanner.rs, the file, the converter in api.rs and the counts of
\* stream.rs on the way.
THEOREM WalletSound == HeadTear = FALSE => (WireSpec => []WalletReadsChain)
<1>1. FileInv => WalletReadsChain
  <2>. SUFFICES ASSUME FileInv, up, NEW k \in 1..Len(stored), NEW plus \in BOOLEAN
                PROVE  LET notes(tx) == IF Sapling(tx) THEN <<Notes(tx, plus)>> ELSE <<>>
                       IN  ReadCompact(PivxCompatToCompact(Served(k), plus))
                             = [i \in 1..(Len(stored) - k + 1) |->
                                  [ height |-> k + i - 1,
                                    txs    |-> Concat(notes, stored[k + i - 1].txs) ]]
    BY DEF WalletReadsChain
  <2>. DEFINE notes(tx) == IF Sapling(tx) THEN <<Notes(tx, plus)>> ELSE <<>>
              bs == Suffix(Chain(stored), k - 1)
              n == Len(stored) - k + 1
  <2>1. /\ Served(k) = Stream(bs) /\ bs \in Seq(ShieldBlocks) /\ Len(bs) = n
        /\ \A i \in 1..Len(bs) : bs[i] = ShieldBlock(k + i - 1)
    BY ServedIs
  <2>2. /\ Len(stored) \in Nat /\ Len(stored) <= Len(Candidates) /\ Len(Candidates) \in Nat
        /\ \A i \in 1..Len(stored) : stored[i].txs \in Candidates[i]
    <3>1. IsIndex(stored)
      BY DEF FileInv
    <3>2. stored \in Seq(Entry) /\ Len(Candidates) \in Nat
      BY <3>1, CandidatesAssumption DEF IsIndex
    <3>3. Len(stored) \in Nat
      BY <3>2
    <3>. QED  BY <3>1, <3>2, <3>3 DEF IsIndex
  <2>. HIDE DEF bs
  <2>3. ASSUME NEW i \in 1..n
        PROVE  /\ bs[i] \in NodeBlocks
               /\ NotesOf(bs[i], plus)
                    = [height |-> k + i - 1, txs |-> Concat(notes, stored[k + i - 1].txs)]
    <3>. DEFINE h == k + i - 1
    <3>1. h \in 1..Len(Candidates) /\ h \in 1..Len(stored)
      BY <2>2
    <3>2. stored[h].txs \in Candidates[h]
      BY <2>2, <3>1
    <3>3. bs[i] = Scanned(h, stored[h].txs)
      BY <2>1 DEF ShieldBlock
    <3>. HIDE DEF h
    <3>4. /\ Scanned(h, stored[h].txs) \in NodeBlocks
          /\ NotesOf(Scanned(h, stored[h].txs), plus)
               = [height |-> h, txs |-> Concat(notes, stored[h].txs)]
      BY <3>1, <3>2, ScannedNotes
    <3>. HIDE DEF notes
    <3>5. /\ bs[i] \in NodeBlocks
          /\ NotesOf(bs[i], plus) = [height |-> h, txs |-> Concat(notes, stored[h].txs)]
      BY <3>3, <3>4, Zenon
    <3>. QED  BY <3>5 DEF h
  <2>4. bs \in Seq(NodeBlocks)
    <3>1. Len(bs) = n /\ bs \in Seq(ShieldBlocks)
      BY <2>1
    <3>2. \A i \in 1..n : bs[i] \in NodeBlocks
      BY <2>3
    <3>3. \A i \in 1..Len(bs) : bs[i] \in NodeBlocks
      <4>. HIDE DEF n
      <4>. QED  BY <3>1, <3>2
    <3>. HIDE DEF n
    <3>. QED  BY <3>1, <3>3
  <2>5. PivxCompatToCompact(Stream(bs), plus) = Mapped(CompactBlock(plus), bs)
    <3>1. bs \in Seq(ShieldBlocks)
      BY <2>1
    <3>. QED  BY <3>1, ConverterAgrees
  <2>6. ReadCompact(Mapped(CompactBlock(plus), bs)) = [i \in 1..Len(bs) |-> NotesOf(bs[i], plus)]
    BY <2>4, ReadsCompact
  <2>7. [i \in 1..Len(bs) |-> NotesOf(bs[i], plus)]
          = [i \in 1..n |-> [ height |-> k + i - 1,
                              txs    |-> Concat(notes, stored[k + i - 1].txs) ]]
    <3>1. Len(bs) = n
      BY <2>1
    <3>2. \A i \in 1..n : NotesOf(bs[i], plus)
             = [height |-> k + i - 1, txs |-> Concat(notes, stored[k + i - 1].txs)]
      BY <2>3
    <3>. HIDE DEF notes, n
    <3>. QED  BY <3>1, <3>2
  <2>8. Served(k) = Stream(bs)
    BY <2>1
  <2>. HIDE DEF notes, n
  <2>9. ReadCompact(PivxCompatToCompact(Served(k), plus))
          = [i \in 1..n |-> [ height |-> k + i - 1,
                              txs    |-> Concat(notes, stored[k + i - 1].txs) ]]
    BY <2>5, <2>6, <2>7, <2>8, Zenon
  <2>. QED  BY <2>9 DEF notes, n
<1>. QED  BY <1>1, FileSound, PTL
=============================================================================

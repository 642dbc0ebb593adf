---------------------------- MODULE ShamirProofs -----------------------------
(***************************************************************************)
(* Proofs about Shamir: Split and Combine are inverse to each other for    *)
(* every secret, threshold and number of shares, Combine never divides by  *)
(* zero, one share of two reveals nothing, and the tables of gf256.go are  *)
(* those of the field.                                                     *)
(*                                                                         *)
(* The argument: XOR is a group over which doubling distributes; 3         *)
(* generates the nonzero bytes, so the tables are inverse to each other;   *)
(* through their logarithms gfMul makes the bytes a field; the loops of    *)
(* Combine and evalPoly are unfolded by induction; interpolation at 0 is   *)
(* linear, forgets a point at which the values vanish, and takes the       *)
(* constant 1 to 1; so it takes a polynomial with fewer coefficients than  *)
(* points to its first one.                                                *)
(***************************************************************************)
EXTENDS Shamir, FiniteSetTheorems, WellFoundedInduction, SequenceTheorems, TLAPS

(***************************************************************************)
(* XOR: bytes form a commutative group in which every element is its own   *)
(* inverse.                                                                *)
(***************************************************************************)
Odd(p, q) == (p + q) % 2
Half(a, b) == 8 * Odd(a \div 8, b \div 8) + 4 * Odd(a \div 4, b \div 4)
              + 2 * Odd(a \div 2, b \div 2) + Odd(a, b)

(* The model's table of half-bytes is the XOR of the four bits. *)
LEMMA HalfXorIs == \A a, b \in 0 .. 15 : HalfXor[a][b] = Half(a, b)
  <1> SUFFICES ASSUME NEW a \in 0 .. 15, NEW b \in 0 .. 15
               PROVE  HalfXor[a][b] = Half(a, b)
    OBVIOUS
  <1>1. HalfXor[a][b] = BitXor(a, b, 8) + BitXor(a, b, 4) + BitXor(a, b, 2) + BitXor(a, b, 1)
    BY DEF HalfXor
  <1>2. a \div 1 = a /\ b \div 1 = b
    OBVIOUS
  <1> QED BY <1>1, <1>2 DEF BitXor, Half, Odd

(* Each bit of the XOR is the parity of the two bits. *)
LEMMA HalfBits ==
  ASSUME NEW a \in 0 .. 15, NEW b \in 0 .. 15
  PROVE  /\ Half(a, b) \in 0 .. 15
         /\ Half(a, b) \div 8 = Odd(a \div 8, b \div 8)
         /\ (Half(a, b) \div 4) % 2 = Odd(a \div 4, b \div 4)
         /\ (Half(a, b) \div 2) % 2 = Odd(a \div 2, b \div 2)
         /\ Half(a, b) % 2 = Odd(a, b)
  BY DEF Half, Odd

(* XOR of half-bytes is associative, because parity is. *)
LEMMA HalfAssociative ==
  ASSUME NEW a \in 0 .. 15, NEW b \in 0 .. 15, NEW c \in 0 .. 15
  PROVE  Half(Half(a, b), c) = Half(a, Half(b, c))
  <1> DEFINE ab == Half(a, b)
             bc == Half(b, c)
  <1>1. \A n \in 0 .. 15 : n \div 8 \in Nat /\ n \div 4 \in Nat /\ n \div 2 \in Nat /\ n \in Nat
    OBVIOUS
  <1>3. ab \in 0 .. 15 /\ bc \in 0 .. 15
    BY HalfBits
  <1>4. Odd(ab \div 8, c \div 8) = Odd(a \div 8, bc \div 8)
    <2>1. ab \div 8 = Odd(a \div 8, b \div 8) /\ bc \div 8 = Odd(b \div 8, c \div 8)
      BY HalfBits
    <2> HIDE DEF ab, bc
    <2> QED BY <1>1, <1>3, <2>1 DEF Odd
  <1>5. Odd(ab \div 4, c \div 4) = Odd(a \div 4, bc \div 4)
    <2>1. (ab \div 4) % 2 = Odd(a \div 4, b \div 4) /\ (bc \div 4) % 2 = Odd(b \div 4, c \div 4)
      BY HalfBits
    <2> HIDE DEF ab, bc
    <2> QED BY <1>1, <1>3, <2>1 DEF Odd
  <1>6. Odd(ab \div 2, c \div 2) = Odd(a \div 2, bc \div 2)
    <2>1. (ab \div 2) % 2 = Odd(a \div 2, b \div 2) /\ (bc \div 2) % 2 = Odd(b \div 2, c \div 2)
      BY HalfBits
    <2> HIDE DEF ab, bc
    <2> QED BY <1>1, <1>3, <2>1 DEF Odd
  <1>7. Odd(ab, c) = Odd(a, bc)
    <2>1. ab % 2 = Odd(a, b) /\ bc % 2 = Odd(b, c)
      BY HalfBits
    <2> HIDE DEF ab, bc
    <2> QED BY <1>1, <1>3, <2>1 DEF Odd
  <1> HIDE DEF ab, bc
  <1>8. Half(ab, c) = Half(a, bc)
    BY <1>4, <1>5, <1>6, <1>7, Zenon DEF Half
  <1> QED BY <1>8 DEF ab, bc

(* Half-bytes are a commutative group under XOR. *)
LEMMA HalfFacts ==
  /\ \A a, b \in 0 .. 15 : HalfXor[a][b] \in 0 .. 15 /\ HalfXor[a][b] = HalfXor[b][a]
  /\ \A a \in 0 .. 15 : HalfXor[a][0] = a /\ HalfXor[a][a] = 0
  /\ \A a, b, c \in 0 .. 15 : HalfXor[HalfXor[a][b]][c] = HalfXor[a][HalfXor[b][c]]
  <1>1. \A a, b \in 0 .. 15 : Half(a, b) \in 0 .. 15
    BY HalfBits
  <1>2. \A a, b \in 0 .. 15 : Half(a, b) = Half(b, a)
    BY DEF Half, Odd
  <1>3. \A a \in 0 .. 15 : Half(a, 0) = a /\ Half(a, a) = 0
    BY DEF Half, Odd
  <1>5. 0 \in 0 .. 15
    OBVIOUS
  <1>6. \A a, b \in 0 .. 15 : HalfXor[a][b] = Half(a, b)
    BY HalfXorIs
  <1>7. \A a, b, c \in 0 .. 15 : HalfXor[HalfXor[a][b]][c] = HalfXor[a][HalfXor[b][c]]
    <2> SUFFICES ASSUME NEW a \in 0 .. 15, NEW b \in 0 .. 15, NEW c \in 0 .. 15
                 PROVE  HalfXor[HalfXor[a][b]][c] = HalfXor[a][HalfXor[b][c]]
      OBVIOUS
    <2>1. Half(a, b) \in 0 .. 15 /\ Half(b, c) \in 0 .. 15
      BY <1>1
    <2>2. HalfXor[a][b] = Half(a, b) /\ HalfXor[b][c] = Half(b, c)
      BY <1>6
    <2>3. HalfXor[Half(a, b)][c] = Half(Half(a, b), c)
      BY <1>6, <2>1
    <2>4. HalfXor[a][Half(b, c)] = Half(a, Half(b, c))
      BY <1>6, <2>1
    <2>5. Half(Half(a, b), c) = Half(a, Half(b, c))
      BY HalfAssociative
    <2> QED BY <2>2, <2>3, <2>4, <2>5, Zenon
  <1>8. \A a, b \in 0 .. 15 : HalfXor[a][b] \in 0 .. 15 /\ HalfXor[a][b] = HalfXor[b][a]
    <2> SUFFICES ASSUME NEW a \in 0 .. 15, NEW b \in 0 .. 15
                 PROVE  HalfXor[a][b] \in 0 .. 15 /\ HalfXor[a][b] = HalfXor[b][a]
      OBVIOUS
    <2>1. HalfXor[a][b] = Half(a, b) /\ HalfXor[b][a] = Half(b, a)
      BY <1>6, Zenon
    <2>2. Half(a, b) \in 0 .. 15 /\ Half(a, b) = Half(b, a)
      BY <1>1, <1>2, Zenon
    <2> QED BY <2>1, <2>2, Zenon
  <1>9. \A a \in 0 .. 15 : HalfXor[a][0] = a /\ HalfXor[a][a] = 0
    BY <1>3, <1>5, <1>6
  <1> QED BY <1>7, <1>8, <1>9

(* The same for whole bytes. *)
LEMMA XorFacts ==
  /\ \A a, b \in Byte : xor(a, b) \in Byte /\ xor(a, b) = xor(b, a)
  /\ \A a \in Byte : xor(a, 0) = a /\ xor(0, a) = a /\ xor(a, a) = 0
  /\ \A a, b, c \in Byte : xor(xor(a, b), c) = xor(a, xor(b, c))
  <1> DEFINE X(a, b) == HalfXor[a][b]
  <1>0. /\ \A a, b \in 0 .. 15 : X(a, b) \in 0 .. 15 /\ X(a, b) = X(b, a)
        /\ \A a \in 0 .. 15 : X(a, 0) = a /\ X(a, a) = 0
        /\ \A a, b, c \in 0 .. 15 : X(X(a, b), c) = X(a, X(b, c))
    BY HalfFacts
  <1>00. \A a, b : xor(a, b) = 16 * X(a \div 16, b \div 16) + X(a % 16, b % 16)
    BY Zenon DEF xor
  <1> HIDE DEF X
  <1>1. \A a \in Byte : /\ a \div 16 \in 0 .. 15 /\ a % 16 \in 0 .. 15
                        /\ a = 16 * (a \div 16) + (a % 16)
    BY DEF Byte
  <1>2. \A h, l \in 0 .. 15 : /\ 16 * h + l \in Byte
                              /\ (16 * h + l) \div 16 = h /\ (16 * h + l) % 16 = l
    BY DEF Byte
  <1>3. ASSUME NEW a \in Byte, NEW b \in Byte
        PROVE  /\ xor(a, b) \in Byte
               /\ xor(a, b) \div 16 = X(a \div 16, b \div 16)
               /\ xor(a, b) % 16 = X(a % 16, b % 16)
    <2>1. X(a \div 16, b \div 16) \in 0 .. 15 /\ X(a % 16, b % 16) \in 0 .. 15
      BY <1>0, <1>1
    <2> QED BY <1>00, <1>2, <2>1
  <1>4. ASSUME NEW a \in Byte, NEW b \in Byte
        PROVE  xor(a, b) = xor(b, a)
    BY <1>0, <1>00, <1>1
  <1>5. 0 \in Byte /\ 0 \div 16 = 0 /\ 0 % 16 = 0
    BY DEF Byte
  <1>6. ASSUME NEW a \in Byte
        PROVE  xor(a, 0) = a /\ xor(a, a) = 0
    BY <1>0, <1>00, <1>1, <1>5, SMTT(30)
  <1>7. ASSUME NEW a \in Byte, NEW b \in Byte, NEW c \in Byte
        PROVE  xor(xor(a, b), c) = xor(a, xor(b, c))
    <2>1. /\ xor(xor(a, b), c) = 16 * X(X(a \div 16, b \div 16), c \div 16)
                                 + X(X(a % 16, b % 16), c % 16)
          /\ xor(a, xor(b, c)) = 16 * X(a \div 16, X(b \div 16, c \div 16))
                                 + X(a % 16, X(b % 16, c % 16))
      BY <1>00, <1>3
    <2> QED BY <1>0, <1>1, <2>1, SMTT(30)
  <1> QED BY <1>3, <1>4, <1>5, <1>6, <1>7

(***************************************************************************)
(* Induction over the natural numbers, as a fact about sets.               *)
(***************************************************************************)
(* A set of natural numbers that has a member has a least one. *)
LEMMA Least ==
  ASSUME NEW T, T \subseteq Nat, T # {}
  PROVE  \E n \in T : \A m \in T : n <= m
  <1> DEFINE R == {ss \in Nat \X Nat : ss[1] < ss[2]}
  <1>1. IsWellFoundedOn(R, Nat)
    BY NatLessThanWellFounded, Zenon DEF OpToRel
  <1>2. \E x \in T : \A y \in T : ~ (<<y, x>> \in R)
    BY <1>1, WFMin
  <1>3. \A x, y \in Nat : y < x => <<y, x>> \in R
    OBVIOUS
  <1> HIDE DEF R
  <1>4. PICK n \in T : \A y \in T : ~ (<<y, n>> \in R)
    BY <1>2
  <1>5. \A m \in T : ~(m < n)
    BY <1>3, <1>4, Zenon
  <1>6. \A m \in T : n <= m
    BY <1>5
  <1> QED BY <1>6

(* A set with 0 and with the successor of each member holds them all. *)
LEMMA Induction ==
  ASSUME NEW S, 0 \in S, \A n \in Nat : n \in S => n + 1 \in S
  PROVE  Nat \subseteq S
  <1> SUFFICES ASSUME Nat \ S # {}
               PROVE  FALSE
    OBVIOUS
  <1>1. PICK n \in Nat \ S : \A m \in Nat \ S : n <= m
    BY Least
  <1>2. n # 0 /\ n - 1 \in Nat
    OBVIOUS
  <1>3. n - 1 \in S
    BY <1>1, <1>2
  <1> QED BY <1>2, <1>3

(***************************************************************************)
(* The loops of gfMulSlow and init.                                        *)
(***************************************************************************)

(* A sequence of values, each got from the one before, exists. *)
Chained(S, x, G, n) == \E d \in [0 .. n -> S] :
                         d[0] = x /\ \A i \in 1 .. n : d[i] = G[i][d[i - 1]]
LEMMA Chain ==
  ASSUME NEW S, NEW x \in S, NEW G \in [Nat -> [S -> S]]
  PROVE  \A n \in Nat : Chained(S, x, G, n)
  <1> DEFINE OK(n, d) == d[0] = x /\ \A i \in 1 .. n : d[i] = G[i][d[i - 1]]
             T == {n \in Nat : \E d \in [0 .. n -> S] : OK(n, d)}
  <1>1. 0 \in T
    <2> DEFINE d == [i \in 0 .. 0 |-> x]
    <2>1. d \in [0 .. 0 -> S] /\ OK(0, d)
      OBVIOUS
    <2> QED BY <2>1
  <1>2. ASSUME NEW n \in Nat, n \in T
        PROVE  n + 1 \in T
    <2>1. PICK d \in [0 .. n -> S] : OK(n, d)
      BY <1>2
    <2> DEFINE v == G[n + 1][d[n]]
               q == [i \in 0 .. n + 1 |-> IF i = n + 1 THEN v ELSE d[i]]
    <2>2. v \in S
      <3>1. n + 1 \in Nat /\ d[n] \in S
        OBVIOUS
      <3> QED BY <3>1
    <2> HIDE DEF v
    <2>3. q \in [0 .. n + 1 -> S]
      BY <2>2
    <2>4. q[0] = x
      BY <2>1
    <2>5. \A i \in 1 .. n + 1 : q[i] = G[i][q[i - 1]]
      <3> TAKE i \in 1 .. n + 1
      <3>1. CASE i = n + 1
        BY <3>1 DEF v
      <3>2. CASE i # n + 1
        BY <3>2, <2>1
      <3> QED BY <3>1, <3>2
    <2> HIDE DEF q
    <2>6. \E e \in [0 .. n + 1 -> S] : OK(n + 1, e)
      BY <2>3, <2>4, <2>5
    <2> QED BY <2>6
  <1> HIDE DEF T
  <1>3. Nat \subseteq T
    BY <1>1, <1>2, Induction
  <1> QED BY <1>3 DEF T, Chained

(* Doubling a byte modulo the reduction polynomial. *)
Dbl(v) == xor((2 * v) % 256, IF v >= 128 THEN 27 ELSE 0)
Bit(b, i) == (b \div 2^i) % 2

DoubledLoop(a, d) == d = [i \in 0 .. 8 |-> IF i = 0 THEN a ELSE
                            xor((2 * d[i - 1]) % 256, IF d[i - 1] >= 128 THEN 27 ELSE 0)]
Doubled(a) == CHOOSE d : DoubledLoop(a, d)
AddedLoop(b, d, p) == p = [i \in 0 .. 8 |-> IF i = 0 THEN 0 ELSE
                             IF (b \div 2^(i - 1)) % 2 = 1 THEN xor(p[i - 1], d[i - 1])
                             ELSE p[i - 1]]
Added(a, b) == CHOOSE p : AddedLoop(b, Doubled(a), p)

(* Doubling gives a byte. *)
LEMMA DblIsAByte == \A v \in Byte : Dbl(v) \in Byte
  <1> SUFFICES ASSUME NEW v \in Byte
               PROVE  Dbl(v) \in Byte
    OBVIOUS
  <1>1. (2 * v) % 256 \in Byte /\ (IF v >= 128 THEN 27 ELSE 0) \in Byte
    BY DEF Byte
  <1> QED BY <1>1, XorFacts DEF Dbl

(* Round by round, gfMulSlow doubles a ... *)
LEMMA DoubledRounds ==
  ASSUME NEW a \in Byte
  PROVE  /\ Doubled(a)[0] = a
         /\ \A i \in 0 .. 8 : Doubled(a)[i] \in Byte
         /\ \A i \in 0 .. 7 : Doubled(a)[i + 1] = Dbl(Doubled(a)[i])
  <1> DEFINE G == [i \in Nat |-> [v \in Byte |-> Dbl(v)]]
  <1>1. G \in [Nat -> [Byte -> Byte]]
    BY DblIsAByte
  <1> HIDE DEF G
  <1>2. PICK d \in [0 .. 8 -> Byte] : d[0] = a /\ \A i \in 1 .. 8 : d[i] = G[i][d[i - 1]]
    <2>1. \A n \in Nat : Chained(Byte, a, G, n)
      BY <1>1, Chain
    <2> QED BY <2>1 DEF Chained
  <1>3. \A i \in 1 .. 8 : d[i] = Dbl(d[i - 1])
    <2> TAKE i \in 1 .. 8
    <2>1. i \in Nat /\ d[i - 1] \in Byte
      OBVIOUS
    <2> QED BY <1>2, <2>1 DEF G
  <1>4. DoubledLoop(a, d)
    BY <1>2, <1>3 DEF DoubledLoop, Dbl
  <1>5. DoubledLoop(a, Doubled(a))
    BY <1>4, Zenon DEF Doubled
  <1> DEFINE e == Doubled(a)
  <1> HIDE DEF e
  <1>6. \A i \in 0 .. 8 : e[i] = IF i = 0 THEN a ELSE Dbl(e[i - 1])
    BY <1>5 DEF DoubledLoop, Dbl, e
  <1>7. e[0] = a /\ \A i \in 0 .. 7 : e[i + 1] = Dbl(e[i])
    BY <1>6
  <1>8. \A i \in 0 .. 8 : e[i] \in Byte
    <2> DEFINE S == {i \in Nat : i <= 8 => e[i] \in Byte}
    <2>1. 0 \in S
      BY <1>7
    <2>2. \A i \in Nat : i \in S => i + 1 \in S
      BY <1>7, DblIsAByte
    <2> HIDE DEF S
    <2>3. Nat \subseteq S
      BY <2>1, <2>2, Induction
    <2> QED BY <2>3 DEF S
  <1> QED BY <1>7, <1>8 DEF e

(* ... and adds it to the product where b has a bit. *)
LEMMA AddedRounds ==
  ASSUME NEW a \in Byte, NEW b \in Byte
  PROVE  /\ gfMulSlow(a, b) = Added(a, b)[8]
         /\ Added(a, b)[0] = 0
         /\ \A i \in 0 .. 8 : Added(a, b)[i] \in Byte
         /\ \A i \in 0 .. 7 : Added(a, b)[i + 1] = IF Bit(b, i) = 1
                                                    THEN xor(Added(a, b)[i], Doubled(a)[i])
                                                    ELSE Added(a, b)[i]
  <1>0. gfMulSlow(a, b) = Added(a, b)[8]
    BY Zenon DEF gfMulSlow, Added, AddedLoop, Doubled, DoubledLoop
  <1> DEFINE D == Doubled(a)
             G == [i \in Nat |-> [v \in Byte |-> IF i \in 1 .. 8 /\ Bit(b, i - 1) = 1
                                                 THEN xor(v, D[i - 1]) ELSE v]]
  <1>a. \A i \in 0 .. 8 : D[i] \in Byte
    BY DoubledRounds
  <1> HIDE DEF D
  <1>1. G \in [Nat -> [Byte -> Byte]]
    <2>1. ASSUME NEW i \in Nat, NEW v \in Byte
          PROVE  (IF i \in 1 .. 8 /\ Bit(b, i - 1) = 1 THEN xor(v, D[i - 1]) ELSE v) \in Byte
      <3>1. i \in 1 .. 8 => xor(v, D[i - 1]) \in Byte
        <4> HAVE i \in 1 .. 8
        <4>1. D[i - 1] \in Byte
          BY <1>a
        <4> QED BY <4>1, XorFacts
      <3> QED BY <3>1
    <2> QED BY <2>1
  <1> HIDE DEF G
  <1>b. 0 \in Byte
    BY DEF Byte
  <1>2. PICK p \in [0 .. 8 -> Byte] : p[0] = 0 /\ \A i \in 1 .. 8 : p[i] = G[i][p[i - 1]]
    <2>1. \A n \in Nat : Chained(Byte, 0, G, n)
      BY <1>1, <1>b, Chain
    <2> QED BY <2>1 DEF Chained
  <1>3. \A i \in 1 .. 8 : p[i] = IF Bit(b, i - 1) = 1 THEN xor(p[i - 1], D[i - 1]) ELSE p[i - 1]
    <2> TAKE i \in 1 .. 8
    <2>1. i \in Nat /\ p[i - 1] \in Byte
      OBVIOUS
    <2> QED BY <1>2, <2>1 DEF G
  <1>4. AddedLoop(b, D, p)
    BY <1>2, <1>3 DEF AddedLoop, Bit
  <1>5. AddedLoop(b, D, Added(a, b))
    BY <1>4, Zenon DEF Added, D
  <1> DEFINE e == Added(a, b)
  <1> HIDE DEF e
  <1>6. \A i \in 0 .. 8 : e[i] = IF i = 0 THEN 0 ELSE
                                 IF Bit(b, i - 1) = 1 THEN xor(e[i - 1], D[i - 1]) ELSE e[i - 1]
    BY <1>5 DEF AddedLoop, Bit, e
  <1>7. e[0] = 0 /\ \A i \in 0 .. 7 : e[i + 1] = IF Bit(b, i) = 1 THEN xor(e[i], D[i]) ELSE e[i]
    BY <1>6
  <1>8. \A i \in 0 .. 8 : e[i] \in Byte
    <2> DEFINE S == {i \in Nat : i <= 8 => e[i] \in Byte}
    <2>1. 0 \in S
      BY <1>7, <1>b
    <2>2. \A i \in Nat : i \in S => i + 1 \in S
      <3> TAKE i \in Nat
      <3> HAVE i \in S
      <3> SUFFICES ASSUME i + 1 <= 8
                   PROVE  e[i + 1] \in Byte
        OBVIOUS
      <3>1. i \in 0 .. 7 /\ e[i] \in Byte /\ D[i] \in Byte
        BY <1>a
      <3>2. xor(e[i], D[i]) \in Byte
        BY <3>1, XorFacts
      <3> QED BY <1>7, <3>1, <3>2
    <2> HIDE DEF S
    <2>3. Nat \subseteq S
      BY <2>1, <2>2, Induction
    <2> QED BY <2>3 DEF S
  <1> QED BY <1>0, <1>7, <1>8, Zenon DEF e, D

(* Three times a byte is the byte and its double. *)
LEMMA ThriceIs == \A a \in Byte : Thrice[a] = xor(a, Dbl(a)) /\ Thrice[a] \in Byte
  <1> SUFFICES ASSUME NEW a \in Byte
               PROVE  Thrice[a] = xor(a, Dbl(a)) /\ Thrice[a] \in Byte
    OBVIOUS
  <1> DEFINE p == Added(a, 3)
             d == Doubled(a)
  <1>1. 3 \in Byte
    BY DEF Byte
  <1>2. /\ gfMulSlow(a, 3) = p[8] /\ p[0] = 0
        /\ \A i \in 0 .. 7 : p[i + 1] = IF Bit(3, i) = 1 THEN xor(p[i], d[i]) ELSE p[i]
    BY <1>1, AddedRounds
  <1>3. d[0] = a /\ d[1] = Dbl(a)
    <2>1. d[0 + 1] = Dbl(d[0]) /\ d[0] = a
      BY DoubledRounds
    <2> QED BY <2>1
  <1> HIDE DEF p, d
  <1>4. Bit(3, 0) = 1 /\ Bit(3, 1) = 1 /\ \A i \in 2 .. 7 : Bit(3, i) = 0
    BY DEF Bit
  <1>5. p[1] = xor(0, a) /\ p[2] = xor(p[1], Dbl(a))
    BY <1>2, <1>3, <1>4
  <1>6. p[3] = p[2] /\ p[4] = p[3] /\ p[5] = p[4] /\ p[6] = p[5] /\ p[7] = p[6] /\ p[8] = p[7]
    BY <1>2, <1>4
  <1>7. xor(0, a) = a /\ xor(a, Dbl(a)) \in Byte
    BY XorFacts, DblIsAByte
  <1> QED BY <1>2, <1>5, <1>6, <1>7 DEF Thrice

(***************************************************************************)
(* Doubling distributes over XOR.                                          *)
(***************************************************************************)
LEMMA XorSwap ==
  ASSUME NEW a \in Byte, NEW b \in Byte, NEW c \in Byte, NEW d \in Byte
  PROVE  xor(xor(a, b), xor(c, d)) = xor(xor(a, c), xor(b, d))
  <1>1. xor(xor(a, b), xor(c, d)) = xor(a, xor(b, xor(c, d)))
    BY XorFacts
  <1>2. xor(b, xor(c, d)) = xor(c, xor(b, d))
    BY XorFacts
  <1>3. xor(a, xor(c, xor(b, d))) = xor(xor(a, c), xor(b, d))
    BY XorFacts
  <1> QED BY <1>1, <1>2, <1>3

(* A half-byte from its bits. *)
Nibble(p, q, r, s) == 8 * p + 4 * q + 2 * r + s
LEMMA Bits ==
  \A a \in 0 .. 15 : \E p, q, r, s \in {0, 1} : a = Nibble(p, q, r, s)
  <1> SUFFICES ASSUME NEW a \in 0 .. 15
               PROVE  \E p, q, r, s \in {0, 1} : a = Nibble(p, q, r, s)
    OBVIOUS
  <1> DEFINE p == a \div 8
             q == (a \div 4) % 2
             r == (a \div 2) % 2
             s == a % 2
  <1>1. p \in {0, 1} /\ q \in {0, 1} /\ r \in {0, 1} /\ s \in {0, 1}
    OBVIOUS
  <1>2. a = 8 * p + 4 * q + 2 * r + s
    OBVIOUS
  <1> QED BY <1>1, <1>2 DEF Nibble

(* XOR of half-bytes, bit by bit. *)
LEMMA HalfOfBits ==
  ASSUME NEW p \in {0, 1}, NEW q \in {0, 1}, NEW r \in {0, 1}, NEW s \in {0, 1},
         NEW t \in {0, 1}, NEW u \in {0, 1}, NEW v \in {0, 1}, NEW w \in {0, 1}
  PROVE  HalfXor[Nibble(p, q, r, s)][Nibble(t, u, v, w)]
           = Nibble(Odd(p, t), Odd(q, u), Odd(r, v), Odd(s, w))
  <1> DEFINE a == Nibble(p, q, r, s)
             b == Nibble(t, u, v, w)
  <1>1. a \in 0 .. 15 /\ b \in 0 .. 15
    BY DEF Nibble
  <1>2. HalfXor[a][b] = Half(a, b)
    BY <1>1, HalfXorIs, Zenon
  <1>3. /\ a \div 8 = p /\ b \div 8 = t
        /\ a \div 4 = 2 * p + q /\ b \div 4 = 2 * t + u
        /\ a \div 2 = 4 * p + 2 * q + r /\ b \div 2 = 4 * t + 2 * u + v
    BY DEF Nibble
  <1>4. Odd(a \div 4, b \div 4) = Odd(q, u)
    BY <1>3 DEF Odd
  <1>5. Odd(a \div 2, b \div 2) = Odd(r, v)
    BY <1>3 DEF Odd
  <1>6. Odd(a, b) = Odd(s, w)
    BY DEF Odd, Nibble
  <1>7. Half(a, b) = Nibble(Odd(p, t), Odd(q, u), Odd(r, v), Odd(s, w))
    BY <1>3, <1>4, <1>5, <1>6 DEF Half, Nibble
  <1> QED BY <1>2, <1>7

(* A byte from its halves, and their XOR. *)
LEMMA Halves ==
  ASSUME NEW a \in Byte
  PROVE  \E h, l \in 0 .. 15 : a = 16 * h + l
  <1>1. a \div 16 \in 0 .. 15 /\ a % 16 \in 0 .. 15 /\ a = 16 * (a \div 16) + (a % 16)
    BY DEF Byte
  <1> QED BY <1>1

ByHalves(h, l, i, m) ==
  xor(16 * h + l, 16 * i + m) = 16 * HalfXor[h][i] + HalfXor[l][m]
LEMMA XorOfHalves ==
  ASSUME NEW h \in 0 .. 15, NEW l \in 0 .. 15, NEW i \in 0 .. 15, NEW m \in 0 .. 15
  PROVE  ByHalves(h, l, i, m)
  <1>1. /\ (16 * h + l) \div 16 = h /\ (16 * h + l) % 16 = l
        /\ (16 * i + m) \div 16 = i /\ (16 * i + m) % 16 = m
    OBVIOUS
  <1> QED BY <1>1, Zenon DEF xor, ByHalves

Shifted(v) == (2 * v) % 256
Reduced(v) == IF v >= 128 THEN 27 ELSE 0

(* Shifting moves the bits of a and b alike, and the reduction is by 27 if *)
(* one of the two highest bits is set: both distribute over XOR.           *)
LEMMA DblAdds ==
  ASSUME NEW a \in Byte, NEW b \in Byte
  PROVE  Dbl(xor(a, b)) = xor(Dbl(a), Dbl(b))
  <1>1. PICK h \in 0 .. 15, l \in 0 .. 15 : a = 16 * h + l
    BY Halves
  <1>2. PICK i \in 0 .. 15, m \in 0 .. 15 : b = 16 * i + m
    BY Halves
  <1>3. PICK p \in {0, 1}, q \in {0, 1}, r \in {0, 1}, s \in {0, 1} : h = Nibble(p, q, r, s)
    BY Bits
  <1>4. PICK pl \in {0, 1}, ql \in {0, 1}, rl \in {0, 1}, sl \in {0, 1} :
               l = Nibble(pl, ql, rl, sl)
    BY Bits
  <1>5. PICK t \in {0, 1}, u \in {0, 1}, v \in {0, 1}, w \in {0, 1} : i = Nibble(t, u, v, w)
    BY Bits
  <1>6. PICK tl \in {0, 1}, ul \in {0, 1}, vl \in {0, 1}, wl \in {0, 1} :
               m = Nibble(tl, ul, vl, wl)
    BY Bits
  <1> DEFINE B(c, d) == Odd(c, d)
  <1>7. \A c, d \in {0, 1} : B(c, d) \in {0, 1}
    BY DEF Odd
  <1>8. xor(a, b) = 16 * Nibble(B(p, t), B(q, u), B(r, v), B(s, w))
                    + Nibble(B(pl, tl), B(ql, ul), B(rl, vl), B(sl, wl))
    <2>1. xor(a, b) = 16 * HalfXor[h][i] + HalfXor[l][m]
      <3>1. ByHalves(h, l, i, m)
        BY XorOfHalves
      <3> QED BY <1>1, <1>2, <3>1, Zenon DEF ByHalves
    <2>2. HalfXor[h][i] = Nibble(B(p, t), B(q, u), B(r, v), B(s, w))
      BY <1>3, <1>5, HalfOfBits
    <2>3. HalfXor[l][m] = Nibble(B(pl, tl), B(ql, ul), B(rl, vl), B(sl, wl))
      BY <1>4, <1>6, HalfOfBits
    <2> QED BY <2>1, <2>2, <2>3
  <1>9. ASSUME NEW b7 \in {0, 1}, NEW b6 \in {0, 1}, NEW b5 \in {0, 1}, NEW b4 \in {0, 1},
               NEW b3 \in {0, 1}, NEW b2 \in {0, 1}, NEW b1 \in {0, 1}, NEW b0 \in {0, 1},
               NEW e, e = 16 * Nibble(b7, b6, b5, b4) + Nibble(b3, b2, b1, b0)
        PROVE  /\ Shifted(e) = 16 * Nibble(b6, b5, b4, b3) + Nibble(b2, b1, b0, 0)
               /\ Reduced(e) = IF b7 = 1 THEN 27 ELSE 0
    BY <1>9 DEF Shifted, Reduced, Nibble
  <1>10. /\ Shifted(a) = 16 * Nibble(q, r, s, pl) + Nibble(ql, rl, sl, 0)
         /\ Reduced(a) = IF p = 1 THEN 27 ELSE 0
    BY <1>1, <1>3, <1>4, <1>9
  <1>11. /\ Shifted(b) = 16 * Nibble(u, v, w, tl) + Nibble(ul, vl, wl, 0)
         /\ Reduced(b) = IF t = 1 THEN 27 ELSE 0
    BY <1>2, <1>5, <1>6, <1>9
  <1>12. /\ Shifted(xor(a, b)) = 16 * Nibble(B(q, u), B(r, v), B(s, w), B(pl, tl))
                                 + Nibble(B(ql, ul), B(rl, vl), B(sl, wl), 0)
         /\ Reduced(xor(a, b)) = IF B(p, t) = 1 THEN 27 ELSE 0
    BY <1>7, <1>8, <1>9
  <1>13. xor(Shifted(a), Shifted(b)) = Shifted(xor(a, b))
    <2>1. /\ Nibble(q, r, s, pl) \in 0 .. 15 /\ Nibble(ql, rl, sl, 0) \in 0 .. 15
          /\ Nibble(u, v, w, tl) \in 0 .. 15 /\ Nibble(ul, vl, wl, 0) \in 0 .. 15
      BY DEF Nibble
    <2>2. xor(Shifted(a), Shifted(b)) =
            16 * HalfXor[Nibble(q, r, s, pl)][Nibble(u, v, w, tl)]
            + HalfXor[Nibble(ql, rl, sl, 0)][Nibble(ul, vl, wl, 0)]
      <3> DEFINE x == Nibble(q, r, s, pl)
                 y == Nibble(ql, rl, sl, 0)
                 x2 == Nibble(u, v, w, tl)
                 y2 == Nibble(ul, vl, wl, 0)
      <3> HIDE DEF x, y, x2, y2
      <3>1. x \in 0 .. 15 /\ y \in 0 .. 15 /\ x2 \in 0 .. 15 /\ y2 \in 0 .. 15
        BY <2>1 DEF x, y, x2, y2
      <3>2. ByHalves(x, y, x2, y2)
        BY <3>1, XorOfHalves
      <3> QED BY <1>10, <1>11, <3>2, Zenon DEF x, y, x2, y2, ByHalves
    <2>3. HalfXor[Nibble(q, r, s, pl)][Nibble(u, v, w, tl)]
            = Nibble(B(q, u), B(r, v), B(s, w), B(pl, tl))
      BY HalfOfBits
    <2>4. HalfXor[Nibble(ql, rl, sl, 0)][Nibble(ul, vl, wl, 0)]
            = Nibble(B(ql, ul), B(rl, vl), B(sl, wl), B(0, 0))
      BY HalfOfBits
    <2>5. B(0, 0) = 0
      BY DEF Odd
    <2> QED BY <1>12, <2>2, <2>3, <2>4, <2>5
  <1>14. xor(Reduced(a), Reduced(b)) = Reduced(xor(a, b))
    <2>1. xor(27, 27) = 0 /\ xor(27, 0) = 27 /\ xor(0, 27) = 27 /\ xor(0, 0) = 0
      <3>1. 27 \in Byte /\ 0 \in Byte
        BY DEF Byte
      <3> QED BY <3>1, XorFacts
    <2>2. B(0, 0) = 0 /\ B(1, 1) = 0 /\ B(1, 0) = 1 /\ B(0, 1) = 1
      BY DEF Odd
    <2> HIDE DEF B
    <2>3. p \in {0, 1} /\ t \in {0, 1}
      OBVIOUS
    <2> QED BY <1>10, <1>11, <1>12, <2>1, <2>2, <2>3
  <1>15. /\ Shifted(a) \in Byte /\ Shifted(b) \in Byte
         /\ Reduced(a) \in Byte /\ Reduced(b) \in Byte
    BY DEF Byte, Shifted, Reduced
  <1>16. \A c : Dbl(c) = xor(Shifted(c), Reduced(c))
    BY Zenon DEF Dbl, Shifted, Reduced
  <1>17. xor(xor(Shifted(a), Shifted(b)), xor(Reduced(a), Reduced(b)))
           = xor(xor(Shifted(a), Reduced(a)), xor(Shifted(b), Reduced(b)))
    BY <1>15, XorSwap
  <1> QED BY <1>13, <1>14, <1>16, <1>17

(***************************************************************************)
(* The powers of 3.                                                        *)
(***************************************************************************)
Low(a) == 2 * a - (IF a >= 128 THEN 256 ELSE 0)
Sum16(a, b) == 16 * Half(a \div 16, b \div 16) + Half(a % 16, b % 16)
(* XOR in arithmetic terms. *)
LEMMA XorIs ==
  ASSUME NEW a \in Byte, NEW b \in Byte
  PROVE  xor(a, b) = Sum16(a, b)
  <1>1. /\ a \div 16 \in 0 .. 15 /\ b \div 16 \in 0 .. 15
        /\ a % 16 \in 0 .. 15 /\ b % 16 \in 0 .. 15
    BY DEF Byte
  <1>2. HalfXor[a \div 16][b \div 16] = Half(a \div 16, b \div 16)
    BY <1>1, HalfXorIs
  <1>3. HalfXor[a % 16][b % 16] = Half(a % 16, b % 16)
    BY <1>1, HalfXorIs
  <1> QED BY <1>2, <1>3, Zenon DEF xor, Sum16

(* Tripling in arithmetic terms, for the computation of the powers. *)
LEMMA ThriceComputed ==
  ASSUME NEW a \in 0 .. 255
  PROVE  Thrice[a] = Sum16(a, Sum16((2 * a) % 256, IF a >= 128 THEN 27 ELSE 0))
  <1>1. a \in Byte /\ (2 * a) % 256 \in Byte /\ (IF a >= 128 THEN 27 ELSE 0) \in Byte
    BY DEF Byte
  <1>2. Dbl(a) = Sum16((2 * a) % 256, IF a >= 128 THEN 27 ELSE 0)
    BY <1>1, XorIs, Zenon DEF Dbl
  <1>3. Dbl(a) \in Byte
    BY <1>1, DblIsAByte
  <1>4. xor(a, Dbl(a)) = Sum16(a, Dbl(a))
    BY <1>1, <1>3, XorIs
  <1> QED BY <1>1, <1>2, <1>4, ThriceIs, Zenon

PowerLoop(p) == p = [i \in 0 .. 254 |-> IF i = 0 THEN 1 ELSE Thrice[p[i - 1]]]
(* The loop of init. *)
LEMMA PowerRounds ==
  /\ power[0] = 1
  /\ \A i \in 0 .. 254 : power[i] \in Byte
  /\ \A i \in 0 .. 253 : power[i + 1] = Thrice[power[i]]
  <1> DEFINE G == [i \in Nat |-> [v \in Byte |-> Thrice[v]]]
  <1>1. G \in [Nat -> [Byte -> Byte]]
    BY ThriceIs
  <1> HIDE DEF G
  <1>2. 1 \in Byte
    BY DEF Byte
  <1>3. PICK p \in [0 .. 254 -> Byte] : p[0] = 1 /\ \A i \in 1 .. 254 : p[i] = G[i][p[i - 1]]
    <2>1. \A n \in Nat : Chained(Byte, 1, G, n)
      BY <1>1, <1>2, Chain
    <2>2. Chained(Byte, 1, G, 254)
      BY <2>1
    <2> QED BY <2>2, Zenon DEF Chained
  <1>4. \A i \in 1 .. 254 : p[i] = Thrice[p[i - 1]]
    <2> TAKE i \in 1 .. 254
    <2>1. i \in Nat /\ p[i - 1] \in Byte
      OBVIOUS
    <2> QED BY <1>3, <2>1 DEF G
  <1>5. PowerLoop(p)
    <2>1. \A i \in 0 .. 254 : p[i] = IF i = 0 THEN 1 ELSE Thrice[p[i - 1]]
      <3> TAKE i \in 0 .. 254
      <3>1. CASE i = 0
        BY <3>1, <1>3
      <3>2. CASE i # 0
        <4>1. i \in 1 .. 254
          BY <3>2
        <4> QED BY <3>2, <4>1, <1>4
      <3> QED BY <3>1, <3>2
    <2>2. p = [i \in 0 .. 254 |-> p[i]]
      OBVIOUS
    <2>3. p = [i \in 0 .. 254 |-> IF i = 0 THEN 1 ELSE Thrice[p[i - 1]]]
      BY <2>1, <2>2
    <2> QED BY <2>3, Zenon DEF PowerLoop
  <1>6. PowerLoop(power)
    BY <1>5, Zenon DEF power, PowerLoop
  <1>7. \A i \in 0 .. 254 : power[i] = IF i = 0 THEN 1 ELSE Thrice[power[i - 1]]
    BY <1>6 DEF PowerLoop
  <1>8. power[0] = 1 /\ \A i \in 0 .. 253 : power[i + 1] = Thrice[power[i]]
    <2>1. power[0] = 1
      <3>1. 0 \in 0 .. 254
        OBVIOUS
      <3> QED BY <1>7, <3>1, Zenon
    <2>2. ASSUME NEW i \in 0 .. 253
          PROVE  power[i + 1] = Thrice[power[i]]
      <3>1. i + 1 \in 0 .. 254 /\ i + 1 # 0 /\ (i + 1) - 1 = i
        OBVIOUS
      <3>2. power[i + 1] = Thrice[power[(i + 1) - 1]]
        BY <1>7, <3>1, Zenon
      <3> QED BY <3>1, <3>2
    <2> QED BY <2>1, <2>2
  <1>9. \A i \in 0 .. 254 : power[i] \in Byte
    <2> DEFINE S == {i \in Nat : i <= 254 => power[i] \in Byte}
    <2>1. 0 \in S
      BY <1>8, <1>2
    <2>2. \A i \in Nat : i \in S => i + 1 \in S
      BY <1>8, ThriceIs
    <2> HIDE DEF S
    <2>3. Nat \subseteq S
      BY <2>1, <2>2, Induction
    <2> QED BY <2>3 DEF S
  <1> QED BY <1>8, <1>9

(* The powers themselves, fifteen at a time. *)
LEMMA Powers ==
  power[1] = 3 /\ power[254] = 246 /\ Thrice[246] = 1 /\ \A i \in 1 .. 254 : power[i] # 1
  <1>1. /\ power[1] = 3 /\ power[2] = 5 /\ power[3] = 15 /\ power[4] = 17 /\ power[5] = 51
        /\ power[6] = 85 /\ power[7] = 255 /\ power[8] = 26 /\ power[9] = 46 /\ power[10] = 114
        /\ power[11] = 150 /\ power[12] = 161 /\ power[13] = 248 /\ power[14] = 19 /\ power[15] = 53
    BY PowerRounds, ThriceComputed DEF Sum16, Half, Odd
  <1>2. /\ power[16] = 95 /\ power[17] = 225 /\ power[18] = 56 /\ power[19] = 72 /\ power[20] = 216
        /\ power[21] = 115 /\ power[22] = 149 /\ power[23] = 164 /\ power[24] = 247 /\ power[25] = 2
        /\ power[26] = 6 /\ power[27] = 10 /\ power[28] = 30 /\ power[29] = 34 /\ power[30] = 102
    BY <1>1, PowerRounds, ThriceComputed DEF Sum16, Half, Odd
  <1>3. /\ power[31] = 170 /\ power[32] = 229 /\ power[33] = 52 /\ power[34] = 92 /\ power[35] = 228
        /\ power[36] = 55 /\ power[37] = 89 /\ power[38] = 235 /\ power[39] = 38 /\ power[40] = 106
        /\ power[41] = 190 /\ power[42] = 217 /\ power[43] = 112 /\ power[44] = 144 /\ power[45] = 171
    BY <1>2, PowerRounds, ThriceComputed DEF Sum16, Half, Odd
  <1>4. /\ power[46] = 230 /\ power[47] = 49 /\ power[48] = 83 /\ power[49] = 245 /\ power[50] = 4
        /\ power[51] = 12 /\ power[52] = 20 /\ power[53] = 60 /\ power[54] = 68 /\ power[55] = 204
        /\ power[56] = 79 /\ power[57] = 209 /\ power[58] = 104 /\ power[59] = 184 /\ power[60] = 211
    BY <1>3, PowerRounds, ThriceComputed DEF Sum16, Half, Odd
  <1>5. /\ power[61] = 110 /\ power[62] = 178 /\ power[63] = 205 /\ power[64] = 76 /\ power[65] = 212
        /\ power[66] = 103 /\ power[67] = 169 /\ power[68] = 224 /\ power[69] = 59 /\ power[70] = 77
        /\ power[71] = 215 /\ power[72] = 98 /\ power[73] = 166 /\ power[74] = 241 /\ power[75] = 8
    BY <1>4, PowerRounds, ThriceComputed DEF Sum16, Half, Odd
  <1>6. /\ power[76] = 24 /\ power[77] = 40 /\ power[78] = 120 /\ power[79] = 136 /\ power[80] = 131
        /\ power[81] = 158 /\ power[82] = 185 /\ power[83] = 208 /\ power[84] = 107 /\ power[85] = 189
        /\ power[86] = 220 /\ power[87] = 127 /\ power[88] = 129 /\ power[89] = 152 /\ power[90] = 179
    BY <1>5, PowerRounds, ThriceComputed DEF Sum16, Half, Odd
  <1>7. /\ power[91] = 206 /\ power[92] = 73 /\ power[93] = 219 /\ power[94] = 118
        /\ power[95] = 154 /\ power[96] = 181 /\ power[97] = 196 /\ power[98] = 87
        /\ power[99] = 249 /\ power[100] = 16 /\ power[101] = 48 /\ power[102] = 80
        /\ power[103] = 240 /\ power[104] = 11 /\ power[105] = 29
    BY <1>6, PowerRounds, ThriceComputed DEF Sum16, Half, Odd
  <1>8. /\ power[106] = 39 /\ power[107] = 105 /\ power[108] = 187 /\ power[109] = 214
        /\ power[110] = 97 /\ power[111] = 163 /\ power[112] = 254 /\ power[113] = 25
        /\ power[114] = 43 /\ power[115] = 125 /\ power[116] = 135 /\ power[117] = 146
        /\ power[118] = 173 /\ power[119] = 236 /\ power[120] = 47
    BY <1>7, PowerRounds, ThriceComputed DEF Sum16, Half, Odd
  <1>9. /\ power[121] = 113 /\ power[122] = 147 /\ power[123] = 174 /\ power[124] = 233
        /\ power[125] = 32 /\ power[126] = 96 /\ power[127] = 160 /\ power[128] = 251
        /\ power[129] = 22 /\ power[130] = 58 /\ power[131] = 78 /\ power[132] = 210
        /\ power[133] = 109 /\ power[134] = 183 /\ power[135] = 194
    BY <1>8, PowerRounds, ThriceComputed DEF Sum16, Half, Odd
  <1>10. /\ power[136] = 93 /\ power[137] = 231 /\ power[138] = 50 /\ power[139] = 86
         /\ power[140] = 250 /\ power[141] = 21 /\ power[142] = 63 /\ power[143] = 65
         /\ power[144] = 195 /\ power[145] = 94 /\ power[146] = 226 /\ power[147] = 61
         /\ power[148] = 71 /\ power[149] = 201 /\ power[150] = 64
    BY <1>9, PowerRounds, ThriceComputed DEF Sum16, Half, Odd
  <1>11. /\ power[151] = 192 /\ power[152] = 91 /\ power[153] = 237 /\ power[154] = 44
         /\ power[155] = 116 /\ power[156] = 156 /\ power[157] = 191 /\ power[158] = 218
         /\ power[159] = 117 /\ power[160] = 159 /\ power[161] = 186 /\ power[162] = 213
         /\ power[163] = 100 /\ power[164] = 172 /\ power[165] = 239
    BY <1>10, PowerRounds, ThriceComputed DEF Sum16, Half, Odd
  <1>12. /\ power[166] = 42 /\ power[167] = 126 /\ power[168] = 130 /\ power[169] = 157
         /\ power[170] = 188 /\ power[171] = 223 /\ power[172] = 122 /\ power[173] = 142
         /\ power[174] = 137 /\ power[175] = 128 /\ power[176] = 155 /\ power[177] = 182
         /\ power[178] = 193 /\ power[179] = 88 /\ power[180] = 232
    BY <1>11, PowerRounds, ThriceComputed DEF Sum16, Half, Odd
  <1>13. /\ power[181] = 35 /\ power[182] = 101 /\ power[183] = 175 /\ power[184] = 234
         /\ power[185] = 37 /\ power[186] = 111 /\ power[187] = 177 /\ power[188] = 200
         /\ power[189] = 67 /\ power[190] = 197 /\ power[191] = 84 /\ power[192] = 252
         /\ power[193] = 31 /\ power[194] = 33 /\ power[195] = 99
    BY <1>12, PowerRounds, ThriceComputed DEF Sum16, Half, Odd
  <1>14. /\ power[196] = 165 /\ power[197] = 244 /\ power[198] = 7 /\ power[199] = 9
         /\ power[200] = 27 /\ power[201] = 45 /\ power[202] = 119 /\ power[203] = 153
         /\ power[204] = 176 /\ power[205] = 203 /\ power[206] = 70 /\ power[207] = 202
         /\ power[208] = 69 /\ power[209] = 207 /\ power[210] = 74
    BY <1>13, PowerRounds, ThriceComputed DEF Sum16, Half, Odd
  <1>15. /\ power[211] = 222 /\ power[212] = 121 /\ power[213] = 139 /\ power[214] = 134
         /\ power[215] = 145 /\ power[216] = 168 /\ power[217] = 227 /\ power[218] = 62
         /\ power[219] = 66 /\ power[220] = 198 /\ power[221] = 81 /\ power[222] = 243
         /\ power[223] = 14 /\ power[224] = 18 /\ power[225] = 54
    BY <1>14, PowerRounds, ThriceComputed DEF Sum16, Half, Odd
  <1>16. /\ power[226] = 90 /\ power[227] = 238 /\ power[228] = 41 /\ power[229] = 123
         /\ power[230] = 141 /\ power[231] = 140 /\ power[232] = 143 /\ power[233] = 138
         /\ power[234] = 133 /\ power[235] = 148 /\ power[236] = 167 /\ power[237] = 242
         /\ power[238] = 13 /\ power[239] = 23 /\ power[240] = 57
    BY <1>15, PowerRounds, ThriceComputed DEF Sum16, Half, Odd
  <1>17. /\ power[241] = 75 /\ power[242] = 221 /\ power[243] = 124 /\ power[244] = 132
         /\ power[245] = 151 /\ power[246] = 162 /\ power[247] = 253 /\ power[248] = 28
         /\ power[249] = 36 /\ power[250] = 108 /\ power[251] = 180 /\ power[252] = 199
         /\ power[253] = 82 /\ power[254] = 246
    BY <1>16, PowerRounds, ThriceComputed DEF Sum16, Half, Odd
  <1>18. Thrice[246] = 1
    BY ThriceComputed DEF Sum16, Half, Odd
  <1>19. \A i \in 1 .. 15 : power[i] # 1
    BY <1>1
  <1>20. \A i \in 16 .. 30 : power[i] # 1
    BY <1>2
  <1>21. \A i \in 31 .. 45 : power[i] # 1
    BY <1>3
  <1>22. \A i \in 46 .. 60 : power[i] # 1
    BY <1>4
  <1>23. \A i \in 61 .. 75 : power[i] # 1
    BY <1>5
  <1>24. \A i \in 76 .. 90 : power[i] # 1
    BY <1>6
  <1>25. \A i \in 91 .. 105 : power[i] # 1
    BY <1>7
  <1>26. \A i \in 106 .. 120 : power[i] # 1
    BY <1>8
  <1>27. \A i \in 121 .. 135 : power[i] # 1
    BY <1>9
  <1>28. \A i \in 136 .. 150 : power[i] # 1
    BY <1>10
  <1>29. \A i \in 151 .. 165 : power[i] # 1
    BY <1>11
  <1>30. \A i \in 166 .. 180 : power[i] # 1
    BY <1>12
  <1>31. \A i \in 181 .. 195 : power[i] # 1
    BY <1>13
  <1>32. \A i \in 196 .. 210 : power[i] # 1
    BY <1>14
  <1>33. \A i \in 211 .. 225 : power[i] # 1
    BY <1>15
  <1>34. \A i \in 226 .. 240 : power[i] # 1
    BY <1>16
  <1>35. \A i \in 241 .. 254 : power[i] # 1
    BY <1>17
  <1> QED BY <1>1, <1>17, <1>18, <1>19, <1>20, <1>21, <1>22, <1>23, <1>24,
         <1>25, <1>26, <1>27, <1>28, <1>29, <1>30, <1>31, <1>32, <1>33, <1>34, <1>35

(***************************************************************************)
(* 3 generates the nonzero bytes.                                          *)
(***************************************************************************)
LEMMA XorIsZero ==
  ASSUME NEW a \in Byte, NEW b \in Byte, xor(a, b) = 0
  PROVE  a = b
  <1>1. xor(a, xor(a, b)) = xor(xor(a, a), b)
    BY XorFacts
  <1>2. xor(xor(a, a), b) = b
    BY XorFacts
  <1>3. xor(a, xor(a, b)) = a
    BY XorFacts
  <1> QED BY <1>1, <1>2, <1>3

NonZero == Byte \ {0}

(* No byte but 0 is its own double, so that tripling is injective. *)
LEMMA DblDiffers ==
  ASSUME NEW a \in NonZero
  PROVE  Dbl(a) # a
  <1>1. a \in Byte /\ a \in 1 .. 255
    BY DEF NonZero, Byte
  <1>2. CASE a < 128
    <2>1. (2 * a) % 256 = 2 * a /\ 2 * a \in Byte
      BY <1>1, <1>2 DEF Byte
    <2>2. Dbl(a) = 2 * a
      BY <1>1, <1>2, <2>1, XorFacts DEF Dbl
    <2> QED BY <1>1, <2>2
  <1>3. CASE a >= 128
    <2>1. (2 * a) % 256 = 2 * a - 256 /\ 2 * a - 256 \in Byte /\ 27 \in Byte
      BY <1>1, <1>3 DEF Byte
    <2>2. Dbl(a) = Sum16(2 * a - 256, 27)
      BY <1>1, <1>3, <2>1, XorIs DEF Dbl
    <2>3. Sum16(2 * a - 256, 27) # a
      BY <1>1, <1>3 DEF Sum16, Half, Odd
    <2> QED BY <2>2, <2>3
  <1> QED BY <1>1, <1>2, <1>3

LEMMA ThriceAdds ==
  ASSUME NEW a \in Byte, NEW b \in Byte
  PROVE  Thrice[xor(a, b)] = xor(Thrice[a], Thrice[b])
  <1>1. xor(a, b) \in Byte /\ Dbl(a) \in Byte /\ Dbl(b) \in Byte
    BY XorFacts, DblIsAByte
  <1>2. Thrice[xor(a, b)] = xor(xor(a, b), xor(Dbl(a), Dbl(b)))
    BY <1>1, ThriceIs, DblAdds
  <1>3. xor(xor(a, b), xor(Dbl(a), Dbl(b))) = xor(xor(a, Dbl(a)), xor(b, Dbl(b)))
    BY <1>1, XorSwap
  <1> QED BY <1>2, <1>3, ThriceIs

LEMMA ThriceNonZero ==
  ASSUME NEW a \in NonZero
  PROVE  Thrice[a] \in NonZero
  <1>1. a \in Byte /\ Dbl(a) \in Byte
    BY DblIsAByte DEF NonZero
  <1>2. Thrice[a] = xor(a, Dbl(a)) /\ Thrice[a] \in Byte
    BY <1>1, ThriceIs
  <1>3. xor(a, Dbl(a)) # 0
    BY <1>1, XorIsZero, DblDiffers
  <1> QED BY <1>2, <1>3 DEF NonZero

(* ... and is injective. *)
LEMMA ThriceInjective ==
  ASSUME NEW a \in Byte, NEW b \in Byte, Thrice[a] = Thrice[b]
  PROVE  a = b
  <1>1. xor(a, b) \in Byte /\ Thrice[b] \in Byte
    BY XorFacts, ThriceIs
  <1>2. Thrice[xor(a, b)] = 0
    BY <1>1, ThriceAdds, XorFacts
  <1>3. xor(a, b) = 0
    <2> SUFFICES ASSUME xor(a, b) # 0
                 PROVE  FALSE
      OBVIOUS
    <2>1. xor(a, b) \in NonZero
      BY <1>1 DEF NonZero
    <2>2. Thrice[xor(a, b)] \in NonZero
      BY <2>1, ThriceNonZero
    <2> QED BY <1>2, <2>2 DEF NonZero
  <1> QED BY <1>3, XorIsZero

(* No power is met twice: the first to be met again would be 1. *)
LEMMA PowersDiffer ==
  \A i, j \in 0 .. 254 : power[i] = power[j] => i = j
  <1> DEFINE S == {i \in Nat : \A d \in 1 .. 254 : i + d <= 254 => power[i + d] # power[i]}
  <1>1. 0 \in S
    BY Powers, PowerRounds
  <1>2. ASSUME NEW i \in Nat, i \in S
        PROVE  i + 1 \in S
    <2> SUFFICES ASSUME NEW d \in 1 .. 254, i + 1 + d <= 254
                 PROVE  power[i + 1 + d] # power[i + 1]
      OBVIOUS
    <2>1. power[i + 1] = Thrice[power[i]] /\ power[i] \in Byte
      <3>1. i \in 0 .. 253 /\ i \in 0 .. 254
        OBVIOUS
      <3> QED BY <3>1, PowerRounds, Zenon
    <2>2. i + d \in 0 .. 253 /\ (i + d) + 1 = i + 1 + d
      OBVIOUS
    <2>3. power[i + 1 + d] = Thrice[power[i + d]] /\ power[i + d] \in Byte
      <3>1. power[(i + d) + 1] = Thrice[power[i + d]] /\ power[i + d] \in Byte
        BY <2>2, PowerRounds
      <3> QED BY <2>2, <3>1
    <2>4. power[i + d] # power[i]
      BY <1>2
    <2> QED BY <2>1, <2>3, <2>4, ThriceInjective
  <1> HIDE DEF S
  <1>3. Nat \subseteq S
    BY <1>1, <1>2, Induction
  <1>4. ASSUME NEW i \in 0 .. 254, NEW j \in 0 .. 254, i < j
        PROVE  power[i] # power[j]
    <2>1. i \in S
      BY <1>3
    <2>2. \A d \in 1 .. 254 : i + d <= 254 => power[i + d] # power[i]
      BY <2>1 DEF S
    <2> DEFINE d == j - i
    <2>3. d \in 1 .. 254 /\ i + d = j
      BY <1>4
    <2>a. i + d <= 254
      BY <2>3
    <2> HIDE DEF d
    <2>4. power[i + d] # power[i]
      BY <2>2, <2>3, <2>a, Zenon
    <2> QED BY <2>3, <2>4
  <1>5. ASSUME NEW i \in 0 .. 254, NEW j \in 0 .. 254, power[i] = power[j], i # j
        PROVE  FALSE
    <2>1. i < j \/ j < i
      BY <1>5
    <2>2. power[i] # power[j]
      BY <1>4, <2>1
    <2> QED BY <1>5, <2>2
  <1> QED BY <1>5

LEMMA PowersNonZero ==
  \A i \in 0 .. 254 : power[i] \in NonZero
  <1> DEFINE S == {i \in Nat : i <= 254 => power[i] \in NonZero}
  <1>1. 0 \in S
    <2>1. 1 \in NonZero
      BY DEF NonZero, Byte
    <2>2. power[0] \in NonZero
      BY <2>1, PowerRounds, Zenon
    <2> QED BY <2>2
  <1>2. \A i \in Nat : i \in S => i + 1 \in S
    BY PowerRounds, ThriceNonZero
  <1> HIDE DEF S
  <1>3. Nat \subseteq S
    BY <1>1, <1>2, Induction
  <1> QED BY <1>3 DEF S

Sizes(m, n, k) == IsFiniteSet(m .. n) /\ Cardinality(m .. n) = k
LEMMA Sized == Sizes(1, 255, 255) /\ Sizes(0, 254, 255)
  <1>1. ASSUME NEW m \in Int, NEW n \in Int, m <= n
        PROVE  Sizes(m, n, n - m + 1)
    BY <1>1, FS_Interval DEF Sizes
  <1>2. Sizes(1, 255, 255 - 1 + 1) /\ Sizes(0, 254, 254 - 0 + 1)
    BY <1>1
  <1> QED BY <1>2

(* There are as many powers as nonzero bytes. *)
LEMMA EveryByteIsAPower ==
  /\ expTable \in [0 .. 254 -> NonZero]
  /\ \A i, j \in 0 .. 254 : expTable[i] = expTable[j] => i = j
  /\ \A a \in NonZero : \E i \in 0 .. 254 : expTable[i] = a
  <1>1. expTable \in [0 .. 254 -> NonZero] /\ \A i \in 0 .. 254 : expTable[i] = power[i]
    BY PowersNonZero DEF expTable
  <1>2. \A i, j \in 0 .. 254 : expTable[i] = expTable[j] => i = j
    BY <1>1, PowersDiffer
  <1>3. expTable \in Injection(0 .. 254, NonZero)
    BY <1>1, <1>2, Zenon DEF Injection, IsInjective
  <1>4. NonZero = 1 .. 255
    BY DEF NonZero, Byte
  <1>5. /\ IsFiniteSet(1 .. 255) /\ Cardinality(1 .. 255) = 255
        /\ Cardinality(0 .. 254) = 255
    BY Sized, Zenon DEF Sizes
  <1>6. IsFiniteSet(NonZero) /\ Cardinality(0 .. 254) = Cardinality(NonZero)
    BY <1>4, <1>5
  <1>7. expTable \in Surjection(0 .. 254, NonZero)
    BY <1>3, <1>6, FS_Injection, Zenon
  <1>8. \A a \in NonZero : \E i \in 0 .. 254 : expTable[i] = a
    BY <1>7, Zenon DEF Surjection
  <1> QED BY <1>1, <1>2, <1>8

(***************************************************************************)
(* The tables.                                                             *)
(***************************************************************************)
LEMMA Logarithms ==
  /\ \A a \in NonZero : logTable[a] \in 0 .. 254 /\ expTable[logTable[a]] = a
  /\ \A i \in 0 .. 254 : logTable[expTable[i]] = i
  <1>1. ASSUME NEW a \in NonZero
        PROVE  logTable[a] \in 0 .. 254 /\ expTable[logTable[a]] = a
    <2>1. logTable[a] = CHOOSE i \in 0 .. 254 : expTable[i] = a
      BY DEF logTable, NonZero
    <2>2. \E i \in 0 .. 254 : expTable[i] = a
      BY EveryByteIsAPower
    <2> QED BY <2>1, <2>2, Zenon
  <1>2. ASSUME NEW i \in 0 .. 254
        PROVE  logTable[expTable[i]] = i
    <2>1. expTable[i] \in NonZero
      BY EveryByteIsAPower
    <2>2. /\ logTable[expTable[i]] \in 0 .. 254
          /\ expTable[logTable[expTable[i]]] = expTable[i]
      BY <1>1, <2>1
    <2> QED BY <2>2, EveryByteIsAPower
  <1> QED BY <1>1, <1>2

(* The first step of the field: gfMul by 3 is tripling. *)
LEMMA GfMulByThree ==
  ASSUME NEW a \in Byte
  PROVE  gfMul(3, a) = Thrice[a]
  <1>0. expTable[1] = 3 /\ logTable[3] = 1 /\ expTable[0] = 1
    <2>1. power[1] = 3 /\ power[0] = 1
      BY Powers, PowerRounds
    <2>2. expTable[1] = 3 /\ expTable[0] = 1
      BY <2>1 DEF expTable
    <2>3. logTable[expTable[1]] = 1
      BY Logarithms
    <2> QED BY <2>2, <2>3
  <1>1. CASE a = 0
    <2>1. Thrice[0] = 0
      <3>1. 0 \in 0 .. 255
        OBVIOUS
      <3>2. Thrice[0] = Sum16(0, Sum16(0, 0))
        BY <3>1, ThriceComputed
      <3>3. Sum16(0, 0) = 0
        BY DEF Sum16, Half, Odd
      <3> QED BY <3>2, <3>3
    <2> QED BY <1>1, <2>1 DEF gfMul
  <1>2. CASE a # 0
    <2>1. PICK i \in 0 .. 254 : expTable[i] = a
      BY <1>2, EveryByteIsAPower DEF NonZero
    <2>2. logTable[a] = i
      BY <2>1, Logarithms
    <2>3. power[i] = a
      BY <2>1 DEF expTable
    <2>4. gfMul(3, a) = expTable[IF 1 + i >= 255 THEN 1 + i - 255 ELSE 1 + i]
      BY <1>0, <1>2, <2>2 DEF gfMul
    <2>5. CASE i = 254
      BY <1>0, <2>3, <2>4, <2>5, Powers
    <2>6. CASE i # 254
      <3>1. expTable[1 + i] = power[i + 1] /\ power[i + 1] = Thrice[power[i]]
        BY <2>6, PowerRounds DEF expTable
      <3> QED BY <2>3, <2>4, <2>6, <3>1
    <2> QED BY <2>5, <2>6
  <1> QED BY <1>1, <1>2

(* The tables are inverse to each other, start at 1 and 3, and gfMul by 3  *)
(* distributes over XOR.                                                   *)
LEMMA TheTables == FieldTables
  <1>1. expTable[0] = 1 /\ logTable[3] = 1
    <2>1. power[1] = 3 /\ power[0] = 1
      BY Powers, PowerRounds
    <2>2. expTable[1] = 3 /\ expTable[0] = 1
      BY <2>1 DEF expTable
    <2>3. logTable[expTable[1]] = 1
      BY Logarithms
    <2> QED BY <2>2, <2>3
  <1>2. \A i \in 0 .. 254 : expTable[i] \in Byte \ {0} /\ logTable[expTable[i]] = i
    BY EveryByteIsAPower, Logarithms DEF NonZero
  <1>3. \A a \in Byte \ {0} : logTable[a] \in 0 .. 254 /\ expTable[logTable[a]] = a
    BY Logarithms DEF NonZero
  <1>4. ASSUME NEW a \in Byte, NEW b \in Byte
        PROVE  gfMul(3, xor(a, b)) = xor(gfMul(3, a), gfMul(3, b))
    BY XorFacts, GfMulByThree, ThriceAdds
  <1> QED BY <1>1, <1>2, <1>3, <1>4, Zenon DEF FieldTables

(***************************************************************************)
(* Multiplication, by the logarithms of the tables.                        *)
(***************************************************************************)
Exp(i) == expTable[i]
Log(a) == logTable[a]

(* The two tables are bijections between 0 .. 254 and the nonzero bytes. *)
LEMMA TableFacts ==
  /\ \A i \in 0 .. 254 : Exp(i) \in NonZero /\ Log(Exp(i)) = i
  /\ \A a \in NonZero : Log(a) \in 0 .. 254 /\ Exp(Log(a)) = a
  /\ Exp(0) = 1 /\ Exp(1) = 3 /\ Log(1) = 0 /\ Log(3) = 1
  /\ 1 \in NonZero /\ 3 \in NonZero
  <1>1. 1 \in NonZero /\ 3 \in NonZero /\ 0 \in 0 .. 254
    BY DEF NonZero, Byte
  <1>2. /\ \A i \in 0 .. 254 : Exp(i) \in NonZero /\ Log(Exp(i)) = i
        /\ \A a \in NonZero : Log(a) \in 0 .. 254 /\ Exp(Log(a)) = a
        /\ Exp(0) = 1 /\ Log(3) = 1
    BY TheTables, Zenon DEF FieldTables, NonZero, Exp, Log
  <1> QED BY <1>1, <1>2

(* The exponent of a product and of a quotient.                            *)
Plus(p, q) == IF p + q >= 255 THEN p + q - 255 ELSE p + q
Minus(p, q) == IF p - q < 0 THEN p - q + 255 ELSE p - q

(* Exponents are added and subtracted modulo 255. *)
LEMMA PlusFacts ==
  ASSUME NEW p \in 0 .. 254, NEW q \in 0 .. 254
  PROVE  /\ Plus(p, q) \in 0 .. 254 /\ Plus(p, q) = Plus(q, p)
         /\ Minus(p, q) \in 0 .. 254 /\ Plus(Minus(p, q), q) = p
  BY DEF Plus, Minus

LEMMA PlusSmall ==
  ASSUME NEW p \in 0 .. 254
  PROVE  Plus(0, p) = p /\ (p # 254 => Plus(1, p) = p + 1)
  BY DEF Plus

(* Addition of exponents modulo 255 is associative. *)
LEMMA PlusAssociative ==
  ASSUME NEW p \in 0 .. 254, NEW q \in 0 .. 254, NEW r \in 0 .. 254
  PROVE  Plus(Plus(p, q), r) = Plus(p, Plus(q, r))
  BY DEF Plus

(* gfMul adds the logarithms. *)
LEMMA MulLogs ==
  ASSUME NEW a \in NonZero, NEW b \in NonZero
  PROVE  gfMul(a, b) \in NonZero /\ Log(gfMul(a, b)) = Plus(Log(a), Log(b))
  <1>1. a # 0 /\ b # 0 /\ Log(a) \in 0 .. 254 /\ Log(b) \in 0 .. 254
    BY TableFacts DEF NonZero
  <1>2. PICK p \in 0 .. 254, q \in 0 .. 254 : p = Log(a) /\ q = Log(b)
    BY <1>1
  <1> DEFINE r == IF p + q >= 255 THEN p + q - 255 ELSE p + q
  <1>3. gfMul(a, b) = Exp(r)
    <2> DEFINE sum == Log(a) + Log(b)
               s == IF sum >= 255 THEN sum - 255 ELSE sum
    <2>1. gfMul(a, b) = Exp(s)
      BY <1>1, Zenon DEF gfMul, Exp, Log
    <2>2. s = r
      BY <1>2
    <2> HIDE DEF s, r
    <2> QED BY <2>1, <2>2
  <1>4. r = Plus(p, q) /\ Plus(p, q) \in 0 .. 254
    BY PlusFacts DEF Plus
  <1> HIDE DEF r
  <1> QED BY <1>2, <1>3, <1>4, TableFacts

LEMMA MulZero == \A a : gfMul(a, 0) = 0 /\ gfMul(0, a) = 0
  BY DEF gfMul

(* Bytes with one logarithm are one byte. *)
LEMMA SameLog ==
  ASSUME NEW a \in NonZero, NEW b \in NonZero, Log(a) = Log(b)
  PROVE  a = b
  BY TableFacts

(* gfMul is commutative and associative with the neutral element 1. *)
LEMMA MulFacts ==
  /\ \A a, b \in Byte : gfMul(a, b) \in Byte /\ gfMul(a, b) = gfMul(b, a)
  /\ \A a, b \in NonZero : gfMul(a, b) \in NonZero
  /\ \A a \in Byte : gfMul(1, a) = a
  /\ \A a, b, c \in Byte : gfMul(gfMul(a, b), c) = gfMul(a, gfMul(b, c))
  <1>0. 0 \in Byte /\ NonZero \subseteq Byte /\ \A a \in Byte : a = 0 \/ a \in NonZero
    BY DEF NonZero, Byte
  <1>1. \A a, b \in NonZero : gfMul(a, b) \in NonZero
    BY MulLogs
  <1>2. ASSUME NEW a \in Byte, NEW b \in Byte
        PROVE  gfMul(a, b) \in Byte /\ gfMul(a, b) = gfMul(b, a)
    <2>1. CASE a = 0 \/ b = 0
      BY <1>0, <2>1, MulZero
    <2>2. CASE a \in NonZero /\ b \in NonZero
      <3>1. gfMul(a, b) \in NonZero /\ gfMul(b, a) \in NonZero
        BY <1>1, <2>2
      <3>2. Log(a) \in 0 .. 254 /\ Log(b) \in 0 .. 254
        BY <2>2, TableFacts
      <3>3. Log(gfMul(a, b)) = Plus(Log(a), Log(b)) /\ Log(gfMul(b, a)) = Plus(Log(b), Log(a))
        BY <2>2, MulLogs, Zenon
      <3>4. Plus(Log(a), Log(b)) = Plus(Log(b), Log(a))
        BY <3>2, PlusFacts
      <3>6. Log(gfMul(a, b)) = Log(gfMul(b, a))
        BY <3>3, <3>4, Zenon
      <3>7. gfMul(a, b) = gfMul(b, a)
        BY <3>1, <3>6, SameLog, Zenon
      <3> QED BY <1>0, <3>1, <3>7
    <2> QED BY <1>0, <2>1, <2>2
  <1>3. ASSUME NEW a \in Byte
        PROVE  gfMul(1, a) = a
    <2>1. CASE a = 0
      BY <2>1, MulZero
    <2>2. CASE a \in NonZero
      <3>1. Log(a) \in 0 .. 254 /\ Log(1) = 0 /\ 1 \in NonZero
        BY <2>2, TableFacts
      <3>2. gfMul(1, a) \in NonZero /\ Log(gfMul(1, a)) = Plus(Log(1), Log(a))
        BY <2>2, <3>1, MulLogs
      <3>3. Plus(Log(1), Log(a)) = Log(a)
        BY <3>1, PlusSmall
      <3> QED BY <2>2, <3>2, <3>3, SameLog
    <2> QED BY <1>0, <2>1, <2>2
  <1>4. ASSUME NEW a \in Byte, NEW b \in Byte, NEW c \in Byte
        PROVE  gfMul(gfMul(a, b), c) = gfMul(a, gfMul(b, c))
    <2>1. CASE a = 0 \/ b = 0 \/ c = 0
      BY <2>1, MulZero
    <2>2. CASE a \in NonZero /\ b \in NonZero /\ c \in NonZero
      <3> DEFINE la == Log(a)
                 lb == Log(b)
                 lc == Log(c)
      <3>1. la \in 0 .. 254 /\ lb \in 0 .. 254 /\ lc \in 0 .. 254
        BY <2>2, TableFacts
      <3>2. /\ gfMul(a, b) \in NonZero /\ Log(gfMul(a, b)) = Plus(la, lb)
            /\ gfMul(b, c) \in NonZero /\ Log(gfMul(b, c)) = Plus(lb, lc)
        BY <2>2, MulLogs
      <3>3. /\ gfMul(gfMul(a, b), c) \in NonZero
            /\ Log(gfMul(gfMul(a, b), c)) = Plus(Plus(la, lb), lc)
        BY <2>2, <3>2, MulLogs
      <3>4. /\ gfMul(a, gfMul(b, c)) \in NonZero
            /\ Log(gfMul(a, gfMul(b, c))) = Plus(la, Plus(lb, lc))
        BY <2>2, <3>2, MulLogs
      <3> HIDE DEF la, lb, lc
      <3>5. Plus(Plus(la, lb), lc) = Plus(la, Plus(lb, lc))
        BY <3>1, PlusAssociative, ZenonT(40)
      <3> QED BY <3>3, <3>4, <3>5, SameLog
    <2> QED BY <1>0, <2>1, <2>2
  <1> QED BY <1>1, <1>2, <1>3, <1>4

LEMMA MulAssociates ==
  ASSUME NEW a \in Byte, NEW b \in Byte, NEW c \in Byte
  PROVE  gfMul(gfMul(a, b), c) = gfMul(a, gfMul(b, c))
  BY MulFacts

(* gfDiv undoes gfMul. *)
LEMMA DivFacts ==
  /\ \A a \in Byte, b \in NonZero : gfDiv(a, b) \in Byte /\ gfMul(gfDiv(a, b), b) = a
  /\ \A a, b \in NonZero : gfDiv(a, b) \in NonZero
  <1>1. ASSUME NEW a \in NonZero, NEW b \in NonZero
        PROVE  gfDiv(a, b) \in NonZero /\ gfMul(gfDiv(a, b), b) = a
    <2> DEFINE r == Minus(Log(a), Log(b))
    <2>1. a # 0 /\ Log(a) \in 0 .. 254 /\ Log(b) \in 0 .. 254
      BY TableFacts DEF NonZero
    <2>2. gfDiv(a, b) = Exp(r)
      BY <2>1, Zenon DEF gfDiv, Exp, Log, Minus
    <2>3. r \in 0 .. 254 /\ Plus(r, Log(b)) = Log(a)
      BY <2>1, PlusFacts
    <2>4. gfDiv(a, b) \in NonZero /\ Log(gfDiv(a, b)) = r
      BY <2>2, <2>3, TableFacts, Zenon
    <2>5. /\ gfMul(gfDiv(a, b), b) \in NonZero
          /\ Log(gfMul(gfDiv(a, b), b)) = Plus(r, Log(b))
      BY <2>4, MulLogs, ZenonT(40)
    <2>6. Log(gfMul(gfDiv(a, b), b)) = Log(a)
      BY <2>3, <2>5, Zenon
    <2> QED BY <2>4, <2>5, <2>6, SameLog, Zenon
  <1>2. \A b : gfDiv(0, b) = 0 /\ gfMul(0, b) = 0
    BY DEF gfDiv, gfMul
  <1> QED BY <1>1, <1>2 DEF NonZero

(* gfMul distributes over XOR: multiplying by 3 does, every  *)
(* nonzero byte is a power of 3, and a step from one power to the next is  *)
(* a multiplication by 3.                                                  *)
LEMMA Distributes ==
  \A a, x, y \in Byte : gfMul(a, xor(x, y)) = xor(gfMul(a, x), gfMul(a, y))
  <1> DEFINE D(a) == \A x, y \in Byte : gfMul(a, xor(x, y)) = xor(gfMul(a, x), gfMul(a, y))
             S == {i \in Nat : i <= 254 => D(Exp(i))}
  <1>0. 0 \in Byte /\ 3 \in Byte /\ \A i \in 0 .. 254 : Exp(i) \in Byte
    <2>1. 0 \in Byte /\ 3 \in Byte /\ \A a \in NonZero : a \in Byte
      BY DEF NonZero, Byte
    <2>2. \A i \in 0 .. 254 : Exp(i) \in NonZero
      BY TableFacts
    <2> QED BY <2>1, <2>2, Zenon
  <1>1. D(1)
    BY XorFacts, MulFacts
  <1>2. D(3)
    BY TheTables DEF FieldTables
  <1>3. \A i \in 0 .. 253 : Exp(i + 1) = gfMul(3, Exp(i))
    <2> SUFFICES ASSUME NEW i \in 0 .. 253
                 PROVE  Exp(i + 1) = gfMul(3, Exp(i))
      OBVIOUS
    <2>1. Exp(i) \in NonZero /\ Log(Exp(i)) = i /\ 3 \in NonZero /\ Log(3) = 1
      BY TableFacts
    <2>2. Exp(i + 1) \in NonZero /\ Log(Exp(i + 1)) = i + 1
      BY TableFacts
    <2>3. gfMul(3, Exp(i)) \in NonZero /\ Log(gfMul(3, Exp(i))) = Plus(1, i)
      BY <2>1, MulLogs
    <2>4. Plus(1, i) = i + 1
      BY PlusSmall
    <2> QED BY <2>2, <2>3, <2>4, SameLog
  <1>4. ASSUME NEW i \in 0 .. 253, D(Exp(i))
        PROVE  D(Exp(i + 1))
    <2> SUFFICES ASSUME NEW x \in Byte, NEW y \in Byte
                 PROVE  gfMul(gfMul(3, Exp(i)), xor(x, y))
                          = xor(gfMul(gfMul(3, Exp(i)), x), gfMul(gfMul(3, Exp(i)), y))
      BY <1>3
    <2> DEFINE e == Exp(i)
    <2>a. e \in Byte /\ 3 \in Byte
      BY <1>0
    <2>b. xor(x, y) \in Byte
      BY XorFacts
    <2>c. gfMul(e, x) \in Byte /\ gfMul(e, y) \in Byte
      BY <2>a, MulFacts
    <2>0. e \in Byte /\ 3 \in Byte /\ xor(x, y) \in Byte /\ gfMul(e, x) \in Byte /\ gfMul(e, y) \in Byte
      BY <2>a, <2>b, <2>c
    <2>1. gfMul(e, xor(x, y)) = xor(gfMul(e, x), gfMul(e, y))
      BY <1>4
    <2> HIDE DEF e
    <2>2. gfMul(gfMul(3, e), xor(x, y)) = gfMul(3, gfMul(e, xor(x, y)))
      BY <2>0, MulFacts
    <2>3. gfMul(3, xor(gfMul(e, x), gfMul(e, y))) = xor(gfMul(3, gfMul(e, x)), gfMul(3, gfMul(e, y)))
      BY <1>2, <2>0
    <2>4. gfMul(3, gfMul(e, x)) = gfMul(gfMul(3, e), x) /\ gfMul(3, gfMul(e, y)) = gfMul(gfMul(3, e), y)
      BY <2>0, MulFacts
    <2> QED BY <2>1, <2>2, <2>3, <2>4 DEF e
  <1> HIDE DEF D
  <1>5. Nat \subseteq S
    <2>1. 0 \in S
      BY <1>1, TableFacts
    <2>2. \A n \in Nat : n \in S => n + 1 \in S
      BY <1>4
    <2> HIDE DEF S
    <2> QED BY <2>1, <2>2, Induction
  <1>6. \A a \in NonZero : D(a)
    BY <1>5, TableFacts
  <1>7. D(0)
    BY <1>0, XorFacts, MulZero DEF D
  <1> QED BY <1>6, <1>7 DEF D, NonZero

(***************************************************************************)
(* The loops, round by round.                                              *)
(***************************************************************************)
ProductLoop(f, T, n, p) ==
  p = [j \in 0 .. n |->
         IF j = 0 THEN 1 ELSE IF j \in T THEN gfMul(p[j - 1], f[j]) ELSE p[j - 1]]
ProductAt(f, T, n, j) == (CHOOSE p : ProductLoop(f, T, n, p))[j]

(* The round-by-round value of the model's recursive function exists ... *)
LEMMA ProductLoops ==
  ASSUME NEW f, NEW T
  PROVE  \A n \in Nat : \E p : ProductLoop(f, T, n, p)
  <1> DEFINE S == {n \in Nat : \E p : ProductLoop(f, T, n, p)}
  <1>1. 0 \in S
    <2> DEFINE p == [j \in 0 .. 0 |-> 1]
    <2>1. ProductLoop(f, T, 0, p)
      BY DEF ProductLoop
    <2> QED BY <2>1
  <1>2. ASSUME NEW n \in Nat, n \in S
        PROVE  n + 1 \in S
    <2>1. PICK p : ProductLoop(f, T, n, p)
      BY <1>2
    <2> DEFINE v == IF n + 1 \in T THEN gfMul(p[n], f[n + 1]) ELSE p[n]
               q == [j \in 0 .. n + 1 |-> IF j = n + 1 THEN v ELSE p[j]]
    <2> HIDE DEF v
    <2>2. \A j \in 0 .. n : p[j] = IF j = 0 THEN 1
                                   ELSE IF j \in T THEN gfMul(p[j - 1], f[j]) ELSE p[j - 1]
      BY <2>1 DEF ProductLoop
    <2>3. \A j \in 0 .. n + 1 : q[j] = IF j = 0 THEN 1
                                       ELSE IF j \in T THEN gfMul(q[j - 1], f[j]) ELSE q[j - 1]
      <3> TAKE j \in 0 .. n + 1
      <3>1. CASE j = n + 1
        BY <3>1 DEF v
      <3>2. CASE j # n + 1
        BY <3>2, <2>2
      <3> QED BY <3>1, <3>2
    <2>4. ProductLoop(f, T, n + 1, q)
      BY <2>3 DEF ProductLoop
    <2> QED BY <2>4
  <1> HIDE DEF S
  <1>3. Nat \subseteq S
    BY <1>1, <1>2, Induction
  <1> QED BY <1>3 DEF S

(* ... and so each round computes what the code's loop does. *)
LEMMA ProductRounds ==
  ASSUME NEW f, NEW T, NEW n \in Nat
  PROVE  /\ Product(f, T, n) = ProductAt(f, T, n, n)
         /\ ProductAt(f, T, n, 0) = 1
         /\ \A j \in 0 .. n - 1 :
              /\ j + 1 \in T =>
                   ProductAt(f, T, n, j + 1) = gfMul(ProductAt(f, T, n, j), f[j + 1])
              /\ j + 1 \notin T => ProductAt(f, T, n, j + 1) = ProductAt(f, T, n, j)
  <1> DEFINE p == CHOOSE p : ProductLoop(f, T, n, p)
  <1>1. ProductLoop(f, T, n, p)
    BY ProductLoops, Zenon
  <1>2. Product(f, T, n) = p[n]
    BY Zenon DEF Product, ProductLoop
  <1>3. \A j : ProductAt(f, T, n, j) = p[j]
    BY Zenon DEF ProductAt
  <1> HIDE DEF p
  <1>4. \A j \in 0 .. n : p[j] = IF j = 0 THEN 1
                                 ELSE IF j \in T THEN gfMul(p[j - 1], f[j]) ELSE p[j - 1]
    BY <1>1 DEF ProductLoop
  <1>5. p[0] = 1
    BY <1>4
  <1>6. \A j \in 0 .. n - 1 : /\ j + 1 \in T => p[j + 1] = gfMul(p[j], f[j + 1])
                              /\ j + 1 \notin T => p[j + 1] = p[j]
    <2> TAKE j \in 0 .. n - 1
    <2>1. j + 1 \in 0 .. n /\ j + 1 # 0 /\ (j + 1) - 1 = j
      OBVIOUS
    <2> QED BY <2>1, <1>4
  <1> QED BY <1>2, <1>3, <1>5, <1>6, Zenon

(* The rounds up to j prove something of round j. *)
LEMMA UpTo ==
  ASSUME NEW n \in Nat, NEW S, 0 \in S, \A j \in 0 .. n - 1 : j \in S => j + 1 \in S
  PROVE  n \in S
  <1> DEFINE U == {j \in Nat : j <= n => j \in S}
  <1>1. 0 \in U
    OBVIOUS
  <1>2. \A j \in Nat : j \in U => j + 1 \in U
    OBVIOUS
  <1> HIDE DEF U
  <1>3. n \in U
    BY <1>1, <1>2, Induction
  <1> QED BY <1>3 DEF U

(* A product of nonzero factors is not zero: no denominator of Combine is. *)
LEMMA ProductNonZero ==
  ASSUME NEW n \in Nat, NEW f, NEW T, \A j \in T : f[j] \in NonZero
  PROVE  Product(f, T, n) \in NonZero
  <1> DEFINE P(j) == ProductAt(f, T, n, j)
             S == {j \in Nat : P(j) \in NonZero}
  <1>0. Product(f, T, n) = P(n) /\ P(0) = 1
    BY ProductRounds, Zenon
  <1>a. \A j \in 0 .. n - 1 : /\ j + 1 \in T => P(j + 1) = gfMul(P(j), f[j + 1])
                              /\ j + 1 \notin T => P(j + 1) = P(j)
    BY ProductRounds, Zenon
  <1> HIDE DEF P
  <1>1. 0 \in S
    BY <1>0, TableFacts
  <1>2. ASSUME NEW j \in 0 .. n - 1, j \in S
        PROVE  j + 1 \in S
    <2>1. CASE j + 1 \in T
      <3>1. P(j + 1) = gfMul(P(j), f[j + 1]) /\ P(j) \in NonZero /\ f[j + 1] \in NonZero
        BY <1>a, <1>2, <2>1
      <3>2. P(j + 1) \in NonZero
        BY <3>1, MulFacts
      <3> QED BY <3>2
    <2>2. CASE j + 1 \notin T
      BY <1>a, <1>2, <2>2
    <2> QED BY <2>1, <2>2
  <1> HIDE DEF S
  <1>3. n \in S
    BY <1>1, <1>2, UpTo
  <1> QED BY <1>0, <1>3 DEF S

LEMMA ProductOfNone ==
  ASSUME NEW n \in Nat, NEW f
  PROVE  Product(f, {}, n) = 1
  <1> DEFINE P(j) == ProductAt(f, {}, n, j)
             S == {j \in Nat : P(j) = 1}
  <1>0. \A j \in 0 .. n - 1 : P(j + 1) = P(j)
    BY ProductRounds, Zenon
  <1>1. Product(f, {}, n) = P(n) /\ P(0) = 1
    BY ProductRounds, Zenon
  <1> HIDE DEF P
  <1>2. 0 \in S
    BY <1>1
  <1>3. \A j \in 0 .. n - 1 : j \in S => j + 1 \in S
    BY <1>0
  <1> HIDE DEF S
  <1>4. n \in S
    BY <1>2, <1>3, UpTo
  <1> QED BY <1>1, <1>4 DEF S

(* A factor can be taken out. *)
LEMMA ProductSplit ==
  ASSUME NEW n \in Nat, NEW f, NEW T, NEW k \in T, k \in 1 .. n,
         \A j \in T : f[j] \in NonZero
  PROVE  Product(f, T, n) = gfMul(f[k], Product(f, T \ {k}, n))
  <1> DEFINE P(j) == ProductAt(f, T, n, j)
             Q(j) == ProductAt(f, T \ {k}, n, j)
             S == {j \in Nat : /\ P(j) \in NonZero /\ Q(j) \in NonZero
                               /\ P(j) = IF j < k THEN Q(j) ELSE gfMul(f[k], Q(j))}
  <1>1. P(0) = 1 /\ Q(0) = 1
    BY ProductRounds, Zenon
  <1>2. \A j \in 0 .. n - 1 : /\ j + 1 \in T => P(j + 1) = gfMul(P(j), f[j + 1])
                              /\ j + 1 \notin T => P(j + 1) = P(j)
    BY ProductRounds, Zenon
  <1>a. \A j \in 0 .. n - 1 : /\ j + 1 \in T \ {k} => Q(j + 1) = gfMul(Q(j), f[j + 1])
                              /\ j + 1 \notin T \ {k} => Q(j + 1) = Q(j)
    BY ProductRounds, ZenonT(40)
  <1>3. Product(f, T, n) = P(n) /\ Product(f, T \ {k}, n) = Q(n)
    BY ProductRounds, Zenon
  <1> HIDE DEF P, Q
  <1>4. 0 \in S
    BY <1>1, TableFacts
  <1>5. ASSUME NEW j \in 0 .. n - 1, j \in S
        PROVE  j + 1 \in S
    <2>0. NonZero \subseteq Byte
      BY DEF NonZero
    <2>1. CASE j + 1 \notin T
      BY <1>2, <1>a, <1>5, <2>1
    <2>2. CASE j + 1 = k
      <3>1. P(j + 1) = gfMul(P(j), f[k]) /\ Q(j + 1) = Q(j) /\ P(j) = Q(j)
        BY <1>2, <1>a, <1>5, <2>2
      <3>2. P(j + 1) \in NonZero /\ gfMul(Q(j), f[k]) = gfMul(f[k], Q(j))
        BY <1>5, <2>0, <3>1, MulFacts
      <3> QED BY <1>5, <2>2, <3>1, <3>2
    <2>3. CASE j + 1 \in T /\ j + 1 # k
      <3> DEFINE w == f[j + 1]
                 v == f[k]
      <3>1. P(j + 1) = gfMul(P(j), w) /\ Q(j + 1) = gfMul(Q(j), w)
        BY <1>2, <1>a, <2>3
      <3>2. w \in NonZero /\ v \in NonZero /\ P(j) \in NonZero /\ Q(j) \in NonZero
        BY <1>5, <2>3
      <3>3. (j + 1 < k <=> j < k) /\ (j < k \/ P(j) = gfMul(v, Q(j))) /\ (j < k => P(j) = Q(j))
        BY <1>5, <2>3
      <3> HIDE DEF w, v
      <3>4. P(j + 1) \in NonZero /\ Q(j + 1) \in NonZero
        BY <3>1, <3>2, MulFacts
      <3>5. gfMul(gfMul(v, Q(j)), w) = gfMul(v, gfMul(Q(j), w))
        BY <2>0, <3>2, MulFacts
      <3> QED BY <3>1, <3>3, <3>4, <3>5 DEF v
    <2> QED BY <2>1, <2>2, <2>3
  <1> HIDE DEF S
  <1>6. n \in S
    BY <1>4, <1>5, UpTo
  <1> QED BY <1>3, <1>6 DEF S

SumLoop(f, T, n, p) ==
  p = [j \in 0 .. n |->
         IF j = 0 THEN 0 ELSE IF j \in T THEN xor(p[j - 1], f[j]) ELSE p[j - 1]]
SumAt(f, T, n, j) == (CHOOSE p : SumLoop(f, T, n, p))[j]

(* The same for the summing loop. *)
LEMMA SumLoops ==
  ASSUME NEW f, NEW T
  PROVE  \A n \in Nat : \E p : SumLoop(f, T, n, p)
  <1> DEFINE S == {n \in Nat : \E p : SumLoop(f, T, n, p)}
  <1>1. 0 \in S
    <2> DEFINE p == [j \in 0 .. 0 |-> 0]
    <2>1. SumLoop(f, T, 0, p)
      BY DEF SumLoop
    <2> QED BY <2>1
  <1>2. ASSUME NEW n \in Nat, n \in S
        PROVE  n + 1 \in S
    <2>1. PICK p : SumLoop(f, T, n, p)
      BY <1>2
    <2> DEFINE v == IF n + 1 \in T THEN xor(p[n], f[n + 1]) ELSE p[n]
               q == [j \in 0 .. n + 1 |-> IF j = n + 1 THEN v ELSE p[j]]
    <2> HIDE DEF v
    <2>2. \A j \in 0 .. n : p[j] = IF j = 0 THEN 0
                                   ELSE IF j \in T THEN xor(p[j - 1], f[j]) ELSE p[j - 1]
      BY <2>1 DEF SumLoop
    <2>3. \A j \in 0 .. n + 1 : q[j] = IF j = 0 THEN 0
                                       ELSE IF j \in T THEN xor(q[j - 1], f[j]) ELSE q[j - 1]
      <3> TAKE j \in 0 .. n + 1
      <3>1. CASE j = n + 1
        BY <3>1 DEF v
      <3>2. CASE j # n + 1
        BY <3>2, <2>2
      <3> QED BY <3>1, <3>2
    <2>4. SumLoop(f, T, n + 1, q)
      BY <2>3 DEF SumLoop
    <2> QED BY <2>4
  <1> HIDE DEF S
  <1>3. Nat \subseteq S
    BY <1>1, <1>2, Induction
  <1> QED BY <1>3 DEF S

(* Each round of the summing loop. *)
LEMMA SumRounds ==
  ASSUME NEW f, NEW T, NEW n \in Nat
  PROVE  /\ Sum(f, T, n) = SumAt(f, T, n, n)
         /\ SumAt(f, T, n, 0) = 0
         /\ \A j \in 0 .. n - 1 :
              /\ j + 1 \in T => SumAt(f, T, n, j + 1) = xor(SumAt(f, T, n, j), f[j + 1])
              /\ j + 1 \notin T => SumAt(f, T, n, j + 1) = SumAt(f, T, n, j)
  <1> DEFINE p == CHOOSE p : SumLoop(f, T, n, p)
  <1>1. SumLoop(f, T, n, p)
    BY SumLoops, Zenon
  <1>2. Sum(f, T, n) = p[n]
    BY Zenon DEF Sum, SumLoop
  <1>3. \A j : SumAt(f, T, n, j) = p[j]
    BY Zenon DEF SumAt
  <1> HIDE DEF p
  <1>4. \A j \in 0 .. n : p[j] = IF j = 0 THEN 0
                                 ELSE IF j \in T THEN xor(p[j - 1], f[j]) ELSE p[j - 1]
    BY <1>1 DEF SumLoop
  <1>5. p[0] = 0
    BY <1>4
  <1>6. \A j \in 0 .. n - 1 : /\ j + 1 \in T => p[j + 1] = xor(p[j], f[j + 1])
                              /\ j + 1 \notin T => p[j + 1] = p[j]
    <2> TAKE j \in 0 .. n - 1
    <2>1. j + 1 \in 0 .. n /\ j + 1 # 0 /\ (j + 1) - 1 = j
      OBVIOUS
    <2> QED BY <2>1, <1>4
  <1> QED BY <1>2, <1>3, <1>5, <1>6, Zenon

(* A sum of bytes is a byte. *)
LEMMA SumIsAByte ==
  ASSUME NEW n \in Nat, NEW f, NEW T, \A j \in T : f[j] \in Byte
  PROVE  Sum(f, T, n) \in Byte
  <1> DEFINE P(j) == SumAt(f, T, n, j)
             S == {j \in Nat : P(j) \in Byte}
  <1>1. Sum(f, T, n) = P(n) /\ P(0) = 0
    BY SumRounds, Zenon
  <1>2. \A j \in 0 .. n - 1 : /\ j + 1 \in T => P(j + 1) = xor(P(j), f[j + 1])
                              /\ j + 1 \notin T => P(j + 1) = P(j)
    BY SumRounds, Zenon
  <1> HIDE DEF P
  <1>3. 0 \in S
    BY <1>1 DEF Byte
  <1>4. ASSUME NEW j \in 0 .. n - 1, j \in S
        PROVE  j + 1 \in S
    <2>1. CASE j + 1 \in T
      <3>1. P(j + 1) = xor(P(j), f[j + 1]) /\ P(j) \in Byte /\ f[j + 1] \in Byte
        BY <1>2, <1>4, <2>1
      <3>2. P(j + 1) \in Byte
        BY <3>1, XorFacts
      <3> QED BY <3>2
    <2>2. CASE j + 1 \notin T
      BY <1>2, <1>4, <2>2
    <2> QED BY <2>1, <2>2
  <1> HIDE DEF S
  <1>5. n \in S
    BY <1>3, <1>4, UpTo
  <1> QED BY <1>1, <1>5 DEF S

AddUp(T, f, g, h) == \A j \in T : f[j] \in Byte /\ g[j] \in Byte /\ h[j] = xor(f[j], g[j])
Scaled(T, c, f, h) == \A j \in T : f[j] \in Byte /\ h[j] = gfMul(c, f[j])

(* The sum is additive ... *)
LEMMA SumAdds ==
  ASSUME NEW n \in Nat, NEW T, NEW f, NEW g, NEW h, AddUp(T, f, g, h)
  PROVE  Sum(h, T, n) = xor(Sum(f, T, n), Sum(g, T, n))
  <1> DEFINE F(j) == SumAt(f, T, n, j)
             G(j) == SumAt(g, T, n, j)
             H(j) == SumAt(h, T, n, j)
             S == {j \in Nat : F(j) \in Byte /\ G(j) \in Byte /\ H(j) = xor(F(j), G(j))}
  <1>1. Sum(f, T, n) = F(n) /\ Sum(g, T, n) = G(n) /\ Sum(h, T, n) = H(n)
    BY SumRounds, Zenon
  <1>2. F(0) = 0 /\ G(0) = 0 /\ H(0) = 0
    BY SumRounds, Zenon
  <1>3. \A j \in 0 .. n - 1 : /\ j + 1 \in T => F(j + 1) = xor(F(j), f[j + 1])
                              /\ j + 1 \notin T => F(j + 1) = F(j)
    BY SumRounds, Zenon
  <1>4. \A j \in 0 .. n - 1 : /\ j + 1 \in T => G(j + 1) = xor(G(j), g[j + 1])
                              /\ j + 1 \notin T => G(j + 1) = G(j)
    BY SumRounds, Zenon
  <1>5. \A j \in 0 .. n - 1 : /\ j + 1 \in T => H(j + 1) = xor(H(j), h[j + 1])
                              /\ j + 1 \notin T => H(j + 1) = H(j)
    BY SumRounds, Zenon
  <1> HIDE DEF F, G, H
  <1>9. \A j \in T : f[j] \in Byte /\ g[j] \in Byte /\ h[j] = xor(f[j], g[j])
    BY DEF AddUp
  <1>6. 0 \in S
    <2>1. 0 \in Byte
      BY DEF Byte
    <2>2. xor(0, 0) = 0
      BY <2>1, XorFacts
    <2> QED BY <1>2, <2>1, <2>2
  <1>7. ASSUME NEW j \in 0 .. n - 1, j \in S
        PROVE  j + 1 \in S
    <2>1. CASE j + 1 \in T
      <3> DEFINE a == F(j)
                 b == G(j)
                 c == f[j + 1]
                 d == g[j + 1]
      <3>1. a \in Byte /\ b \in Byte /\ c \in Byte /\ d \in Byte
        BY <1>7, <1>9, <2>1
      <3>2. F(j + 1) = xor(a, c) /\ G(j + 1) = xor(b, d) /\ H(j + 1) = xor(xor(a, b), xor(c, d))
        BY <1>3, <1>4, <1>5, <1>7, <1>9, <2>1
      <3> HIDE DEF a, b, c, d
      <3>3. xor(xor(a, b), xor(c, d)) = xor(xor(a, c), xor(b, d))
        BY <3>1, XorSwap
      <3>4. xor(a, c) \in Byte /\ xor(b, d) \in Byte
        BY <3>1, XorFacts
      <3> QED BY <3>2, <3>3, <3>4
    <2>2. CASE j + 1 \notin T
      BY <1>3, <1>4, <1>5, <1>7, <2>2
    <2> QED BY <2>1, <2>2
  <1> HIDE DEF S
  <1>8. n \in S
    BY <1>6, <1>7, UpTo
  <1> QED BY <1>1, <1>8 DEF S

(* ... a common factor can be taken out of it ... *)
LEMMA SumScales ==
  ASSUME NEW n \in Nat, NEW T, NEW c \in Byte, NEW f, NEW h, Scaled(T, c, f, h)
  PROVE  Sum(h, T, n) = gfMul(c, Sum(f, T, n))
  <1> DEFINE F(j) == SumAt(f, T, n, j)
             H(j) == SumAt(h, T, n, j)
             S == {j \in Nat : F(j) \in Byte /\ H(j) = gfMul(c, F(j))}
  <1>1. Sum(f, T, n) = F(n) /\ Sum(h, T, n) = H(n)
    BY SumRounds, Zenon
  <1>2. F(0) = 0 /\ H(0) = 0
    BY SumRounds, Zenon
  <1>3. \A j \in 0 .. n - 1 : /\ j + 1 \in T => F(j + 1) = xor(F(j), f[j + 1])
                              /\ j + 1 \notin T => F(j + 1) = F(j)
    BY SumRounds, Zenon
  <1>4. \A j \in 0 .. n - 1 : /\ j + 1 \in T => H(j + 1) = xor(H(j), h[j + 1])
                              /\ j + 1 \notin T => H(j + 1) = H(j)
    BY SumRounds, Zenon
  <1> HIDE DEF F, H
  <1>8. \A j \in T : f[j] \in Byte /\ h[j] = gfMul(c, f[j])
    BY DEF Scaled
  <1>5. 0 \in S
    BY <1>2, MulZero DEF Byte
  <1>6. ASSUME NEW j \in 0 .. n - 1, j \in S
        PROVE  j + 1 \in S
    <2>1. CASE j + 1 \in T
      <3> DEFINE a == F(j)
                 b == f[j + 1]
      <3>1. a \in Byte /\ b \in Byte
        BY <1>6, <1>8, <2>1
      <3>2. F(j + 1) = xor(a, b) /\ H(j + 1) = xor(gfMul(c, a), gfMul(c, b))
        BY <1>3, <1>4, <1>6, <1>8, <2>1
      <3> HIDE DEF a, b
      <3>3. gfMul(c, xor(a, b)) = xor(gfMul(c, a), gfMul(c, b))
        BY <3>1, Distributes
      <3>4. xor(a, b) \in Byte
        BY <3>1, XorFacts
      <3> QED BY <3>2, <3>3, <3>4
    <2>2. CASE j + 1 \notin T
      BY <1>3, <1>4, <1>6, <2>2
    <2> QED BY <2>1, <2>2
  <1> HIDE DEF S
  <1>7. n \in S
    BY <1>5, <1>6, UpTo
  <1> QED BY <1>1, <1>7 DEF S

(* ... and a term that is zero can be left out. *)
LEMMA SumLeavesOutZero ==
  ASSUME NEW n \in Nat, NEW T, NEW k, NEW f, \A j \in T : f[j] \in Byte
  PROVE  f[k] = 0 => Sum(f, T, n) = Sum(f, T \ {k}, n)
  <1> DEFINE F(j) == SumAt(f, T, n, j)
             H(j) == SumAt(f, T \ {k}, n, j)
             S == {j \in Nat : F(j) \in Byte /\ H(j) = F(j)}
  <1>a. Sum(f, T, n) = F(n) /\ F(0) = 0
    BY SumRounds, Zenon
  <1>b. Sum(f, T \ {k}, n) = H(n) /\ H(0) = 0
    BY SumRounds, Zenon
  <1>3. \A j \in 0 .. n - 1 : /\ j + 1 \in T => F(j + 1) = xor(F(j), f[j + 1])
                              /\ j + 1 \notin T => F(j + 1) = F(j)
    BY SumRounds, Zenon
  <1>4. \A j \in 0 .. n - 1 : /\ j + 1 \in T \ {k} => H(j + 1) = xor(H(j), f[j + 1])
                              /\ j + 1 \notin T \ {k} => H(j + 1) = H(j)
    BY SumRounds, ZenonT(40)
  <1> HIDE DEF F, H
  <1> HAVE f[k] = 0
  <1>5. 0 \in S
    BY <1>a, <1>b DEF Byte
  <1>6. ASSUME NEW j \in 0 .. n - 1, j \in S
        PROVE  j + 1 \in S
    <2>1. CASE j + 1 \in T
      <3>1. F(j) \in Byte /\ f[j + 1] \in Byte /\ F(j + 1) = xor(F(j), f[j + 1])
        BY <1>3, <1>6, <2>1
      <3>2. F(j + 1) \in Byte /\ xor(F(j), 0) = F(j)
        BY <3>1, XorFacts
      <3>3. CASE j + 1 = k
        BY <1>4, <1>6, <3>1, <3>2, <3>3
      <3>4. CASE j + 1 # k
        BY <1>4, <1>6, <2>1, <3>1, <3>2, <3>4
      <3> QED BY <3>3, <3>4
    <2>2. CASE j + 1 \notin T
      BY <1>3, <1>4, <1>6, <2>2
    <2> QED BY <2>1, <2>2
  <1> HIDE DEF S
  <1>7. n \in S
    BY <1>5, <1>6, UpTo
  <1> QED BY <1>a, <1>b, <1>7 DEF S

HornerLoop(coeffs, x, n, m, r) ==
  r = [k \in 0 .. m |-> IF k = 0 THEN coeffs[n] ELSE xor(gfMul(r[k - 1], x), coeffs[n - k])]
Horner(coeffs, x, k) ==
  (CHOOSE r : HornerLoop(coeffs, x, Len(coeffs), Len(coeffs) - 1, r))[k]

(* The loop of evalPoly, round by round: Horner(coeffs, x, k) is the       *)
(* result after k rounds.                                                  *)
LEMMA HornerLoops ==
  ASSUME NEW coeffs, NEW x, NEW n
  PROVE  \A m \in Nat : \E r : HornerLoop(coeffs, x, n, m, r)
  <1> DEFINE S == {m \in Nat : \E r : HornerLoop(coeffs, x, n, m, r)}
  <1>1. 0 \in S
    <2> DEFINE r == [k \in 0 .. 0 |-> coeffs[n]]
    <2>1. HornerLoop(coeffs, x, n, 0, r)
      BY DEF HornerLoop
    <2> QED BY <2>1
  <1>2. ASSUME NEW m \in Nat, m \in S
        PROVE  m + 1 \in S
    <2>1. PICK r : HornerLoop(coeffs, x, n, m, r)
      BY <1>2
    <2> DEFINE v == xor(gfMul(r[m], x), coeffs[n - (m + 1)])
               q == [k \in 0 .. m + 1 |-> IF k = m + 1 THEN v ELSE r[k]]
    <2> HIDE DEF v
    <2>2. \A k \in 0 .. m : r[k] = IF k = 0 THEN coeffs[n]
                                   ELSE xor(gfMul(r[k - 1], x), coeffs[n - k])
      BY <2>1 DEF HornerLoop
    <2>3. \A k \in 0 .. m + 1 : q[k] = IF k = 0 THEN coeffs[n]
                                       ELSE xor(gfMul(q[k - 1], x), coeffs[n - k])
      <3> TAKE k \in 0 .. m + 1
      <3>1. CASE k = m + 1
        BY <3>1 DEF v
      <3>2. CASE k # m + 1
        BY <3>2, <2>2
      <3> QED BY <3>1, <3>2
    <2>4. HornerLoop(coeffs, x, n, m + 1, q)
      BY <2>3 DEF HornerLoop
    <2> QED BY <2>4
  <1> HIDE DEF S
  <1>3. Nat \subseteq S
    BY <1>1, <1>2, Induction
  <1> QED BY <1>3 DEF S

LEMMA HornerRounds ==
  ASSUME NEW coeffs, Len(coeffs) \in Nat \ {0}, NEW x
  PROVE  /\ evalPoly(coeffs, x) = Horner(coeffs, x, Len(coeffs) - 1)
         /\ Horner(coeffs, x, 0) = coeffs[Len(coeffs)]
         /\ \A k \in 1 .. Len(coeffs) - 1 :
              Horner(coeffs, x, k) =
                xor(gfMul(Horner(coeffs, x, k - 1), x), coeffs[Len(coeffs) - k])
  <1> DEFINE r == CHOOSE r : HornerLoop(coeffs, x, Len(coeffs), Len(coeffs) - 1, r)
  <1>0. Len(coeffs) - 1 \in Nat
    OBVIOUS
  <1>1. HornerLoop(coeffs, x, Len(coeffs), Len(coeffs) - 1, r)
    BY <1>0, HornerLoops, Zenon
  <1>2. evalPoly(coeffs, x) = r[Len(coeffs) - 1]
    BY Zenon DEF evalPoly, HornerLoop
  <1>3. \A k : Horner(coeffs, x, k) = r[k]
    BY Zenon DEF Horner
  <1> HIDE DEF r
  <1>4. \A k \in 0 .. Len(coeffs) - 1 :
          r[k] = IF k = 0 THEN coeffs[Len(coeffs)]
                 ELSE xor(gfMul(r[k - 1], x), coeffs[Len(coeffs) - k])
    BY <1>0, <1>1 DEF HornerLoop
  <1>5. r[0] = coeffs[Len(coeffs)]
    BY <1>0, <1>4
  <1>6. \A k \in 1 .. Len(coeffs) - 1 :
          r[k] = xor(gfMul(r[k - 1], x), coeffs[Len(coeffs) - k])
    BY <1>0, <1>4
  <1> QED BY <1>2, <1>3, <1>5, <1>6, Zenon

(* evalPoly returns a byte. *)
LEMMA HornerIsAByte ==
  ASSUME NEW coeffs \in Seq(Byte), coeffs # <<>>, NEW x \in Byte
  PROVE  /\ \A k \in 0 .. Len(coeffs) - 1 : Horner(coeffs, x, k) \in Byte
         /\ evalPoly(coeffs, x) \in Byte
  <1> DEFINE n == Len(coeffs)
             H(k) == Horner(coeffs, x, k)
             S == {k \in Nat : k <= n - 1 => H(k) \in Byte}
  <1>0. n \in Nat \ {0} /\ \A i \in 1 .. n : coeffs[i] \in Byte
    OBVIOUS
  <1>1. evalPoly(coeffs, x) = H(n - 1) /\ H(0) = coeffs[n]
    BY <1>0, HornerRounds, Zenon
  <1>2. \A k \in 1 .. n - 1 : H(k) = xor(gfMul(H(k - 1), x), coeffs[n - k])
    BY <1>0, HornerRounds, Zenon
  <1> HIDE DEF n, H
  <1>3. 0 \in S
    BY <1>0, <1>1
  <1>4. ASSUME NEW k \in Nat, k \in S
        PROVE  k + 1 \in S
    <2> SUFFICES ASSUME k + 1 <= n - 1
                 PROVE  H(k + 1) \in Byte
      OBVIOUS
    <2>1. H(k) \in Byte /\ k + 1 \in 1 .. n - 1 /\ (k + 1) - 1 = k /\ n - (k + 1) \in 1 .. n
      BY <1>0, <1>4
    <2>2. H(k + 1) = xor(gfMul(H(k), x), coeffs[n - (k + 1)])
      BY <1>2, <2>1
    <2>3. gfMul(H(k), x) \in Byte
      BY <2>1, MulFacts
    <2>4. coeffs[n - (k + 1)] \in Byte
      BY <1>0, <2>1
    <2> QED BY <2>2, <2>3, <2>4, XorFacts
  <1> HIDE DEF S
  <1>5. Nat \subseteq S
    BY <1>3, <1>4, Induction
  <1>6. \A k \in 0 .. n - 1 : H(k) \in Byte
    BY <1>0, <1>5 DEF S
  <1>7. n - 1 \in 0 .. n - 1
    BY <1>0
  <1> QED BY <1>1, <1>6, <1>7 DEF H, n

(***************************************************************************)
(* More of the field.                                                      *)
(***************************************************************************)
LEMMA NonZeroByte == NonZero \subseteq Byte /\ \A a \in Byte : a # 0 => a \in NonZero
  BY DEF NonZero

LEMMA DistributesRight ==
  ASSUME NEW a \in Byte, NEW x \in Byte, NEW y \in Byte
  PROVE  gfMul(xor(x, y), a) = xor(gfMul(x, a), gfMul(y, a))
  <1>1. gfMul(a, xor(x, y)) = xor(gfMul(a, x), gfMul(a, y))
    BY Distributes
  <1>2. gfMul(a, x) = gfMul(x, a) /\ gfMul(a, y) = gfMul(y, a)
    BY MulFacts
  <1>3. xor(x, y) \in Byte
    BY XorFacts
  <1>4. gfMul(xor(x, y), a) = gfMul(a, xor(x, y))
    BY <1>3, MulFacts
  <1> QED BY <1>1, <1>2, <1>4

LEMMA MulByOne ==
  ASSUME NEW a \in Byte
  PROVE  gfMul(a, 1) = a /\ gfMul(1, a) = a
  <1>1. 1 \in Byte
    BY DEF Byte
  <1> QED BY <1>1, MulFacts

(* A nonzero factor cancels. *)
LEMMA MulCancels ==
  ASSUME NEW a \in Byte, NEW b \in Byte, NEW c \in NonZero,
         gfMul(a, c) = gfMul(b, c)
  PROVE  a = b
  <1> DEFINE inv == gfDiv(1, c)
  <1>1. 1 \in Byte /\ c \in Byte
    BY DEF Byte, NonZero
  <1>2. inv \in Byte /\ gfMul(inv, c) = 1
    BY <1>1, DivFacts
  <1> HIDE DEF inv
  <1>3. gfMul(c, inv) = 1
    BY <1>1, <1>2, MulFacts
  <1>4. gfMul(gfMul(a, c), inv) = gfMul(a, gfMul(c, inv))
    BY <1>1, <1>2, MulFacts
  <1>5. gfMul(gfMul(b, c), inv) = gfMul(b, gfMul(c, inv))
    BY <1>1, <1>2, MulFacts
  <1> QED BY <1>3, <1>4, <1>5, MulByOne

(* Fractions can be reduced. *)
LEMMA CommonFactorCancels ==
  ASSUME NEW d \in NonZero, NEW x \in NonZero, NEW a \in NonZero, NEW b \in NonZero
  PROVE  gfMul(d, gfDiv(gfMul(x, a), gfMul(d, b))) = gfMul(x, gfDiv(a, b))
  <1> DEFINE q == gfDiv(gfMul(x, a), gfMul(d, b))
             r == gfDiv(a, b)
  <1>1. d \in Byte /\ x \in Byte /\ a \in Byte /\ b \in Byte
    BY NonZeroByte
  <1>2. gfMul(x, a) \in NonZero /\ gfMul(d, b) \in NonZero
    BY MulFacts
  <1>3. gfMul(x, a) \in Byte /\ gfMul(d, b) \in Byte
    BY <1>2, NonZeroByte
  <1>4. q \in Byte /\ gfMul(q, gfMul(d, b)) = gfMul(x, a)
    BY <1>2, <1>3, DivFacts
  <1>5. r \in Byte /\ gfMul(r, b) = a
    BY <1>1, DivFacts
  <1> HIDE DEF q, r
  <1>6. gfMul(d, q) \in Byte /\ gfMul(x, r) \in Byte /\ gfMul(d, q) = gfMul(q, d)
    BY <1>1, <1>4, <1>5, MulFacts
  <1>7. gfMul(gfMul(q, d), b) = gfMul(q, gfMul(d, b))
    BY <1>1, <1>4, MulFacts
  <1>8. gfMul(gfMul(x, r), b) = gfMul(x, gfMul(r, b))
    BY <1>1, <1>5, MulFacts
  <1>9. gfMul(gfMul(d, q), b) = gfMul(gfMul(x, r), b)
    BY <1>4, <1>5, <1>6, <1>7, <1>8
  <1>10. gfMul(d, q) = gfMul(x, r)
    BY <1>6, <1>9, MulCancels
  <1> QED BY <1>10 DEF q, r

(* d(gw) = x(gv) when dw = xv. *)
LEMMA Rearranged ==
  ASSUME NEW d \in Byte, NEW g \in Byte, NEW w \in Byte, NEW x \in Byte,
         NEW v \in Byte, gfMul(d, w) = gfMul(x, v)
  PROVE  gfMul(gfMul(d, g), w) = gfMul(x, gfMul(g, v))
  <1>1. gfMul(d, g) = gfMul(g, d) /\ gfMul(g, x) = gfMul(x, g)
    BY MulFacts
  <1>2. gfMul(gfMul(g, d), w) = gfMul(g, gfMul(d, w))
    BY MulFacts
  <1>3. gfMul(gfMul(g, x), v) = gfMul(g, gfMul(x, v))
    BY MulFacts
  <1>4. gfMul(gfMul(x, g), v) = gfMul(x, gfMul(g, v))
    BY MulFacts
  <1> QED BY <1>1, <1>2, <1>3, <1>4

(***************************************************************************)
(* The product of the tables is gfMulSlow's.                               *)
(***************************************************************************)
LEMMA Doubling ==
  ASSUME NEW a \in Byte
  PROVE  Dbl(a) = gfMul(2, a) /\ (a < 128 => Dbl(a) = 2 * a)
  <1>0. 1 \in Byte /\ 2 \in Byte /\ 0 \in Byte
    BY DEF Byte
  <1>1. xor(1, 2) = 3
    <2>1. Sum16(1, 2) = 3
      BY DEF Sum16, Half, Odd
    <2> QED BY <1>0, <2>1, XorIs
  <1>2. gfMul(xor(1, 2), a) = xor(gfMul(1, a), gfMul(2, a))
    BY <1>0, DistributesRight
  <1>3. gfMul(1, a) = a /\ gfMul(2, a) \in Byte /\ Dbl(a) \in Byte
    BY <1>0, MulFacts, DblIsAByte
  <1>4. xor(a, gfMul(2, a)) = xor(a, Dbl(a))
    BY <1>1, <1>2, <1>3, GfMulByThree, ThriceIs
  <1>5. gfMul(2, a) = Dbl(a)
    <2>1. xor(a, xor(a, gfMul(2, a))) = gfMul(2, a)
      BY <1>3, XorFacts
    <2>2. xor(a, xor(a, Dbl(a))) = Dbl(a)
      BY <1>3, XorFacts
    <2> QED BY <1>4, <2>1, <2>2
  <1>6. ASSUME a < 128
        PROVE  Dbl(a) = 2 * a
    <2>1. (2 * a) % 256 = 2 * a /\ 2 * a \in Byte /\ ~(a >= 128)
      BY <1>6 DEF Byte
    <2>2. xor(2 * a, 0) = 2 * a
      BY <2>1, XorFacts
    <2> QED BY <2>1, <2>2 DEF Dbl
  <1> QED BY <1>5, <1>6

(* The single bits. *)
Two(i) == 2^i
OneBit == {1, 2, 4, 8, 16, 32, 64, 128}
LEMMA PowersOfTwo ==
  /\ Two(0) = 1 /\ Two(8) = 256
  /\ \A i \in 0 .. 7 : Two(i) \in OneBit /\ Two(i + 1) = 2 * Two(i)
  <1>1. /\ Two(0) = 1 /\ Two(1) = 2 /\ Two(2) = 4 /\ Two(3) = 8 /\ Two(4) = 16 /\ Two(5) = 32
        /\ Two(6) = 64 /\ Two(7) = 128 /\ Two(8) = 256
    BY DEF Two
  <1>2. ASSUME NEW i \in 0 .. 7
        PROVE  Two(i) \in OneBit /\ Two(i + 1) = 2 * Two(i)
    <2>1. i = 0 \/ i = 1 \/ i = 2 \/ i = 3 \/ i = 4 \/ i = 5 \/ i = 6 \/ i = 7
      OBVIOUS
    <2> QED BY <1>1, <2>1 DEF OneBit
  <1> QED BY <1>1, <1>2
LEMMA OneBitIsAByte == OneBit \subseteq Byte /\ \A m \in OneBit : m < 128 => 2 * m \in OneBit
  BY DEF OneBit, Byte

(* In round i of gfMulSlow, a has been multiplied by 2^i ... *)
LEMMA DoubledIs ==
  ASSUME NEW a \in Byte
  PROVE  \A i \in 0 .. 7 : Doubled(a)[i] = gfMul(Two(i), a)
  <1> DEFINE d == Doubled(a)
             S == {i \in Nat : i <= 7 => d[i] = gfMul(Two(i), a)}
  <1>1. d[0] = a /\ \A i \in 0 .. 7 : d[i + 1] = Dbl(d[i])
    BY DoubledRounds
  <1> HIDE DEF d
  <1>2. 0 \in S
    BY <1>1, PowersOfTwo, MulFacts
  <1>3. ASSUME NEW i \in Nat, i \in S
        PROVE  i + 1 \in S
    <2> SUFFICES ASSUME i \in 0 .. 6
                 PROVE  d[i + 1] = gfMul(Two(i + 1), a)
      OBVIOUS
    <2> DEFINE m == Two(i)
    <2>1. m \in Byte /\ d[i] = gfMul(m, a)
      BY <1>3, PowersOfTwo, OneBitIsAByte
    <2>2. m < 128 /\ Two(i + 1) = 2 * m /\ 2 * m \in Byte
      <3>1. m \in OneBit /\ Two(i + 1) = 2 * m /\ 2 * m \in OneBit
        BY PowersOfTwo
      <3> QED BY <3>1 DEF OneBit, Byte
    <2> HIDE DEF m
    <2>3. gfMul(2, m) = 2 * m
      BY <2>1, <2>2, Doubling
    <2>4. d[i + 1] = gfMul(2, gfMul(m, a))
      <3>1. gfMul(m, a) \in Byte
        BY <2>1, MulFacts
      <3> QED BY <1>1, <2>1, <3>1, Doubling
    <2>5. gfMul(2, gfMul(m, a)) = gfMul(gfMul(2, m), a)
      <3>1. 2 \in Byte
        BY DEF Byte
      <3> QED BY <2>1, <3>1, MulFacts
    <2> QED BY <2>2, <2>3, <2>4, <2>5
  <1> HIDE DEF S
  <1>4. Nat \subseteq S
    BY <1>2, <1>3, Induction
  <1> QED BY <1>4 DEF S, d

(* ... and it is added to the sum if b has that bit, which XOR sets. *)
LowBits(b, m) ==
  b % (2 * m) = IF (b \div m) % 2 = 1 THEN xor(b % m, m) ELSE b % m
LEMMA NextBit ==
  ASSUME NEW b \in Byte, NEW m \in OneBit
  PROVE  LowBits(b, m) /\ b % m \in Byte
  <1>1. b % m \in 0 .. (m - 1) /\ b % m \in Byte /\ m \in Byte
    BY DEF Byte, OneBit
  <1>2. ASSUME NEW x \in 0 .. m - 1
        PROVE  Sum16(x, m) = x + m
    BY DEF Sum16, Half, Odd, OneBit
  <1>3. xor(b % m, m) = (b % m) + m
    BY <1>1, <1>2, XorIs
  <1>4. b % (2 * m) = IF (b \div m) % 2 = 1 THEN (b % m) + m ELSE b % m
    BY SMTT(60) DEF Byte, OneBit
  <1> QED BY <1>1, <1>3, <1>4 DEF LowBits

(* After round i the sum is the product of a and the i low bits of b. *)
LEMMA AddedIs ==
  ASSUME NEW a \in Byte, NEW b \in Byte
  PROVE  gfMulSlow(a, b) = gfMul(a, b)
  <1> DEFINE p == Added(a, b)
             d == Doubled(a)
             S == {i \in Nat : i <= 8 => p[i] = gfMul(a, b % Two(i))}
  <1>1. /\ gfMulSlow(a, b) = p[8] /\ p[0] = 0
        /\ \A i \in 0 .. 7 : p[i + 1] = IF Bit(b, i) = 1 THEN xor(p[i], d[i]) ELSE p[i]
    BY AddedRounds
  <1>2. \A i \in 0 .. 7 : d[i] = gfMul(Two(i), a)
    BY DoubledIs
  <1> HIDE DEF p, d
  <1>3. 0 \in S
    <2>1. b % Two(0) = 0
      BY PowersOfTwo DEF Byte
    <2> QED BY <1>1, <2>1, MulZero
  <1>4. ASSUME NEW i \in Nat, i \in S
        PROVE  i + 1 \in S
    <2> SUFFICES ASSUME i \in 0 .. 7
                 PROVE  p[i + 1] = gfMul(a, b % Two(i + 1))
      OBVIOUS
    <2> DEFINE m == Two(i)
               l == b % m
    <2>1. m \in OneBit /\ Two(i + 1) = 2 * m
      BY PowersOfTwo
    <2>2. p[i] = gfMul(a, l) /\ m \in Byte /\ d[i] = gfMul(m, a)
      BY <1>2, <1>4, <2>1, OneBitIsAByte
    <2>3. Bit(b, i) = (b \div m) % 2
      BY Zenon DEF Bit, Two
    <2> HIDE DEF m
    <2>4. LowBits(b, m) /\ l \in Byte
      BY <2>1, NextBit
    <2>5. gfMul(a, xor(l, m)) = xor(gfMul(a, l), gfMul(a, m))
      BY <2>2, <2>4, Distributes
    <2>6. gfMul(a, m) = gfMul(m, a)
      BY <2>2, MulFacts
    <2>7. p[i + 1] = gfMul(a, IF (b \div m) % 2 = 1 THEN xor(l, m) ELSE l)
      BY <1>1, <2>2, <2>3, <2>5, <2>6
    <2> QED BY <2>1, <2>4, <2>7 DEF LowBits
  <1> HIDE DEF S
  <1>5. Nat \subseteq S
    BY <1>3, <1>4, Induction
  <1>6. p[8] = gfMul(a, b % Two(8))
    <2>1. 8 \in S
      BY <1>5
    <2> QED BY <2>1 DEF S
  <1>7. b % Two(8) = b
    BY PowersOfTwo DEF Byte
  <1> QED BY <1>1, <1>6, <1>7

(* What the tables compute is the field, and division undoes               *)
(* multiplication.                                                         *)
LEMMA TheField == TablesAreTheField
  <1>1. ASSUME NEW a \in Byte, NEW b \in Byte
        PROVE  gfMul(a, b) = gfMulSlow(a, b)
    BY AddedIs
  <1>2. ASSUME NEW a \in Byte, NEW b \in Byte, b # 0
        PROVE  gfDiv(gfMul(a, b), b) = a
    <2>1. b \in NonZero /\ gfMul(a, b) \in Byte
      BY <1>2, NonZeroByte, MulFacts
    <2>2. gfDiv(gfMul(a, b), b) \in Byte /\ gfMul(gfDiv(gfMul(a, b), b), b) = gfMul(a, b)
      BY <2>1, DivFacts
    <2> QED BY <2>1, <2>2, MulCancels
  <1> QED BY <1>1, <1>2, TheTables, Zenon DEF TablesAreTheField

(***************************************************************************)
(* Interpolation at 0 over the points in T.                                *)
(***************************************************************************)
Points(X, n) == /\ n \in Nat /\ \A i \in 1 .. n : X[i] \in NonZero
                /\ \A i, j \in 1 .. n : X[i] = X[j] => i = j
Diff(X, n, i) == [j \in 1 .. n |-> xor(X[i], X[j])]
Weight(X, n, T, i) == gfDiv(Product(X, T \ {i}, n), Product(Diff(X, n, i), T \ {i}, n))
Terms(X, n, T, g) == [i \in 1 .. n |-> gfMul(g[i], Weight(X, n, T, i))]
AtZero(X, n, T, g) == Sum(Terms(X, n, T, g), T, n)

(* Different points have a nonzero difference: Combine's check of          *)
(* duplicates.                                                             *)
LEMMA Differences ==
  ASSUME NEW X, NEW n, Points(X, n), NEW i \in 1 .. n, NEW j \in 1 .. n
  PROVE  /\ Diff(X, n, i)[j] = xor(X[i], X[j]) /\ Diff(X, n, i)[j] \in Byte
         /\ i # j => Diff(X, n, i)[j] \in NonZero
  <1>1. Diff(X, n, i)[j] = xor(X[i], X[j])
    BY DEF Diff
  <1>2. X[i] \in Byte /\ X[j] \in Byte /\ (i # j => X[i] # X[j])
    BY NonZeroByte DEF Points
  <1>3. xor(X[i], X[j]) \in Byte
    BY <1>2, XorFacts
  <1>4. i # j => xor(X[i], X[j]) # 0
    BY <1>2, XorIsZero
  <1> QED BY <1>1, <1>3, <1>4, NonZeroByte

(* Every Lagrange coefficient is defined and nonzero. *)
LEMMA Weights ==
  ASSUME NEW X, NEW n, Points(X, n), NEW T \in SUBSET (1 .. n), NEW i \in T
  PROVE  /\ Product(X, T \ {i}, n) \in NonZero
         /\ Product(Diff(X, n, i), T \ {i}, n) \in NonZero
         /\ Weight(X, n, T, i) \in NonZero
  <1>0. n \in Nat
    BY DEF Points
  <1>1. \A j \in T \ {i} : X[j] \in NonZero
    BY DEF Points
  <1>2. \A j \in T \ {i} : Diff(X, n, i)[j] \in NonZero
    BY Differences
  <1>3. Product(X, T \ {i}, n) \in NonZero
    BY <1>0, <1>1, ProductNonZero
  <1>4. Product(Diff(X, n, i), T \ {i}, n) \in NonZero
    BY <1>0, <1>2, ProductNonZero
  <1>5. Weight(X, n, T, i) \in NonZero
    BY <1>3, <1>4, DivFacts DEF Weight
  <1> QED BY <1>3, <1>4, <1>5

(* Without the point k, the weight of i is multiplied by (x_i - x_k)/x_k.  *)
Without(X, n, T, k) ==
  \A i \in T \ {k} :
    gfMul(xor(X[i], X[k]), Weight(X, n, T, i)) = gfMul(X[k], Weight(X, n, T \ {k}, i))

(* The weights of the other points when one point is left out. *)
LEMMA WeightWithout ==
  ASSUME NEW X, NEW n, Points(X, n), NEW T \in SUBSET (1 .. n),
         NEW k \in T
  PROVE  Without(X, n, T, k)
  <1> SUFFICES ASSUME NEW i \in T \ {k}
               PROVE  gfMul(xor(X[i], X[k]), Weight(X, n, T, i))
                        = gfMul(X[k], Weight(X, n, T \ {k}, i))
    BY DEF Without
  <1> DEFINE U == T \ {i}
             D == Diff(X, n, i)
             a == Product(X, U \ {k}, n)
             b == Product(D, U \ {k}, n)
  <1>0. n \in Nat /\ i # k /\ i \in T /\ k \in U /\ k \in 1 .. n /\ i \in 1 .. n /\ (T \ {k}) \ {i} = U \ {k}
    BY DEF Points
  <1>1. \A j \in U : X[j] \in NonZero /\ D[j] \in NonZero
    BY <1>0, Differences DEF Points
  <1>2. D[k] = xor(X[i], X[k])
    BY <1>0, Differences
  <1>3. Weight(X, n, T, i) = gfDiv(Product(X, U, n), Product(D, U, n))
    BY Zenon DEF Weight
  <1>4. Weight(X, n, T \ {k}, i) = gfDiv(a, b)
    BY <1>0 DEF Weight
  <1> HIDE DEF U, D
  <1>5. Product(X, U, n) = gfMul(X[k], a)
    BY <1>0, <1>1, ProductSplit, ZenonT(40)
  <1>6. Product(D, U, n) = gfMul(D[k], b)
    BY <1>0, <1>1, ProductSplit, ZenonT(40)
  <1>7. a \in NonZero
    BY <1>0, <1>1, ProductNonZero
  <1>8. b \in NonZero
    BY <1>0, <1>1, ProductNonZero
  <1>9. X[k] \in NonZero /\ D[k] \in NonZero
    BY <1>0, <1>1
  <1> HIDE DEF a, b
  <1>10. gfMul(D[k], gfDiv(gfMul(X[k], a), gfMul(D[k], b))) = gfMul(X[k], gfDiv(a, b))
    BY <1>7, <1>8, <1>9, CommonFactorCancels
  <1> QED BY <1>2, <1>3, <1>4, <1>5, <1>6, <1>10

Bytes(T, g) == \A i \in T : g[i] \in Byte

(* The terms that Combine adds up. *)
LEMMA TermFacts ==
  ASSUME NEW X, NEW n, Points(X, n), NEW T \in SUBSET (1 .. n), NEW g, Bytes(T, g)
  PROVE  \A i \in T : /\ Terms(X, n, T, g)[i] = gfMul(g[i], Weight(X, n, T, i))
                      /\ Terms(X, n, T, g)[i] \in Byte /\ Weight(X, n, T, i) \in Byte
  <1> TAKE i \in T
  <1>1. Terms(X, n, T, g)[i] = gfMul(g[i], Weight(X, n, T, i))
    BY DEF Terms
  <1>2. Weight(X, n, T, i) \in Byte
    BY Weights, NonZeroByte
  <1>3. gfMul(g[i], Weight(X, n, T, i)) \in Byte
    BY <1>2, MulFacts DEF Bytes
  <1> QED BY <1>1, <1>2, <1>3

LEMMA AtZeroIsAByte ==
  ASSUME NEW X, NEW n, Points(X, n), NEW T \in SUBSET (1 .. n), NEW g, Bytes(T, g)
  PROVE  AtZero(X, n, T, g) \in Byte
  <1>1. n \in Nat
    BY DEF Points
  <1> QED BY <1>1, TermFacts, SumIsAByte DEF AtZero

(* Interpolation at 0 is linear in the values. *)
LEMMA AtZeroAdds ==
  ASSUME NEW X, NEW n, Points(X, n), NEW T \in SUBSET (1 .. n),
         NEW f, NEW g, NEW h, AddUp(T, f, g, h)
  PROVE  AtZero(X, n, T, h) = xor(AtZero(X, n, T, f), AtZero(X, n, T, g))
  <1> DEFINE W(i) == Weight(X, n, T, i)
             F == Terms(X, n, T, f)
             G == Terms(X, n, T, g)
             H == Terms(X, n, T, h)
  <1>1. n \in Nat
    BY DEF Points
  <1>0. Bytes(T, f) /\ Bytes(T, g) /\ \A i \in T : h[i] = xor(f[i], g[i])
    BY DEF AddUp, Bytes
  <1>2. Bytes(T, h)
    BY <1>0, XorFacts DEF Bytes
  <1>3. \A i \in T : F[i] = gfMul(f[i], W(i)) /\ F[i] \in Byte /\ W(i) \in Byte
    BY <1>0, TermFacts
  <1>4. \A i \in T : G[i] = gfMul(g[i], W(i)) /\ G[i] \in Byte
    BY <1>0, TermFacts
  <1>5. \A i \in T : H[i] = gfMul(h[i], W(i))
    BY <1>2, TermFacts
  <1>6. /\ AtZero(X, n, T, f) = Sum(F, T, n) /\ AtZero(X, n, T, g) = Sum(G, T, n)
        /\ AtZero(X, n, T, h) = Sum(H, T, n)
    BY DEF AtZero
  <1> HIDE DEF W, F, G, H
  <1>7. \A i \in T : H[i] = xor(F[i], G[i])
    <2> TAKE i \in T
    <2>1. gfMul(xor(f[i], g[i]), W(i)) = xor(gfMul(f[i], W(i)), gfMul(g[i], W(i)))
      BY <1>0, <1>3, DistributesRight DEF Bytes
    <2> QED BY <1>0, <1>3, <1>4, <1>5, <2>1
  <1>8. AddUp(T, F, G, H)
    BY <1>3, <1>4, <1>7 DEF AddUp
  <1>9. Sum(H, T, n) = xor(Sum(F, T, n), Sum(G, T, n))
    BY <1>1, <1>8, SumAdds
  <1> QED BY <1>6, <1>9

(* A common factor of the values is one of the result. *)
LEMMA AtZeroScales ==
  ASSUME NEW X, NEW n, Points(X, n), NEW T \in SUBSET (1 .. n), NEW c \in Byte,
         NEW f, NEW h, Scaled(T, c, f, h)
  PROVE  AtZero(X, n, T, h) = gfMul(c, AtZero(X, n, T, f))
  <1> DEFINE W(i) == Weight(X, n, T, i)
             F == Terms(X, n, T, f)
             H == Terms(X, n, T, h)
  <1>1. n \in Nat
    BY DEF Points
  <1>0. Bytes(T, f) /\ \A i \in T : h[i] = gfMul(c, f[i])
    BY DEF Scaled, Bytes
  <1>2. Bytes(T, h)
    BY <1>0, MulFacts, ZenonT(40) DEF Bytes
  <1>3. \A i \in T : F[i] = gfMul(f[i], W(i)) /\ F[i] \in Byte /\ W(i) \in Byte
    BY <1>0, TermFacts
  <1>4. \A i \in T : H[i] = gfMul(h[i], W(i))
    BY <1>2, TermFacts
  <1>5. AtZero(X, n, T, f) = Sum(F, T, n) /\ AtZero(X, n, T, h) = Sum(H, T, n)
    BY DEF AtZero
  <1> HIDE DEF W, F, H
  <1>6. \A i \in T : H[i] = gfMul(c, F[i])
    <2> TAKE i \in T
    <2>1. f[i] \in Byte /\ W(i) \in Byte
      BY <1>0, <1>3 DEF Bytes
    <2>2. gfMul(gfMul(c, f[i]), W(i)) = gfMul(c, gfMul(f[i], W(i)))
      BY <2>1, MulAssociates
    <2> QED BY <1>0, <1>3, <1>4, <2>2
  <1>7. Scaled(T, c, F, H)
    BY <1>3, <1>6 DEF Scaled
  <1>8. Sum(H, T, n) = gfMul(c, Sum(F, T, n))
    BY <1>1, <1>7, SumScales
  <1> QED BY <1>5, <1>8

(* What vanishes at the point k is interpolated without it. *)
Vanishing(X, T, k, g, h) == \A i \in T : g[i] \in Byte /\ h[i] = gfMul(xor(X[i], X[k]), g[i])

LEMMA AtZeroWithout ==
  ASSUME NEW X, NEW n, Points(X, n), NEW T \in SUBSET (1 .. n), NEW k \in T,
         NEW g, NEW h, Vanishing(X, T, k, g, h)
  PROVE  AtZero(X, n, T, h) = gfMul(X[k], AtZero(X, n, T \ {k}, g))
  <1> DEFINE U == T \ {k}
             W(i) == Weight(X, n, T, i)
             V(i) == Weight(X, n, U, i)
             G == Terms(X, n, U, g)
             H == Terms(X, n, T, h)
  <1>0. Bytes(T, g) /\ \A i \in T : h[i] = gfMul(xor(X[i], X[k]), g[i])
    BY DEF Vanishing, Bytes
  <1>1. /\ n \in Nat /\ U \subseteq 1 .. n /\ Bytes(U, g) /\ U \subseteq T /\ k \notin U
        /\ U = T \ {k}
    BY <1>0 DEF Points, Bytes
  <1> HIDE DEF U
  <1>2. \A i \in T : X[i] \in Byte /\ X[i] \in NonZero
    BY NonZeroByte DEF Points
  <1>3. \A i \in T : xor(X[i], X[k]) \in Byte
    BY <1>2, XorFacts
  <1>4. Bytes(T, h)
    <2> SUFFICES ASSUME NEW i \in T
                 PROVE  h[i] \in Byte
      BY DEF Bytes
    <2>1. xor(X[i], X[k]) \in Byte /\ g[i] \in Byte
      BY <1>0, <1>3 DEF Bytes
    <2> QED BY <1>0, <2>1, MulFacts
  <1>5. \A i \in T : H[i] = gfMul(h[i], W(i)) /\ H[i] \in Byte /\ W(i) \in Byte
    BY <1>4, TermFacts
  <1>6. \A i \in U : G[i] = gfMul(g[i], V(i)) /\ G[i] \in Byte /\ V(i) \in Byte
    <2>1. U \subseteq 1 .. n /\ Bytes(U, g)
      BY <1>1
    <2> QED BY <2>1, TermFacts
  <1>7. \A i \in U : gfMul(xor(X[i], X[k]), W(i)) = gfMul(X[k], V(i))
    <2>1. Without(X, n, T, k)
      BY WeightWithout
    <2> QED BY <1>1, <2>1 DEF Without
  <1>8. AtZero(X, n, T, h) = Sum(H, T, n) /\ AtZero(X, n, U, g) = Sum(G, U, n)
    BY DEF AtZero
  <1> HIDE DEF W, V, G, H
  <1>9. H[k] = 0
    <2>1. xor(X[k], X[k]) = 0
      BY <1>2, XorFacts
    <2>2. h[k] = 0
      BY <1>0, <2>1, MulZero
    <2> QED BY <1>5, <2>2, MulZero
  <1>10. Sum(H, T, n) = Sum(H, U, n)
    BY <1>1, <1>5, <1>9, SumLeavesOutZero
  <1>11. \A i \in U : H[i] = gfMul(X[k], G[i])
    <2> TAKE i \in U
    <2>1. /\ xor(X[i], X[k]) \in Byte /\ X[k] \in Byte /\ W(i) \in Byte /\ V(i) \in Byte
          /\ gfMul(xor(X[i], X[k]), W(i)) = gfMul(X[k], V(i))
      BY <1>1, <1>2, <1>3, <1>5, <1>6, <1>7
    <2>2. g[i] \in Byte
      BY <1>1 DEF Bytes
    <2>3. gfMul(gfMul(xor(X[i], X[k]), g[i]), W(i)) = gfMul(X[k], gfMul(g[i], V(i)))
      BY <2>1, <2>2, Rearranged
    <2> QED BY <1>0, <1>1, <1>5, <1>6, <2>3
  <1>12. X[k] \in Byte
    BY <1>2
  <1>13. Sum(H, U, n) = gfMul(X[k], Sum(G, U, n))
    <2>1. Scaled(U, X[k], G, H)
      BY <1>6, <1>11 DEF Scaled
    <2> QED BY <1>1, <1>12, <2>1, SumScales
  <1> QED BY <1>1, <1>8, <1>10, <1>13

(* One point, one term. *)
LEMMA SumOfOneTerm ==
  ASSUME NEW n \in Nat, NEW a \in 1 .. n, NEW f, f[a] \in Byte
  PROVE  Sum(f, {a}, n) = f[a]
  <1> DEFINE P(j) == SumAt(f, {a}, n, j)
             S == {j \in Nat : P(j) = IF j < a THEN 0 ELSE f[a]}
  <1>1. Sum(f, {a}, n) = P(n) /\ P(0) = 0
    BY SumRounds, Zenon
  <1>2. \A j \in 0 .. n - 1 : /\ j + 1 \in {a} => P(j + 1) = xor(P(j), f[j + 1])
                              /\ j + 1 \notin {a} => P(j + 1) = P(j)
    BY SumRounds, Zenon
  <1> HIDE DEF P
  <1>3. 0 \in S
    BY <1>1
  <1>4. ASSUME NEW j \in 0 .. n - 1, j \in S
        PROVE  j + 1 \in S
    <2>1. CASE j + 1 = a
      <3>1. P(j + 1) = xor(P(j), f[a]) /\ P(j) = 0
        BY <1>2, <1>4, <2>1
      <3>2. xor(0, f[a]) = f[a]
        BY XorFacts
      <3> QED BY <2>1, <3>1, <3>2
    <2>2. CASE j + 1 # a
      BY <1>2, <1>4, <2>2
    <2> QED BY <2>1, <2>2
  <1> HIDE DEF S
  <1>5. n \in S
    BY <1>3, <1>4, UpTo
  <1> QED BY <1>1, <1>5 DEF S

(* Cardinalities of sets of places. *)
LEMMA Members ==
  ASSUME NEW n \in Nat, NEW T \in SUBSET (1 .. n)
  PROVE  IsFiniteSet(T) /\ Cardinality(T) \in Nat /\ (Cardinality(T) = 0 <=> T = {})
  <1>1. IsFiniteSet(1 .. n)
    BY FS_Interval
  <1>2. IsFiniteSet(T)
    BY <1>1, FS_Subset
  <1> QED BY <1>2, FS_CardinalityType, FS_EmptySet

LEMMA OneMember ==
  ASSUME NEW n \in Nat, NEW T \in SUBSET (1 .. n), Cardinality(T) = 1
  PROVE  \E a \in 1 .. n : T = {a}
  BY Members, FS_Singleton

LEMMA WithoutMember ==
  ASSUME NEW n \in Nat, NEW T \in SUBSET (1 .. n), NEW k \in T
  PROVE  Cardinality(T \ {k}) = Cardinality(T) - 1
  BY Members, FS_RemoveElement

Ones(T, g) == \A i \in T : g[i] = 1

LEMMA AtZeroOfOneSingle ==
  ASSUME NEW X, NEW n, Points(X, n), NEW a \in 1 .. n, NEW g, g[a] = 1
  PROVE  AtZero(X, n, {a}, g) = 1
  <1> DEFINE F == Terms(X, n, {a}, g)
  <1>0. n \in Nat /\ {a} \ {a} = {} /\ 1 \in Byte /\ 1 \in NonZero
    BY DEF Points, Byte, NonZero
  <1>1. Weight(X, n, {a}, a) = gfDiv(1, 1)
    BY <1>0, ProductOfNone DEF Weight
  <1>2. gfDiv(1, 1) \in Byte /\ gfMul(gfDiv(1, 1), 1) = 1
    BY <1>0, DivFacts
  <1>3. gfDiv(1, 1) = 1
    BY <1>2, MulByOne
  <1>4. gfMul(1, 1) = 1
    BY <1>0, MulByOne
  <1>5. F[a] = gfMul(g[a], Weight(X, n, {a}, a))
    BY DEF Terms
  <1> HIDE DEF F
  <1>6. F[a] = 1
    BY <1>1, <1>3, <1>4, <1>5
  <1>7. Sum(F, {a}, n) = 1
    BY <1>0, <1>6, SumOfOneTerm
  <1> QED BY <1>7 DEF AtZero, F

(* If two points can each be left out, both (x - a)g and (x - b)g are      *)
(* interpolated without them, and their difference is a - b times g.       *)
LEMMA AtZeroOfOneStep ==
  ASSUME NEW X, NEW n, Points(X, n), NEW T \in SUBSET (1 .. n), NEW g, Ones(T, g),
         NEW a \in T, NEW b \in T, a # b,
         AtZero(X, n, T \ {a}, g) = 1, AtZero(X, n, T \ {b}, g) = 1
  PROVE  AtZero(X, n, T, g) = 1
  <1> DEFINE d == xor(X[b], X[a])
             f1 == [i \in 1 .. n |-> gfMul(xor(X[i], X[a]), g[i])]
             f2 == [i \in 1 .. n |-> gfMul(xor(X[i], X[b]), g[i])]
             h == [i \in 1 .. n |-> gfMul(d, g[i])]
  <1>1. \A i \in T : /\ f1[i] = gfMul(xor(X[i], X[a]), g[i]) /\ f2[i] = gfMul(xor(X[i], X[b]), g[i])
                     /\ h[i] = gfMul(d, g[i])
    OBVIOUS
  <1>2. Bytes(T, g) /\ 1 \in Byte
    BY DEF Bytes, Ones, Byte
  <1>3. X[a] \in Byte /\ X[b] \in Byte /\ X[a] # X[b] /\ \A i \in T : X[i] \in Byte
    BY NonZeroByte DEF Points
  <1>4. d \in Byte /\ d \in NonZero
    BY <1>3, XorFacts, XorIsZero, NonZeroByte
  <1> HIDE DEF f1, f2, h
  <1>17. Vanishing(X, T, a, g, f1) /\ Vanishing(X, T, b, g, f2) /\ Scaled(T, d, g, h)
    BY <1>1, <1>2 DEF Vanishing, Scaled, Bytes
  <1>5. AtZero(X, n, T, f1) = gfMul(X[a], AtZero(X, n, T \ {a}, g))
    BY <1>17, AtZeroWithout
  <1>6. AtZero(X, n, T, f2) = gfMul(X[b], AtZero(X, n, T \ {b}, g))
    BY <1>17, AtZeroWithout
  <1>7. AtZero(X, n, T, h) = gfMul(d, AtZero(X, n, T, g))
    BY <1>4, <1>17, AtZeroScales
  <1>8. \A i \in T : /\ f1[i] = xor(X[i], X[a]) /\ f2[i] = xor(X[i], X[b]) /\ h[i] = d
                     /\ f1[i] \in Byte /\ f2[i] \in Byte
    <2> TAKE i \in T
    <2>1. g[i] = 1 /\ xor(X[i], X[a]) \in Byte /\ xor(X[i], X[b]) \in Byte
      BY <1>3, XorFacts DEF Ones
    <2> QED BY <1>1, <1>4, <2>1, MulByOne
  <1>9. \A i \in T : h[i] = xor(f1[i], f2[i])
    <2> TAKE i \in T
    <2> DEFINE x == X[i]
    <2>1. x \in Byte
      BY <1>3
    <2>2. xor(xor(x, X[a]), xor(x, X[b])) = xor(xor(x, x), xor(X[a], X[b]))
      BY <1>3, <2>1, XorSwap
    <2>3. xor(x, x) = 0 /\ xor(X[a], X[b]) = d /\ xor(0, d) = d
      BY <1>3, <1>4, <2>1, XorFacts
    <2> QED BY <1>8, <2>2, <2>3
  <1>10. AtZero(X, n, T, h) = xor(AtZero(X, n, T, f1), AtZero(X, n, T, f2))
    <2>1. AddUp(T, f1, f2, h)
      BY <1>8, <1>9 DEF AddUp
    <2> QED BY <2>1, AtZeroAdds
  <1>11. gfMul(X[a], 1) = X[a] /\ gfMul(X[b], 1) = X[b] /\ gfMul(1, d) = d
    BY <1>3, <1>4, MulByOne
  <1>12. xor(X[a], X[b]) = d
    BY <1>3, XorFacts
  <1> DEFINE I == AtZero(X, n, T, g)
  <1>13. I \in Byte
    BY <1>2, AtZeroIsAByte
  <1>14. gfMul(d, I) = d
    BY <1>5, <1>6, <1>7, <1>10, <1>11, <1>12
  <1> HIDE DEF I, d
  <1>15. gfMul(d, I) = gfMul(I, d)
    BY <1>4, <1>13, MulFacts
  <1>16. I = 1
    BY <1>2, <1>4, <1>11, <1>13, <1>14, <1>15, MulCancels, ZenonT(40)
  <1> QED BY <1>16 DEF I

(* The constant 1 is 1 at 0, whatever the points. *)
LEMMA AtZeroOfOne ==
  ASSUME NEW X, NEW n, Points(X, n), NEW T \in SUBSET (1 .. n), T # {},
         NEW g, Ones(T, g)
  PROVE  AtZero(X, n, T, g) = 1
  <1> DEFINE Q(c) == \A U \in SUBSET (1 .. n) :
                       Cardinality(U) = c + 1 /\ Ones(U, g) => AtZero(X, n, U, g) = 1
             S == {c \in Nat : Q(c)}
  <1>0. n \in Nat
    BY DEF Points
  <1>1. 0 \in S
    <2> SUFFICES ASSUME NEW U \in SUBSET (1 .. n), Cardinality(U) = 1, Ones(U, g)
                 PROVE  AtZero(X, n, U, g) = 1
      OBVIOUS
    <2>1. PICK a \in 1 .. n : U = {a}
      BY <1>0, OneMember
    <2>2. g[a] = 1
      BY <2>1 DEF Ones
    <2> QED BY <2>1, <2>2, AtZeroOfOneSingle
  <1>2. ASSUME NEW c \in Nat, c \in S
        PROVE  c + 1 \in S
    <2> SUFFICES ASSUME NEW U \in SUBSET (1 .. n), Cardinality(U) = (c + 1) + 1, Ones(U, g)
                 PROVE  AtZero(X, n, U, g) = 1
      OBVIOUS
    <2>a. U # {}
      BY <1>0, FS_EmptySet
    <2>1. PICK a \in U : TRUE
      BY <2>a
    <2>2. Cardinality(U \ {a}) = c + 1
      <3>1. Cardinality(U \ {a}) = Cardinality(U) - 1
        BY <1>0, WithoutMember
      <3> QED BY <3>1
    <2>b. U \ {a} # {}
      <3>1. Cardinality({}) = 0
        BY FS_EmptySet
      <3>2. c + 1 # 0
        OBVIOUS
      <3> QED BY <2>2, <3>1, <3>2, Zenon
    <2>3. PICK b \in U \ {a} : TRUE
      BY <2>b
    <2>4. Cardinality(U \ {b}) = c + 1
      <3>1. Cardinality(U \ {b}) = Cardinality(U) - 1
        BY <1>0, WithoutMember
      <3> QED BY <3>1
    <2>5. Ones(U \ {a}, g) /\ Ones(U \ {b}, g)
      BY DEF Ones
    <2>6. AtZero(X, n, U \ {a}, g) = 1
      BY <1>2, <2>2, <2>5
    <2>7. AtZero(X, n, U \ {b}, g) = 1
      BY <1>2, <2>4, <2>5
    <2> QED BY <2>1, <2>3, <2>6, <2>7, AtZeroOfOneStep
  <1> HIDE DEF Q
  <1>3. Nat \subseteq S
    <2> HIDE DEF S
    <2> QED BY <1>1, <1>2, Induction
  <1>a. Cardinality(T) \in Nat /\ Cardinality(T) # 0
    BY <1>0, Members
  <1>4. Cardinality(T) - 1 \in Nat
    BY <1>a
  <1>5. Q(Cardinality(T) - 1)
    BY <1>3, <1>4
  <1>6. (Cardinality(T) - 1) + 1 = Cardinality(T)
    BY <1>a
  <1> QED BY <1>5, <1>6 DEF Q

(* So is every constant. *)
LEMMA AtZeroOfConstant ==
  ASSUME NEW X, NEW n, Points(X, n), NEW T \in SUBSET (1 .. n), T # {},
         NEW c \in Byte, NEW g, \A i \in T : g[i] = c
  PROVE  AtZero(X, n, T, g) = c
  <1> DEFINE one == [i \in 1 .. n |-> 1]
  <1>1. Ones(T, one) /\ 1 \in Byte
    BY DEF Ones, Byte
  <1>2. gfMul(c, 1) = c
    BY MulByOne
  <1>3. \A i \in T : one[i] = 1
    BY <1>1 DEF Ones
  <1> HIDE DEF one
  <1>4. Scaled(T, c, one, g)
    BY <1>1, <1>2, <1>3 DEF Scaled
  <1>5. AtZero(X, n, T, one) = 1
    BY <1>1, AtZeroOfOne
  <1>6. AtZero(X, n, T, g) = gfMul(c, AtZero(X, n, T, one))
    BY <1>4, AtZeroScales
  <1> QED BY <1>2, <1>5, <1>6

(* gx = (x - y)g + yg. *)
LEMMA ProductsDiffer ==
  ASSUME NEW x \in Byte, NEW y \in Byte, NEW g \in Byte
  PROVE  gfMul(g, x) = xor(gfMul(xor(x, y), g), gfMul(y, g))
  <1>1. xor(x, y) \in Byte
    BY XorFacts
  <1>2. gfMul(xor(xor(x, y), y), g) = xor(gfMul(xor(x, y), g), gfMul(y, g))
    BY <1>1, DistributesRight
  <1>3. xor(xor(x, y), y) = xor(x, xor(y, y)) /\ xor(y, y) = 0 /\ xor(x, 0) = x
    BY XorFacts
  <1>4. gfMul(x, g) = gfMul(g, x)
    BY MulFacts
  <1> QED BY <1>2, <1>3, <1>4

(* One round of Horner's rule: h(x) = g(x)x + c is c at 0 when g is the    *)
(* same byte at 0 with and without the point b.                            *)
LEMMA HornerStep ==
  ASSUME NEW X, NEW n, Points(X, n), NEW T \in SUBSET (1 .. n), NEW b \in T,
         NEW c \in Byte, NEW a \in Byte, NEW g, NEW h, Bytes(T, g),
         \A i \in T : h[i] = xor(gfMul(g[i], X[i]), c),
         AtZero(X, n, T, g) = a, AtZero(X, n, T \ {b}, g) = a
  PROVE  AtZero(X, n, T, h) = c
  <1> DEFINE e == [i \in 1 .. n |-> gfMul(xor(X[i], X[b]), g[i])]
             s == [i \in 1 .. n |-> gfMul(X[b], g[i])]
             m == [i \in 1 .. n |-> gfMul(g[i], X[i])]
             q == [i \in 1 .. n |-> c]
  <1>1. \A i \in T : /\ e[i] = gfMul(xor(X[i], X[b]), g[i]) /\ s[i] = gfMul(X[b], g[i])
                     /\ m[i] = gfMul(g[i], X[i]) /\ q[i] = c
    OBVIOUS
  <1>2. X[b] \in Byte /\ \A i \in T : X[i] \in Byte /\ g[i] \in Byte
    BY NonZeroByte DEF Points, Bytes
  <1> HIDE DEF e, s, m, q
  <1>3. \A i \in T : e[i] \in Byte /\ s[i] \in Byte /\ m[i] \in Byte /\ m[i] = xor(e[i], s[i])
    <2> TAKE i \in T
    <2>1. X[i] \in Byte /\ X[b] \in Byte /\ g[i] \in Byte
      BY <1>2
    <2>2. xor(X[i], X[b]) \in Byte
      BY <2>1, XorFacts
    <2>3. /\ gfMul(xor(X[i], X[b]), g[i]) \in Byte /\ gfMul(X[b], g[i]) \in Byte
          /\ gfMul(g[i], X[i]) \in Byte
      BY <2>1, <2>2, MulFacts
    <2>4. gfMul(g[i], X[i]) = xor(gfMul(xor(X[i], X[b]), g[i]), gfMul(X[b], g[i]))
      BY <2>1, ProductsDiffer
    <2> QED BY <1>1, <2>3, <2>4
  <1>4. Vanishing(X, T, b, g, e)
    BY <1>1, <1>2 DEF Vanishing
  <1>5. Scaled(T, X[b], g, s)
    BY <1>1, <1>2 DEF Scaled
  <1>6. AddUp(T, e, s, m)
    BY <1>3 DEF AddUp
  <1>7. AddUp(T, m, q, h)
    BY <1>1, <1>3 DEF AddUp
  <1>8. AtZero(X, n, T, e) = gfMul(X[b], a)
    BY <1>4, AtZeroWithout
  <1>9. AtZero(X, n, T, s) = gfMul(X[b], a)
    BY <1>2, <1>5, AtZeroScales
  <1>10. AtZero(X, n, T, m) = 0
    <2>1. AtZero(X, n, T, m) = xor(AtZero(X, n, T, e), AtZero(X, n, T, s))
      BY <1>6, AtZeroAdds
    <2>2. gfMul(X[b], a) \in Byte
      BY <1>2, MulFacts
    <2> QED BY <1>8, <1>9, <2>1, <2>2, XorFacts
  <1>11. AtZero(X, n, T, q) = c
    BY <1>1, AtZeroOfConstant
  <1>12. AtZero(X, n, T, h) = xor(AtZero(X, n, T, m), AtZero(X, n, T, q))
    BY <1>7, AtZeroAdds
  <1> QED BY <1>10, <1>11, <1>12, XorFacts

Values(coeffs, X, n, k) == [i \in 1 .. n |-> Horner(coeffs, X[i], k)]

(* More points than rounds give the last coefficient back.                 *)
LEMMA HornerAtZero ==
  ASSUME NEW X, NEW n, Points(X, n), NEW coeffs \in Seq(Byte), coeffs # <<>>
  PROVE  \A k \in 0 .. Len(coeffs) - 1 : \A T \in SUBSET (1 .. n) :
           Cardinality(T) > k => AtZero(X, n, T, Values(coeffs, X, n, k)) = coeffs[Len(coeffs) - k]
  <1> DEFINE z == Len(coeffs)
             V(k) == Values(coeffs, X, n, k)
             Q(k) == \A T \in SUBSET (1 .. n) :
                       Cardinality(T) > k => AtZero(X, n, T, V(k)) = coeffs[z - k]
             S == {k \in Nat : k <= z - 1 => Q(k)}
  <1>0. n \in Nat /\ z \in Nat \ {0} /\ \A i \in 1 .. z : coeffs[i] \in Byte
    BY DEF Points
  <1>1. \A k \in 0 .. z - 1 : \A i \in 1 .. n : V(k)[i] = Horner(coeffs, X[i], k)
    BY DEF Values
  <1>2. \A i \in 1 .. n : X[i] \in Byte
    BY NonZeroByte DEF Points
  <1>3. \A k \in 0 .. z - 1 : \A i \in 1 .. n : V(k)[i] \in Byte
    BY <1>1, <1>2, HornerIsAByte
  <1>4. \A i \in 1 .. n : V(0)[i] = coeffs[z]
    <2>1. 0 \in 0 .. z - 1
      BY <1>0
    <2> QED BY <1>0, <1>1, <2>1, HornerRounds
  <1>5. \A k \in 0 .. z - 2 : \A i \in 1 .. n :
          V(k + 1)[i] = xor(gfMul(V(k)[i], X[i]), coeffs[z - (k + 1)])
    <2> TAKE k \in 0 .. z - 2
    <2> TAKE i \in 1 .. n
    <2>1. k + 1 \in 1 .. z - 1 /\ k + 1 \in 0 .. z - 1 /\ k \in 0 .. z - 1 /\ (k + 1) - 1 = k
      BY <1>0
    <2>2. Horner(coeffs, X[i], k + 1)
            = xor(gfMul(Horner(coeffs, X[i], (k + 1) - 1), X[i]), coeffs[z - (k + 1)])
      BY <1>0, <2>1, HornerRounds
    <2> QED BY <1>1, <2>1, <2>2
  <1> HIDE DEF V, z
  <1>6. 0 \in S
    <2> SUFFICES ASSUME NEW T \in SUBSET (1 .. n), Cardinality(T) > 0
                 PROVE  AtZero(X, n, T, V(0)) = coeffs[z]
      BY <1>0
    <2>1. T # {}
      <3>1. Cardinality(T) # 0
        OBVIOUS
      <3> QED BY <1>0, <3>1, Members
    <2>2. coeffs[z] \in Byte /\ \A i \in T : V(0)[i] = coeffs[z]
      BY <1>0, <1>4
    <2> QED BY <2>1, <2>2, AtZeroOfConstant
  <1>7. ASSUME NEW k \in Nat, k \in S
        PROVE  k + 1 \in S
    <2> SUFFICES ASSUME k + 1 <= z - 1, NEW T \in SUBSET (1 .. n), Cardinality(T) > k + 1
                 PROVE  AtZero(X, n, T, V(k + 1)) = coeffs[z - (k + 1)]
      BY <1>0
    <2>0. k \in 0 .. z - 2 /\ k \in 0 .. z - 1 /\ z - k \in 1 .. z /\ z - (k + 1) \in 1 .. z
      BY <1>0
    <2>1. Cardinality(T) \in Nat
      BY <1>0, Members
    <2>2. T # {}
      <3>1. Cardinality(T) # 0
        BY <2>1
      <3> QED BY <1>0, <3>1, Members
    <2>3. PICK b \in T : TRUE
      BY <2>2
    <2>4. Cardinality(T \ {b}) = Cardinality(T) - 1
      BY <1>0, WithoutMember
    <2>5. Q(k)
      BY <1>0, <1>7, <2>0
    <2> DEFINE U == T \ {b}
               a == coeffs[z - k]
               c == coeffs[z - (k + 1)]
    <2>6. AtZero(X, n, T, V(k)) = a
      BY <2>1, <2>5
    <2>7. AtZero(X, n, T \ {b}, V(k)) = a
      <3>1. U \in SUBSET (1 .. n) /\ Cardinality(U) > k
        BY <2>1, <2>4
      <3> HIDE DEF U
      <3>2. AtZero(X, n, U, V(k)) = a
        BY <2>5, <3>1
      <3> QED BY <3>2 DEF U
    <2>8. Bytes(T, V(k))
      BY <1>3, <2>0 DEF Bytes
    <2>9. \A i \in T : V(k + 1)[i] = xor(gfMul(V(k)[i], X[i]), c)
      BY <1>5, <2>0
    <2>10. a \in Byte /\ c \in Byte
      BY <1>0, <2>0
    <2> HIDE DEF a, c
    <2>11. AtZero(X, n, T, V(k + 1)) = c
      BY <2>6, <2>7, <2>8, <2>9, <2>10, HornerStep
    <2> QED BY <2>11 DEF c
  <1> HIDE DEF Q
  <1>8. Nat \subseteq S
    <2> HIDE DEF S
    <2> QED BY <1>6, <1>7, Induction
  <1>9. \A k \in 0 .. z - 1 : Q(k)
    BY <1>0, <1>8
  <1> QED BY <1>9 DEF Q, V, z

(***************************************************************************)
(* Shares.                                                                 *)
(***************************************************************************)
LEMMA Listed ==
  ASSUME NEW S, NEW m \in Nat, NEW f \in [1 .. m -> S]
  PROVE  f \in Seq(S) /\ Len(f) = m
  OBVIOUS

(* A share is a coordinate and the list of its values. *)
LEMMA Prepended ==
  ASSUME NEW S, NEW x \in S, NEW m \in Nat, NEW f \in [1 .. m -> S]
  PROVE  /\ <<x>> \o f \in Seq(S) /\ Len(<<x>> \o f) = m + 1 /\ (<<x>> \o f)[1] = x
         /\ \A k \in 1 .. m : (<<x>> \o f)[k + 1] = f[k]
  <1>1. f \in Seq(S) /\ Len(f) = m
    BY Listed
  <1>2. <<x>> \in Seq(S) /\ Len(<<x>>) = 1 /\ <<x>>[1] = x
    OBVIOUS
  <1> DEFINE e == <<x>>
  <1> HIDE DEF e
  <1>3. e \in Seq(S) /\ Len(e) = 1 /\ e[1] = x
    BY <1>2 DEF e
  <1>4. /\ e \o f \in Seq(S) /\ Len(e \o f) = 1 + m
        /\ \A i \in 1 .. 1 + m : (e \o f)[i] = IF i <= 1 THEN e[i] ELSE f[i - 1]
    BY <1>1, <1>3, ConcatProperties, SMTT(30)
  <1> DEFINE c == e \o f
  <1> HIDE DEF c
  <1>5. /\ c \in Seq(S) /\ Len(c) = m + 1
        /\ \A i \in 1 .. m + 1 : c[i] = IF i <= 1 THEN e[i] ELSE f[i - 1]
    BY <1>4 DEF c
  <1>6. c[1] = x
    BY <1>3, <1>5
  <1>7. ASSUME NEW k \in 1 .. m
        PROVE  c[k + 1] = f[k]
    <2>1. k + 1 \in 1 .. m + 1 /\ ~(k + 1 <= 1) /\ (k + 1) - 1 = k
      OBVIOUS
    <2> QED BY <1>5, <2>1
  <1> QED BY <1>5, <1>6, <1>7 DEF c, e

Drawn(value, t, rest) == /\ value \in Seq(Byte) /\ value # <<>> /\ t \in 2 .. 255
                         /\ rest \in [DOMAIN value -> [1 .. t - 1 -> Byte]]
Poly(value, rest, k) == <<value[k]>> \o rest[k]

(* The polynomial of a byte: the byte, then t - 1 drawn coefficients. *)
LEMMA Polys ==
  ASSUME NEW value, NEW t, NEW rest, Drawn(value, t, rest), NEW k \in DOMAIN value
  PROVE  /\ Poly(value, rest, k) \in Seq(Byte) /\ Len(Poly(value, rest, k)) = t
         /\ Poly(value, rest, k)[1] = value[k] /\ Poly(value, rest, k) # <<>>
  <1> DEFINE f == rest[k]
             x == value[k]
  <1>1. x \in Byte /\ t - 1 \in Nat /\ f \in [1 .. t - 1 -> Byte] /\ (t - 1) + 1 = t /\ t # 0
    BY DEF Drawn
  <1> HIDE DEF f, x
  <1>2. <<x>> \o f \in Seq(Byte) /\ Len(<<x>> \o f) = t /\ (<<x>> \o f)[1] = x
    BY <1>1, Prepended
  <1>3. <<x>> \o f # <<>>
    BY <1>1, <1>2
  <1> QED BY <1>2, <1>3 DEF Poly, f, x

(* Share i of a split is i and the values of the polynomials at i. *)
IsShare(s, value, rest, i) ==
  /\ s \in Seq(Byte) /\ Len(s) = Len(value) + 1 /\ s[1] = i
  /\ \A k \in DOMAIN value : s[k + 1] = evalPoly(Poly(value, rest, k), i)

(* What Split deals. *)
LEMMA Shares ==
  ASSUME NEW value, NEW t, NEW rest, NEW n \in 1 .. 255, NEW i \in 1 .. n,
         Drawn(value, t, rest)
  PROVE  IsShare(Split(value, n, rest)[i], value, rest, i)
  <1> DEFINE f == [k \in DOMAIN value |-> evalPoly(Poly(value, rest, k), i)]
             m == Len(value)
  <1>1. i \in Byte /\ m \in Nat /\ DOMAIN value = 1 .. m
    BY DEF Drawn, Byte
  <1>2. \A k \in DOMAIN value : evalPoly(Poly(value, rest, k), i) \in Byte
    BY <1>1, Polys, HornerIsAByte
  <1>3. f \in [1 .. m -> Byte]
    BY <1>1, <1>2
  <1>4. Split(value, n, rest)[i] = <<i>> \o f
    BY DEF Split, Poly
  <1>5. \A k \in DOMAIN value : f[k] = evalPoly(Poly(value, rest, k), i)
    OBVIOUS
  <1> HIDE DEF f, m
  <1>6. /\ <<i>> \o f \in Seq(Byte) /\ Len(<<i>> \o f) = m + 1 /\ (<<i>> \o f)[1] = i
        /\ \A k \in 1 .. m : (<<i>> \o f)[k + 1] = f[k]
    BY <1>1, <1>3, Prepended
  <1> QED BY <1>1, <1>4, <1>5, <1>6 DEF m, IsShare

(***************************************************************************)
(* Combining.                                                              *)
(***************************************************************************)
Coordinates(shares) == [i \in DOMAIN shares |-> shares[i][1]]

(* What Combine does not refuse has nonzero, distinct coordinates. *)
LEMMA CoordinatesArePoints ==
  ASSUME NEW shares \in Seq(Seq(Byte)), ~CombineRefuses(shares)
  PROVE  /\ Points(Coordinates(shares), Len(shares))
         /\ DOMAIN Coordinates(shares) = 1 .. Len(shares)
         /\ Len(Coordinates(shares)) = Len(shares)
         /\ Len(shares[1]) \in Nat /\ Len(shares[1]) >= 2 /\ Len(shares) >= 2
         /\ \A i \in 1 .. Len(shares) : Len(shares[i]) = Len(shares[1])
  <1> DEFINE n == Len(shares)
             X == Coordinates(shares)
  <1>1. n \in Nat /\ DOMAIN shares = 1 .. n /\ \A i \in 1 .. n : shares[i] \in Seq(Byte)
    OBVIOUS
  <1>2. n >= 2 /\ Len(shares[1]) >= 2
    BY <1>1 DEF CombineRefuses
  <1>3. \A i \in 1 .. n : Len(shares[i]) = Len(shares[1]) /\ shares[i][1] # 0
    BY <1>1 DEF CombineRefuses
  <1>4. \A i, j \in 1 .. n : i # j => shares[i][1] # shares[j][1]
    BY <1>1 DEF CombineRefuses
  <1>a. Len(shares[1]) \in Nat
    <2>1. shares[1] \in Seq(Byte)
      BY <1>1, <1>2
    <2> QED BY <2>1
  <1>b. ASSUME NEW i \in 1 .. n
        PROVE  shares[i][1] \in Byte
    <2> DEFINE b == shares[i]
    <2>1. b \in Seq(Byte) /\ Len(b) >= 2
      BY <1>1, <1>2, <1>3
    <2> HIDE DEF b
    <2>2. b[1] \in Byte
      BY <2>1
    <2> QED BY <2>2 DEF b
  <1>5. Len(shares[1]) \in Nat /\ \A i \in 1 .. n : shares[i][1] \in Byte
    BY <1>a, <1>b
  <1>6. \A i \in 1 .. n : X[i] = shares[i][1]
    BY <1>1 DEF Coordinates
  <1>7. X \in [1 .. n -> Byte]
    BY <1>1, <1>5 DEF Coordinates
  <1> HIDE DEF X
  <1>8. Points(X, n)
    BY <1>1, <1>3, <1>4, <1>5, <1>6, NonZeroByte DEF Points
  <1>9. DOMAIN X = 1 .. n /\ Len(X) = n
    BY <1>1, <1>7, Listed
  <1> QED BY <1>2, <1>3, <1>5, <1>8, <1>9 DEF X

(* Combine interpolates at 0 over all the points. *)
LEMMA InterpolationIsAtZero ==
  ASSUME NEW n, NEW X, Points(X, n), DOMAIN X = 1 .. n, Len(X) = n
  PROVE  /\ \A i \in 1 .. n : Den(X, i) \in NonZero
         /\ \A ys : Interpolate(X, ys) = AtZero(X, n, 1 .. n, ys)
  <1>1. \A i \in 1 .. n : /\ Den(X, i) = Product(Diff(X, n, i), (1 .. n) \ {i}, n)
                          /\ Num(X, i) = Product(X, (1 .. n) \ {i}, n)
    BY DEF Den, Num, Diff
  <1>2. \A i \in 1 .. n : Den(X, i) \in NonZero
    <2> DEFINE T == 1 .. n
    <2>1. T \in SUBSET (1 .. n)
      OBVIOUS
    <2> HIDE DEF T
    <2>2. \A i \in T : Product(Diff(X, n, i), T \ {i}, n) \in NonZero
      BY <2>1, Weights
    <2> QED BY <1>1, <2>2 DEF T
  <1>3. \A i \in 1 .. n : gfDiv(Num(X, i), Den(X, i)) = Weight(X, n, 1 .. n, i)
    BY <1>1 DEF Weight
  <1>4. ASSUME NEW ys
        PROVE  Interpolate(X, ys) = AtZero(X, n, 1 .. n, ys)
    BY <1>3 DEF Interpolate, AtZero, Terms
  <1> QED BY <1>2, <1>4

(* Combine on any bytes at all: refused or interpolated. *)
LEMMA CombineNeverPanics ==
  ASSUME NEW shares \in Seq(Seq(Byte))
  PROVE  CallCombine(shares).kind # "panic"
  <1>1. CASE CombineRefuses(shares)
    BY <1>1 DEF CallCombine, Outcome
  <1>2. CASE ~CombineRefuses(shares)
    <2> DEFINE X == Coordinates(shares)
               n == Len(shares)
    <2>1. Points(X, n) /\ DOMAIN X = 1 .. n /\ Len(X) = n
      BY <1>2, CoordinatesArePoints
    <2> HIDE DEF X, n
    <2>2. \A i \in 1 .. n : Den(X, i) \in NonZero
      BY <2>1, InterpolationIsAtZero
    <2>3. \A i \in DOMAIN X : ~Panics(Num(X, i), Den(X, i))
      BY <2>1, <2>2 DEF Panics, NonZero
    <2>4. CallCombine(shares) = Outcome("value", Combine(shares))
      BY <1>2, <2>3 DEF CallCombine, Coordinates, X
    <2> QED BY <2>4 DEF Outcome
  <1> QED BY <1>1, <1>2

(* What Combine does not refuse it interpolates. *)
LEMMA CombinesTo ==
  ASSUME NEW shares \in Seq(Seq(Byte)), ~CombineRefuses(shares)
  PROVE  /\ CallCombine(shares) = Outcome("value", Combine(shares))
         /\ Combine(shares) =
              [k \in 1 .. Len(shares[1]) - 1 |->
                 AtZero(Coordinates(shares), Len(shares), 1 .. Len(shares),
                        [i \in DOMAIN shares |-> shares[i][k + 1]])]
  <1> DEFINE X == Coordinates(shares)
             n == Len(shares)
  <1>1. Points(X, n) /\ DOMAIN X = 1 .. n /\ Len(X) = n
    BY CoordinatesArePoints
  <1>2. CallCombine(shares) = IF \E i \in DOMAIN X : Panics(Num(X, i), Den(X, i))
                              THEN Outcome("panic", <<>>) ELSE Outcome("value", Combine(shares))
    BY DEF CallCombine, Coordinates
  <1>3. Combine(shares) = [k \in 1 .. Len(shares[1]) - 1 |->
                             Interpolate(X, [i \in DOMAIN shares |-> shares[i][k + 1]])]
    BY DEF Combine, Coordinates
  <1> HIDE DEF X, n
  <1>4. \A i \in 1 .. n : Den(X, i) \in NonZero
    BY <1>1, InterpolationIsAtZero
  <1>5. \A ys : Interpolate(X, ys) = AtZero(X, n, 1 .. n, ys)
    BY <1>1, InterpolationIsAtZero
  <1>6. \A i \in DOMAIN X : ~Panics(Num(X, i), Den(X, i))
    BY <1>1, <1>4 DEF Panics, NonZero
  <1> QED BY <1>2, <1>3, <1>5, <1>6 DEF X, n

(* Combine returns bytes or an error. *)
LEMMA CombineType ==
  ASSUME NEW shares \in Seq(Seq(Byte))
  PROVE  /\ CallCombine(shares).kind \in {"error", "value"}
         /\ CallCombine(shares).secret \in Seq(Byte)
  <1>1. CASE CombineRefuses(shares)
    BY <1>1 DEF CallCombine, Outcome
  <1>2. CASE ~CombineRefuses(shares)
    <2> DEFINE X == Coordinates(shares)
               n == Len(shares)
               m == Len(shares[1])
               Y(k) == [i \in DOMAIN shares |-> shares[i][k + 1]]
               T == 1 .. n
    <2>1. /\ CallCombine(shares) = Outcome("value", Combine(shares))
          /\ Combine(shares) = [k \in 1 .. m - 1 |-> AtZero(X, n, T, Y(k))]
      BY <1>2, CombinesTo
    <2>2. /\ Points(X, n) /\ m \in Nat /\ m >= 2 /\ n >= 2 /\ T \in SUBSET (1 .. n)
          /\ DOMAIN shares = T /\ \A i \in T : Len(shares[i]) = m
      BY <1>2, CoordinatesArePoints
    <2>3. \A i \in T : shares[i] \in Seq(Byte)
      BY <2>2
    <2> HIDE DEF X, n, m, T
    <2>4. ASSUME NEW k \in 1 .. m - 1
          PROVE  Bytes(T, Y(k))
      <3> SUFFICES ASSUME NEW i \in T
                   PROVE  shares[i][k + 1] \in Byte
        BY <2>2 DEF Bytes
      <3> DEFINE s == shares[i]
      <3>1. s \in Seq(Byte) /\ Len(s) = m /\ k + 1 \in 1 .. m
        BY <2>2, <2>3
      <3> HIDE DEF s
      <3>2. s[k + 1] \in Byte
        BY <3>1
      <3> QED BY <3>2 DEF s
    <2> HIDE DEF Y
    <2>5. \A k \in 1 .. m - 1 : AtZero(X, n, T, Y(k)) \in Byte
      BY <2>2, <2>4, AtZeroIsAByte
    <2>6. Combine(shares) \in [1 .. m - 1 -> Byte] /\ m - 1 \in Nat
      BY <2>1, <2>2, <2>5
    <2>7. Combine(shares) \in Seq(Byte)
      BY <2>6, Listed
    <2> QED BY <2>1, <2>7 DEF Outcome
  <1> QED BY <1>1, <1>2

LEMMA IntervalSize ==
  ASSUME NEW n \in Nat
  PROVE  IsFiniteSet(1 .. n) /\ Cardinality(1 .. n) = n
  BY FS_Interval

LEMMA ListIsFunction ==
  ASSUME NEW S, NEW s \in Seq(S)
  PROVE  /\ Len(s) \in Nat /\ DOMAIN s = 1 .. Len(s)
         /\ \A T : (\A i \in 1 .. Len(s) : s[i] \in T) => s \in [1 .. Len(s) -> T]
  <1>1. Len(s) \in Nat /\ DOMAIN s = 1 .. Len(s) /\ s \in [1 .. Len(s) -> S]
    OBVIOUS
  <1> QED BY <1>1

(* As many different shares as shares: no two are equal. *)
LEMMA PairwiseDistinct ==
  ASSUME NEW S, NEW shares \in Seq(S),
         Cardinality({shares[i] : i \in DOMAIN shares}) = Len(shares)
  PROVE  \A i, j \in DOMAIN shares : shares[i] = shares[j] => i = j
  <1> DEFINE T == {shares[i] : i \in DOMAIN shares}
  <1>1. Len(shares) \in Nat /\ DOMAIN shares = 1 .. Len(shares)
    BY ListIsFunction
  <1>2. IsFiniteSet(DOMAIN shares) /\ Cardinality(DOMAIN shares) = Len(shares)
    BY <1>1, IntervalSize, Zenon
  <1>3. \A i \in DOMAIN shares : shares[i] \in T
    OBVIOUS
  <1>4. \A y \in T : \E i \in DOMAIN shares : shares[i] = y
    OBVIOUS
  <1>5. Cardinality(T) = Len(shares)
    BY Zenon
  <1> HIDE DEF T
  <1>6. shares \in [DOMAIN shares -> T]
    BY <1>1, <1>3, ListIsFunction, Zenon
  <1>7. shares \in Surjection(DOMAIN shares, T)
    BY <1>4, <1>6, Zenon DEF Surjection
  <1>8. shares \in Injection(DOMAIN shares, T)
    BY <1>2, <1>5, <1>7, FS_SurjSameCardinalityImpliesInj, Zenon
  <1> QED BY <1>8 DEF Injection, IsInjective

AreDealt(shares, value, n, rest) ==
  \A i \in 1 .. Len(shares) : \E p \in 1 .. n : shares[i] = Split(value, n, rest)[p]
ArePairwiseDistinct(shares) ==
  \A i, j \in 1 .. Len(shares) : shares[i] = shares[j] => i = j

(* t or more different shares of a split give the secret back, byte by     *)
(* byte, from HornerAtZero after t - 1 rounds.                             *)
LEMMA Restores ==
  ASSUME NEW value, NEW t, NEW rest, NEW n \in t .. 255,
         NEW shares \in Seq(Seq(Byte)), Drawn(value, t, rest),
         AreDealt(shares, value, n, rest), ArePairwiseDistinct(shares), Len(shares) >= t
  PROVE  CallCombine(shares) = Outcome("value", value)
  <1> DEFINE m == Len(shares)
             len == Len(value)
             X == Coordinates(shares)
             dealt(p) == Split(value, n, rest)[p]
  <1>1. /\ m \in Nat /\ DOMAIN shares = 1 .. m /\ len \in Nat \ {0} /\ DOMAIN value = 1 .. len
        /\ value \in Seq(Byte) /\ t \in 2 .. 255 /\ n \in 1 .. 255 /\ m >= t
    <2>1. m \in Nat /\ DOMAIN shares = 1 .. m
      BY ListIsFunction
    <2>2. value \in Seq(Byte) /\ value # <<>> /\ t \in 2 .. 255
      BY DEF Drawn
    <2>3. Len(value) \in Nat \ {0} /\ DOMAIN value = 1 .. Len(value)
      BY <2>2
    <2>4. n \in 1 .. 255
      BY <2>2
    <2> QED BY <2>1, <2>2, <2>3, <2>4
  <1>2. \A p \in 1 .. n : /\ Len(dealt(p)) = len + 1 /\ dealt(p)[1] = p
                          /\ \A k \in 1 .. len : dealt(p)[k + 1] = evalPoly(Poly(value, rest, k), p)
    <2> TAKE p \in 1 .. n
    <2>1. n \in 1 .. 255
      BY <1>1
    <2>2. IsShare(Split(value, n, rest)[p], value, rest, p)
      BY <2>1, Shares
    <2> QED BY <1>1, <2>2 DEF IsShare
  <1>3. \A i \in 1 .. m : \E p \in 1 .. n : shares[i] = dealt(p)
    BY Zenon DEF AreDealt
  <1>4. \A i, j \in 1 .. m : shares[i] = shares[j] => i = j
    BY Zenon DEF ArePairwiseDistinct
  <1> HIDE DEF dealt, m, len, X
  <1>5. \A i \in 1 .. m : /\ shares[i][1] \in 1 .. n /\ shares[i] = dealt(shares[i][1])
                          /\ Len(shares[i]) = len + 1
                          /\ \A k \in 1 .. len : shares[i][k + 1]
                                                   = evalPoly(Poly(value, rest, k), shares[i][1])
    <2> TAKE i \in 1 .. m
    <2>1. PICK p \in 1 .. n : shares[i] = dealt(p)
      BY <1>3
    <2> QED BY <1>2, <2>1
  <1>6. ~CombineRefuses(shares)
    <2>1. m >= 2 /\ 1 \in 1 .. m
      BY <1>1
    <2>2. Len(shares[1]) = len + 1 /\ len + 1 >= 2
      BY <1>1, <1>5, <2>1
    <2>3. ASSUME NEW i \in 1 .. m
          PROVE  Len(shares[i]) = Len(shares[1]) /\ shares[i][1] # 0
      BY <1>1, <1>5, <2>2
    <2>4. ASSUME NEW i \in 1 .. m, NEW j \in 1 .. m, shares[i][1] = shares[j][1]
          PROVE  i = j
      <3>1. shares[i] = shares[j]
        BY <1>5, <2>4
      <3> QED BY <1>4, <3>1
    <2>5. ~(\E i \in DOMAIN shares : Len(shares[i]) # Len(shares[1]) \/ shares[i][1] = 0)
      BY <1>1, <2>3
    <2>6. ~(\E i, j \in DOMAIN shares : i # j /\ shares[i][1] = shares[j][1])
      BY <1>1, <2>4
    <2>7. ~(Len(shares) < 2) /\ ~(Len(shares[1]) < 2)
      BY <1>1, <2>1, <2>2 DEF m
    <2> QED BY <2>5, <2>6, <2>7, Zenon DEF CombineRefuses
  <1> DEFINE Y(k) == [i \in DOMAIN shares |-> shares[i][k + 1]]
             T == 1 .. m
  <1>7. /\ CallCombine(shares) = Outcome("value", Combine(shares))
        /\ Combine(shares) = [k \in 1 .. Len(shares[1]) - 1 |-> AtZero(X, m, T, Y(k))]
    BY <1>6, CombinesTo DEF X, m
  <1>8. Points(X, m) /\ \A i \in 1 .. m : X[i] = shares[i][1]
    BY <1>1, <1>6, CoordinatesArePoints DEF X, m, Coordinates
  <1>9. T \in SUBSET (1 .. m) /\ Cardinality(T) = m
    BY <1>1, IntervalSize
  <1> HIDE DEF T
  <1>10. ASSUME NEW k \in 1 .. len
         PROVE  AtZero(X, m, T, Y(k)) = value[k]
    <2> DEFINE P == Poly(value, rest, k)
    <2>1. P \in Seq(Byte) /\ Len(P) = t /\ P[1] = value[k] /\ P # <<>>
      BY <1>1, Polys
    <2> HIDE DEF P
    <2>a. Len(P) \in Nat \ {0} /\ Len(P) - 1 = t - 1
      BY <1>1, <2>1
    <2>2. \A x : evalPoly(P, x) = Horner(P, x, t - 1)
      <3> TAKE x
      <3>1. evalPoly(P, x) = Horner(P, x, Len(P) - 1)
        BY <2>a, HornerRounds
      <3> QED BY <2>a, <3>1
    <2>3. \A i \in 1 .. m : shares[i][k + 1] = Horner(P, X[i], t - 1)
      BY <1>5, <1>8, <2>2 DEF P
    <2>4. Y(k) = Values(P, X, m, t - 1)
      BY <1>1, <2>3 DEF Values
    <2>5. t - 1 \in 0 .. Len(P) - 1 /\ m > t - 1 /\ Len(P) - (t - 1) = 1
      BY <1>1, <2>1
    <2> HIDE DEF Y
    <2>6. AtZero(X, m, T, Values(P, X, m, t - 1)) = P[Len(P) - (t - 1)]
      BY <1>8, <1>9, <2>1, <2>5, HornerAtZero
    <2> QED BY <2>1, <2>4, <2>5, <2>6
  <1>11. Len(shares[1]) - 1 = len
    BY <1>1, <1>5
  <1> HIDE DEF Y
  <1>12. Combine(shares) = [k \in 1 .. len |-> value[k]]
    BY <1>7, <1>10, <1>11
  <1>13. value = [k \in 1 .. len |-> value[k]]
    BY <1>1
  <1> QED BY <1>7, <1>12, <1>13

(* A polynomial of degree 1 through the point (x, y) and a chosen value at *)
(* 0.                                                                      *)
FitsOnce(v, x, y) ==
  \E c \in Byte : /\ evalPoly(<<v, c>>, x) = y
                  /\ \A d \in Byte \ {c} : evalPoly(<<v, d>>, x) # y

(* The one coefficient is (y - v)/x. *)
LEMMA OnePointFitsEveryValue ==
  ASSUME NEW v \in Byte, NEW x \in NonZero, NEW y \in Byte
  PROVE  FitsOnce(v, x, y)
  <1> DEFINE w == xor(y, v)
             c == gfDiv(w, x)
  <1>1. \A d \in Byte : evalPoly(<<v, d>>, x) = xor(gfMul(d, x), v)
    <2> TAKE d \in Byte
    <2> DEFINE p == <<v, d>>
    <2>1. Len(p) = 2 /\ p[1] = v /\ p[2] = d
      OBVIOUS
    <2> HIDE DEF p
    <2>2. /\ evalPoly(p, x) = Horner(p, x, 1) /\ Horner(p, x, 0) = d
          /\ Horner(p, x, 1) = xor(gfMul(Horner(p, x, 0), x), v)
      <3>1. Len(p) \in Nat \ {0} /\ Len(p) - 1 = 1 /\ 1 \in 1 .. Len(p) - 1
            /\ Len(p) - 1 = 1 /\ 1 - 1 = 0
        BY <2>1
      <3> QED BY <2>1, <3>1, HornerRounds
    <2> QED BY <2>2 DEF p
  <1>2. w \in Byte /\ x \in Byte
    BY XorFacts, NonZeroByte
  <1>3. c \in Byte /\ gfMul(c, x) = w
    BY <1>2, DivFacts
  <1>4. xor(w, v) = y
    <2>1. xor(xor(y, v), v) = xor(y, xor(v, v))
      BY XorFacts
    <2>2. xor(v, v) = 0 /\ xor(y, 0) = y
      BY XorFacts
    <2> QED BY <2>1, <2>2
  <1> HIDE DEF c
  <1>5. evalPoly(<<v, c>>, x) = y
    BY <1>1, <1>3, <1>4
  <1>6. ASSUME NEW d \in Byte, evalPoly(<<v, d>>, x) = y
        PROVE  d = c
    <2> DEFINE e == gfMul(d, x)
    <2>1. e \in Byte
      BY <1>2, MulFacts
    <2>2. xor(e, v) = y
      BY <1>1, <1>6
    <2> HIDE DEF e
    <2>3. xor(xor(e, v), v) = xor(e, xor(v, v)) /\ xor(v, v) = 0 /\ xor(e, 0) = e
      BY <2>1, XorFacts
    <2>4. e = w
      BY <2>2, <2>3
    <2>5. gfMul(d, x) = gfMul(c, x)
      BY <1>3, <2>4 DEF e
    <2> QED BY <1>3, <2>5, MulCancels
  <1> QED BY <1>3, <1>5, <1>6 DEF FitsOnce

(***************************************************************************)
(* The machine.                                                            *)
(***************************************************************************)
Dealt == /\ secret \in Seq(Byte) /\ threshold \in 2 .. 255 /\ total \in threshold .. 255
         /\ \E rest : Drawn(secret, threshold, rest) /\ out = Split(secret, total, rest)

(* What was split is dealt from polynomials of degree threshold - 1, what  *)
(* was collected are bytes, and the result is Combine's.                   *)
ShamirInv ==
  /\ phase \in {"start", "split", "combined"} /\ collected \in Seq(Seq(Byte))
  /\ phase = "start" => secret = <<>> /\ threshold = 0 /\ total = 0 /\ out = <<>>
  /\ phase # "start" => Dealt
  /\ phase # "combined" => result = None
  /\ phase = "combined" => result = CallCombine(collected)

(* The shares of a split. *)
LEMMA DealtShares ==
  ASSUME Dealt
  PROVE  /\ DOMAIN out = 1 .. total
         /\ \E rest : \A i \in 1 .. total : IsShare(out[i], secret, rest, i)
  <1>1. PICK rest : Drawn(secret, threshold, rest) /\ out = Split(secret, total, rest)
    BY DEF Dealt
  <1>2. total \in 1 .. 255
    BY DEF Dealt
  <1>3. \A i \in 1 .. total : IsShare(Split(secret, total, rest)[i], secret, rest, i)
    BY <1>1, <1>2, Shares
  <1>4. DOMAIN out = 1 .. total
    BY <1>1 DEF Split
  <1> QED BY <1>1, <1>3, <1>4

(* What DoSplit deals. *)
LEMMA SplitDeals ==
  ASSUME NEW value \in Secrets, NEW n \in Totals, NEW t \in Thresholds, DoSplit(value, n, t)
  PROVE  Dealt'
  <1>1. value \in Seq(Byte) /\ n \in Int /\ t \in Int /\ Coefficients \subseteq Byte
    BY ShamirAssumption
  <1>2. value # <<>> /\ t \in 2 .. 255 /\ n \in t .. 255
    BY <1>1 DEF DoSplit, SplitRefuses
  <1>3. secret' = value /\ threshold' = t /\ total' = n
    BY DEF DoSplit
  <1>4. PICK rest \in [DOMAIN value -> [1 .. t - 1 -> Coefficients]] : out' = Split(value, n, rest)
    BY DEF DoSplit
  <1>5. rest \in [DOMAIN value -> [1 .. t - 1 -> Byte]]
    BY <1>1
  <1>6. Drawn(value, t, rest)
    BY <1>1, <1>2, <1>5 DEF Drawn
  <1> QED BY <1>1, <1>2, <1>3, <1>4, <1>6 DEF Dealt

LEMMA CollectsBytes ==
  ASSUME collected \in Seq(Seq(Byte)), NEW share \in Seq(Byte), Collect(share)
  PROVE  collected' \in Seq(Seq(Byte))
  BY DEF Collect

LEMMA Stays ==
  ASSUME ShamirInv, secret' = secret, threshold' = threshold, total' = total, out' = out,
         phase # "start"
  PROVE  Dealt'
  BY DEF ShamirInv, Dealt

(* The invariant is inductive. *)
LEMMA ShamirInvInit == Init => ShamirInv
  BY DEF Init, ShamirInv

LEMMA ShamirInvStep ==
  ASSUME ShamirInv, [Next]_vars
  PROVE  ShamirInv'
  <1>1. ASSUME NEW value \in Secrets, NEW n \in Totals, NEW t \in Thresholds, DoSplit(value, n, t)
        PROVE  ShamirInv'
    <2>1. Dealt'
      BY <1>1, SplitDeals
    <2>2. phase = "start" /\ phase' = "split" /\ collected' = collected /\ result' = result
      BY <1>1 DEF DoSplit
    <2> QED BY <2>1, <2>2 DEF ShamirInv
  <1>2. ASSUME NEW share \in Seq(Byte), Collect(share)
        PROVE  ShamirInv'
    <2>1. /\ phase = "split" /\ phase' = phase /\ result' = result
          /\ secret' = secret /\ threshold' = threshold /\ total' = total /\ out' = out
      BY <1>2 DEF Collect
    <2>2. collected' \in Seq(Seq(Byte))
      BY <1>2, CollectsBytes DEF ShamirInv
    <2>3. Dealt'
      BY <2>1, Stays
    <2> QED BY <2>1, <2>2, <2>3 DEF ShamirInv
  <1>3. ASSUME NEW i \in Places \cap DOMAIN out, Collect(out[i])
        PROVE  ShamirInv'
    <2>1. Dealt
      BY <1>3 DEF Collect, ShamirInv
    <2>2. out[i] \in Seq(Byte)
      BY <1>3, <2>1, DealtShares DEF IsShare
    <2> QED BY <1>2, <1>3, <2>2
  <1>4. ASSUME NEW share \in Damaged, Collect(share)
        PROVE  ShamirInv'
    <2>1. <<>> \in Seq(Byte) /\ <<5>> \in Seq(Byte) /\ <<0, 7>> \in Seq(Byte)
      BY DEF Byte
    <2>2. share \in Seq(Byte)
      BY <2>1 DEF Damaged
    <2> QED BY <1>2, <1>4, <2>2
  <1>5. CASE DoCombine
    <2>1. /\ phase = "split" /\ phase' = "combined" /\ result' = CallCombine(collected)
          /\ collected' = collected
          /\ secret' = secret /\ threshold' = threshold /\ total' = total /\ out' = out
      BY <1>5 DEF DoCombine
    <2>2. Dealt'
      BY <2>1, Stays
    <2>3. CallCombine(collected)' = CallCombine(collected)
      BY <2>1 DEF CallCombine
    <2> QED BY <2>1, <2>2, <2>3 DEF ShamirInv
  <1>6. CASE UNCHANGED vars
    BY <1>6 DEF vars, ShamirInv, Dealt
  <1> QED BY <1>1, <1>3, <1>4, <1>5, <1>6 DEF Next

(* In every reachable state the shares are those Split dealt from          *)
(* polynomials of degree threshold - 1, what was collected are bytes, and  *)
(* the result is what Combine makes of them.                               *)
THEOREM ShamirInvariance == Spec => []ShamirInv
  BY ShamirInvInit, ShamirInvStep, PTL DEF Spec

(* What the invariant says of each property. *)
LEMMA ShamirTypes ==
  ASSUME ShamirInv
  PROVE  TypeOK
  <1>1. {threshold, total} \subseteq 0 .. 255
    <2>1. CASE phase = "start"
      BY <2>1 DEF ShamirInv
    <2>2. CASE phase # "start"
      <3>1. threshold \in 2 .. 255 /\ total \in threshold .. 255
        BY <2>2 DEF ShamirInv, Dealt
      <3> QED BY <3>1
    <2> QED BY <2>1, <2>2
  <1>2. \A i \in DOMAIN out : out[i] \in [1 .. Len(secret) + 1 -> Byte] /\ out[i][1] # 0
    <2>1. CASE phase = "start"
      BY <2>1 DEF ShamirInv
    <2>2. CASE phase # "start"
      <3>1. Dealt
        BY <2>2 DEF ShamirInv
      <3>2. PICK rest : \A i \in 1 .. total : IsShare(out[i], secret, rest, i)
        BY <3>1, DealtShares
      <3>3. DOMAIN out = 1 .. total /\ total \in Nat
        BY <3>1, DealtShares DEF Dealt
      <3> SUFFICES ASSUME NEW i \in 1 .. total
                   PROVE  out[i] \in [1 .. Len(secret) + 1 -> Byte] /\ out[i][1] # 0
        BY <3>3
      <3> DEFINE s == out[i]
      <3>4. s \in Seq(Byte) /\ Len(s) = Len(secret) + 1 /\ s[1] = i
        BY <3>2 DEF IsShare
      <3> HIDE DEF s
      <3>5. s \in [1 .. Len(secret) + 1 -> Byte]
        BY <3>4
      <3>6. i # 0
        BY <3>3
      <3> QED BY <3>4, <3>5, <3>6 DEF s
    <2> QED BY <2>1, <2>2
  <1>3. result.kind \in {"none", "error", "panic", "value"} /\ result.secret \in Seq(Byte)
    <2>1. CASE phase # "combined"
      <3>1. result = None
        BY <2>1 DEF ShamirInv
      <3>2. None.kind = "none" /\ None.secret = <<>>
        BY DEF None, Outcome
      <3>3. <<>> \in Seq(Byte)
        OBVIOUS
      <3> QED BY <3>1, <3>2, <3>3
    <2>2. CASE phase = "combined"
      <3>1. result = CallCombine(collected) /\ collected \in Seq(Seq(Byte))
        BY <2>2 DEF ShamirInv
      <3> QED BY <3>1, CombineType
    <2> QED BY <2>1, <2>2
  <1> QED BY <1>1, <1>2, <1>3 DEF TypeOK, ShamirInv

(* Type correctness: shares, collected bytes and the secret Combine        *)
(* returns are bytes, and the coordinates of the shares are 1 .. 255       *)
(* (Split).                                                                *)
THEOREM ShamirTypeCorrect == Spec => []TypeOK
  BY ShamirInvariance, ShamirTypes, PTL

LEMMA ShamirPanics ==
  ASSUME ShamirInv
  PROVE  NeverPanics
  <1>1. CASE phase # "combined"
    BY <1>1 DEF ShamirInv, NeverPanics, None, Outcome
  <1>2. CASE phase = "combined"
    BY <1>2, CombineNeverPanics DEF ShamirInv, NeverPanics
  <1> QED BY <1>1, <1>2

(* Whatever bytes the holders answer, Combine returns an error or a        *)
(* secret: gfDiv never panics, because the checks of length, zero and      *)
(* duplicate coordinates come first.                                       *)
THEOREM DivisionByZeroOutOfReach == Spec => []NeverPanics
  BY ShamirInvariance, ShamirPanics, PTL

LEMMA ShamirRestores ==
  ASSUME ShamirInv
  PROVE  AnyThresholdRestores
  <1> SUFFICES ASSUME phase = "combined", Genuine, Distinct, Len(collected) >= threshold
               PROVE  result = Outcome("value", secret)
    BY DEF AnyThresholdRestores
  <1>1. Dealt /\ collected \in Seq(Seq(Byte)) /\ result = CallCombine(collected)
    BY DEF ShamirInv
  <1>2. PICK rest : Drawn(secret, threshold, rest) /\ out = Split(secret, total, rest)
    BY <1>1 DEF Dealt
  <1>3. total \in threshold .. 255 /\ DOMAIN out = 1 .. total
    BY <1>1, DealtShares DEF Dealt
  <1>4. DOMAIN collected = 1 .. Len(collected)
    BY <1>1, ListIsFunction
  <1>5. AreDealt(collected, secret, total, rest)
    BY <1>2, <1>3, <1>4, Zenon DEF AreDealt, Genuine
  <1>6. ArePairwiseDistinct(collected)
    BY <1>1, <1>4, PairwiseDistinct, Zenon DEF ArePairwiseDistinct, Distinct
  <1> QED BY <1>1, <1>2, <1>3, <1>5, <1>6, Restores

(* Any threshold or more of different shares of a split, in any order,     *)
(* give the secret back: for every secret, every threshold from 2, up to   *)
(* 255 shares and all coefficients rand.Read can return (Split, Combine).  *)
THEOREM ThresholdRestores == Spec => []AnyThresholdRestores
  BY ShamirInvariance, ShamirRestores, PTL

LEMMA ShamirHides ==
  ASSUME ShamirInv
  PROVE  OneShareRevealsNothing
  <1> SUFFICES ASSUME phase = "split", threshold = 2, Len(collected) = 1, Genuine,
                      NEW value \in Byte, NEW k \in DOMAIN secret
               PROVE  \E c \in Byte :
                        /\ evalPoly(<<value, c>>, collected[1][1]) = collected[1][k + 1]
                        /\ \A d \in Byte \ {c} :
                             evalPoly(<<value, d>>, collected[1][1]) # collected[1][k + 1]
    BY DEF OneShareRevealsNothing
  <1>1. Dealt /\ collected \in Seq(Seq(Byte))
    BY DEF ShamirInv
  <1>2. PICK p \in DOMAIN out : collected[1] = out[p]
    <2>1. 1 \in DOMAIN collected
      BY <1>1
    <2> QED BY <2>1 DEF Genuine
  <1>3. DOMAIN out = 1 .. total /\ total \in 2 .. 255
    BY <1>1, DealtShares DEF Dealt
  <1>4. PICK rest : \A i \in 1 .. total : IsShare(out[i], secret, rest, i)
    BY <1>1, DealtShares
  <1> DEFINE s == collected[1]
  <1>5. /\ s \in Seq(Byte) /\ Len(s) = Len(secret) + 1 /\ s[1] = p
    BY <1>2, <1>3, <1>4 DEF IsShare
  <1>6. secret \in Seq(Byte) /\ k \in 1 .. Len(secret)
    BY <1>1 DEF Dealt
  <1> HIDE DEF s
  <1>7. s[1] \in NonZero
    <2>0. p \in 1 .. total
      BY <1>2, <1>3, Zenon
    <2>1. p \in 1 .. 255
      <3>1. total \in Int /\ total <= 255
        BY <1>3
      <3> QED BY <2>0, <3>1
    <2>2. p \in NonZero
      BY <2>1 DEF NonZero, Byte
    <2> QED BY <1>5, <2>2
  <1>8. s[k + 1] \in Byte
    <2>1. k + 1 \in 1 .. Len(s) /\ s \in Seq(Byte)
      BY <1>5, <1>6
    <2> QED BY <2>1
  <1>9. FitsOnce(value, s[1], s[k + 1])
    BY <1>7, <1>8, OnePointFitsEveryValue
  <1> QED BY <1>9 DEF s, FitsOnce

(* With threshold 2 a single share fits every byte the secret could be,    *)
(* each with exactly one coefficient (shamir.go's promise that fewer than  *)
(* the threshold reveal nothing, for one share of two).                    *)
THEOREM OneShareHides == Spec => []OneShareRevealsNothing
  BY ShamirInvariance, ShamirHides, PTL

(* The tables that init fills are inverse to each other, what gfMul makes  *)
(* of them is the product of gfMulSlow, and gfDiv undoes it.               *)
THEOREM TablesGiveTheField == Spec => []TablesAreTheField
  BY TheField, PTL
=============================================================================

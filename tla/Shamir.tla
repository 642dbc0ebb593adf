------------------------------- MODULE Shamir --------------------------------
(***************************************************************************)
(* Splitting a secret and putting it together again: Split and Combine     *)
(* (crypto/shamir.go) over the tables of crypto/gf256.go.  A byte is a     *)
(* number below 256, a share the sequence of its bytes, the x-coordinate   *)
(* first.                                                                  *)
(*                                                                         *)
(* The machine splits once and then collects shares in any order, some of  *)
(* them twice or damaged, and combines what it has.                        *)
(***************************************************************************)
EXTENDS Integers, Sequences, FiniteSets

CONSTANTS
  Secrets,       \* the secrets that are split
  Coefficients,  \* bytes rand.Read returns
  Totals, Thresholds,  \* the arguments Split is called with
  Places,        \* the places of the shares that are collected
  MaxCollected   \* bound: shares collected

Byte == 0 .. 255

ASSUME ShamirAssumption ==
  /\ Secrets \subseteq Seq(Byte) /\ Coefficients \subseteq Byte
  /\ Totals \subseteq Int /\ Thresholds \subseteq Int
  /\ Places \subseteq Nat /\ MaxCollected \in Nat

(***************************************************************************)
(* gf256.go                                                                *)
(***************************************************************************)

(* XOR of two bytes, by half-bytes. *)
BitXor(a, b, weight) == weight * ((a \div weight + b \div weight) % 2)
HalfXor == [a \in 0 .. 15 |-> [b \in 0 .. 15 |->
              BitXor(a, b, 8) + BitXor(a, b, 4) + BitXor(a, b, 2) + BitXor(a, b, 1)]]
xor(a, b) == 16 * HalfXor[a \div 16][b \div 16] + HalfXor[a % 16][b % 16]

(* The product after eight rounds, in each of which a is doubled modulo    *)
(* the reduction polynomial and b loses its last bit.                      *)
gfMulSlow(a, b) ==
  LET doubled[i \in 0 .. 8] ==
        IF i = 0 THEN a
        ELSE xor((2 * doubled[i - 1]) % 256, IF doubled[i - 1] >= 128 THEN 27 ELSE 0)
      p[i \in 0 .. 8] ==
        IF i = 0 THEN 0
        ELSE IF (b \div 2^(i - 1)) % 2 = 1 THEN xor(p[i - 1], doubled[i - 1]) ELSE p[i - 1]
  IN p[8]

(* The powers of the generator 3, and their inverse. *)
Thrice == [a \in Byte |-> gfMulSlow(a, 3)]
power[i \in 0 .. 254] == IF i = 0 THEN 1 ELSE Thrice[power[i - 1]]
expTable == [i \in 0 .. 254 |-> power[i]]
logTable == [a \in Byte |-> IF a = 0 THEN 0 ELSE CHOOSE i \in 0 .. 254 : expTable[i] = a]

(* Mutant: a sum that wraps around is reduced by the field's size. *)
gfMulWrappingAt256(a, b) ==
  IF a = 0 \/ b = 0 THEN 0
  ELSE LET sum == logTable[a] + logTable[b]
       IN expTable[IF sum >= 256 THEN sum - 256 ELSE sum % 255]

gfMul(a, b) ==
  IF a = 0 \/ b = 0 THEN 0
  ELSE LET sum == logTable[a] + logTable[b]
       IN expTable[IF sum >= 255 THEN sum - 255 ELSE sum]

(* Dividing by zero panics. *)
Panics(a, b) == a # 0 /\ b = 0
gfDiv(a, b) ==
  IF a = 0 THEN 0
  ELSE LET diff == logTable[a] - logTable[b]
       IN expTable[IF diff < 0 THEN diff + 255 ELSE diff]

(***************************************************************************)
(* shamir.go                                                               *)
(***************************************************************************)

(* Mutant: the loop starts at the last coefficient, which counts twice. *)
evalPolyLastTwice(coeffs, x) ==
  LET n == Len(coeffs)
      result[k \in 0 .. n] ==
        IF k = 0 THEN coeffs[n] ELSE xor(gfMul(result[k - 1], x), coeffs[n - k + 1])
  IN result[n]

(* Horner's rule, from the last coefficient down. *)
evalPoly(coeffs, x) ==
  LET n == Len(coeffs)
      result[k \in 0 .. n - 1] ==
        IF k = 0 THEN coeffs[n] ELSE xor(gfMul(result[k - 1], x), coeffs[n - k])
  IN result[n - 1]

(* Split checks its arguments ... *)
SplitRefuses(value, n, t) == t < 2 \/ n < t \/ n > 255 \/ value = <<>>

(* Mutant: the coordinates start at the index. *)
SplitFromZero(value, n, rest) ==
  [i \in 1 .. n |-> <<i - 1>> \o [k \in DOMAIN value |->
                                   evalPoly(<<value[k]>> \o rest[k], i - 1)]]

(* ... and evaluates a polynomial for each byte, whose coefficients after  *)
(* the first are drawn.                                                    *)
Split(value, n, rest) ==
  [i \in 1 .. n |-> <<i>> \o [k \in DOMAIN value |->
                               evalPoly(<<value[k]>> \o rest[k], i)]]

(* Mutant: a coordinate may come twice. *)
RefusesNoDuplicates(shares) ==
  \/ Len(shares) < 2
  \/ Len(shares[1]) < 2
  \/ \E i \in DOMAIN shares : Len(shares[i]) # Len(shares[1]) \/ shares[i][1] = 0

(* Combine refuses what it cannot interpolate. *)
CombineRefuses(shares) ==
  \/ Len(shares) < 2
  \/ Len(shares[1]) < 2
  \/ \E i \in DOMAIN shares : Len(shares[i]) # Len(shares[1]) \/ shares[i][1] = 0
  \/ \E i, j \in DOMAIN shares : i # j /\ shares[i][1] = shares[j][1]

(* The loops of Combine over the places 1 .. n that are in T. *)
Product(f, T, n) ==
  LET p[j \in 0 .. n] ==
        IF j = 0 THEN 1 ELSE IF j \in T THEN gfMul(p[j - 1], f[j]) ELSE p[j - 1]
  IN p[n]
Sum(f, T, n) ==
  LET acc[j \in 0 .. n] ==
        IF j = 0 THEN 0 ELSE IF j \in T THEN xor(acc[j - 1], f[j]) ELSE acc[j - 1]
  IN acc[n]

(* Numerator and denominator of share i's Lagrange coefficient at 0. *)
Num(xs, i) == Product(xs, DOMAIN xs \ {i}, Len(xs))
Den(xs, i) == Product([j \in DOMAIN xs |-> xor(xs[i], xs[j])], DOMAIN xs \ {i}, Len(xs))

(* Mutant: the share's own coordinate is one of the factors. *)
InterpolateWithOwn(xs, ys) ==
  Sum([i \in DOMAIN xs |-> gfMul(ys[i], gfDiv(gfMul(Num(xs, i), xs[i]), Den(xs, i)))],
      DOMAIN xs, Len(xs))

(* The value at 0 of the polynomial through the points (xs[i], ys[i]). *)
Interpolate(xs, ys) ==
  Sum([i \in DOMAIN xs |-> gfMul(ys[i], gfDiv(Num(xs, i), Den(xs, i)))],
      DOMAIN xs, Len(xs))

Combine(shares) ==
  LET xs == [i \in DOMAIN shares |-> shares[i][1]]
  IN [k \in 1 .. Len(shares[1]) - 1 |->
        Interpolate(xs, [i \in DOMAIN shares |-> shares[i][k + 1]])]

(***************************************************************************)
(* The machine.                                                            *)
(***************************************************************************)
VARIABLES
  phase,      \* "start", "split", "combined"
  secret, threshold, total,  \* what was split, and how
  out,        \* the shares of the split
  collected,  \* the shares collected from the holders
  result      \* what Combine came to, and the secret it returned

vars == <<phase, secret, threshold, total, out, collected, result>>

Outcome(kind, value) == [kind |-> kind, secret |-> value]
None == Outcome("none", <<>>)

Init ==
  /\ phase = "start" /\ secret = <<>> /\ threshold = 0 /\ total = 0
  /\ out = <<>> /\ collected = <<>> /\ result = None

(* The caller of Split gives up when it refuses. *)
DoSplit(value, n, t) ==
  /\ phase = "start" /\ ~SplitRefuses(value, n, t)
  /\ phase' = "split"
  /\ secret' = value /\ threshold' = t /\ total' = n
  /\ \E rest \in [DOMAIN value -> [1 .. t - 1 -> Coefficients]] :
       out' = Split(value, n, rest)
  /\ UNCHANGED <<collected, result>>

(* What holders answer that have no share: nothing, a share without a      *)
(* value, one with a coordinate that Split never deals.                    *)
Damaged == {<<>>, <<5>>, <<0, 7>>}

Collect(share) ==
  /\ phase = "split" /\ Len(collected) < MaxCollected
  /\ collected' = Append(collected, share)
  /\ UNCHANGED <<phase, secret, threshold, total, out, result>>

CallCombine(shares) ==
  LET xs == [i \in DOMAIN shares |-> shares[i][1]]
  IN IF CombineRefuses(shares) THEN Outcome("error", <<>>)
     ELSE IF \E i \in DOMAIN xs : Panics(Num(xs, i), Den(xs, i)) THEN Outcome("panic", <<>>)
     ELSE Outcome("value", Combine(shares))

DoCombine ==
  /\ phase = "split"
  /\ phase' = "combined"
  /\ result' = CallCombine(collected)
  /\ UNCHANGED <<secret, threshold, total, out, collected>>

Next ==
  \/ \E value \in Secrets, n \in Totals, t \in Thresholds : DoSplit(value, n, t)
  \/ \E i \in Places \cap DOMAIN out : Collect(out[i])
  \/ \E share \in Damaged : Collect(share)
  \/ DoCombine

Spec == Init /\ [][Next]_vars
-----------------------------------------------------------------------------
(***************************************************************************)
(* Properties.                                                             *)
(***************************************************************************)

(* Type correctness: shares are bytes, and never more than 255 of them. *)
TypeOK ==
  /\ phase \in {"start", "split", "combined"}
  /\ {threshold, total} \subseteq 0 .. 255
  /\ \A i \in DOMAIN out : out[i] \in [1 .. Len(secret) + 1 -> Byte] /\ out[i][1] # 0
  /\ collected \in Seq(Seq(Byte))
  /\ result.kind \in {"none", "error", "panic", "value"} /\ result.secret \in Seq(Byte)

(* The two tables are inverse to each other and start at 1 and 3, and      *)
(* multiplying by 3 distributes over XOR.                                  *)
FieldTables ==
  /\ expTable[0] = 1 /\ logTable[3] = 1
  /\ \A i \in 0 .. 254 : expTable[i] \in Byte \ {0} /\ logTable[expTable[i]] = i
  /\ \A a \in Byte \ {0} : logTable[a] \in 0 .. 254 /\ expTable[logTable[a]] = a
  /\ \A a, b \in Byte : gfMul(3, xor(a, b)) = xor(gfMul(3, a), gfMul(3, b))

(* The tables give the field that gfMulSlow computes, and division undoes  *)
(* multiplication (gf256.go's init, gfMul, gfDiv).                         *)
TablesAreTheField ==
  phase = "start" =>
    /\ FieldTables
    /\ \A a, b \in Byte :
         /\ gfMul(a, b) = gfMulSlow(a, b)
         /\ b # 0 => gfDiv(gfMul(a, b), b) = a

Genuine == \A i \in DOMAIN collected : \E p \in DOMAIN out : collected[i] = out[p]
Distinct == Cardinality({collected[i] : i \in DOMAIN collected}) = Len(collected)

(* Any threshold of the shares, and more of them, in whatever order they   *)
(* were collected and up to the coordinate 255, give the secret back, for  *)
(* coefficients of zero as well (Split, Combine).                          *)
AnyThresholdRestores ==
  phase = "combined" /\ Genuine /\ Distinct /\ Len(collected) >= threshold =>
    result = Outcome("value", secret)

(* Whatever the holders answer, Combine refuses it or interpolates it: its *)
(* division by zero, which would end the process, is out of reach.         *)
NeverPanics == result.kind # "panic"

(* One share of a split with threshold 2 says nothing of the secret: for   *)
(* every byte it could be there is exactly one coefficient that gives the  *)
(* same share (shamir.go:14).                                              *)
OneShareRevealsNothing ==
  phase = "split" /\ threshold = 2 /\ Len(collected) = 1 /\ Genuine =>
    \A value \in Byte : \A k \in DOMAIN secret :
      \E c \in Byte : /\ evalPoly(<<value, c>>, collected[1][1]) = collected[1][k + 1]
                      /\ \A d \in Byte \ {c} :
                           evalPoly(<<value, d>>, collected[1][1]) # collected[1][k + 1]
=============================================================================

---------------------------- MODULE ToolsProofs ----------------------------
(***************************************************************************)
(* Proofs about Sha256 and Tools: the digest of every sequence of bytes,   *)
(* for every size of block and of length, that digests tell files apart,   *)
(* and what the tools keep from call to call. The module of the program    *)
(* turns the invariants into theorems.                                     *)
(***************************************************************************)
EXTENDS Tools, WellFoundedInduction, SequenceTheorems, FiniteSetTheorems, TLAPS

(* What the walk has found is in the file.                                 *)
WalkInv ==
  step = "walk" =>
    /\ avi \in AVIFiles /\ pos \in Nat
    /\ hdrl \in BOOLEAN /\ movi \in BOOLEAN /\ index \in BOOLEAN
    /\ hdrl => HasChunk(avi, {"hdrl"})
    /\ movi => HasChunk(avi, {"movi"})
    /\ index => HasChunk(avi, {"idx1", "indx"})

(* What is known once the walk has passed the chunk c.                     *)
Noted(c) ==
  /\ c.kind = "hdrl" => hdrl /\ frames > 0
  /\ c.kind = "movi" => movi
  /\ c.kind \in {"idx1", "indx"} => index

(* In an intact file the walk goes from chunk to chunk and misses none.    *)
PassedInv ==
  step = "walk" /\ Intact(avi) =>
    /\ pos >= 12 /\ frames \in Nat /\ defects = 0
    /\ \A c \in avi.chunks : c.at < pos => EndOf(c) <= pos /\ Noted(c)
    /\ ~walking => pos + HeaderSize > avi.size

(* What sha256_update has collected of the bytes m: the full blocks, then  *)
(* the bytes of the next one, and the number of bits in the blocks.        *)
Collected(m) ==
  /\ m \in Seq(Int) /\ datalen \in Places
  /\ blocks \in Seq([Places -> Int]) /\ data \in [Places -> Int]
  /\ Len(m) = Len(blocks) * BlockSize + datalen
  /\ \A j \in 1 .. Len(blocks) : \A i \in Places : blocks[j][i] = m[(j - 1) * BlockSize + i + 1]
  /\ \A i \in 0 .. datalen - 1 : data[i] = m[Len(blocks) * BlockSize + i + 1]
  /\ lo = (Len(blocks) * BlockBits) % Word
  /\ hi = ((Len(blocks) * BlockBits) \div Word) % Word

(* The file being read, and what of it is in the context.                  *)
ReadInv ==
  step = "read" =>
    /\ tool \in {"hash", "verify"} /\ args # <<>>
    /\ content[file] # NoFile /\ place \in 0 .. Len(content[file])
    /\ Collected(bytesRead)
    /\ tool = "verify" => sidecar[file] # NoFile

(* A sidecar has the digest of the bytes that were hashed.                 *)
SidecarInv ==
  /\ args \in Seq(Files) /\ (step = "walk" => args # <<>>)
  /\ content \in [Files -> Contents \cup {NoFile}]
  /\ sidecar = [f \in Files |-> sidecar[f]] /\ hashed = [f \in Files |-> hashed[f]]
  /\ \A f \in Files : sidecar[f] # NoFile =>
       hashed[f] \in Seq(0 .. 255) /\ sidecar[f] = PaddedMessage(hashed[f])

(* The code and the verdict agree.                                         *)
CodeInv ==
  /\ exitCode \in 0 .. 2
  /\ step = "walk" => tool = "check"
  /\ tool = "none" => exitCode = 0 /\ ~bad
  /\ exitCode = 0 <=> ~bad

ToolsIInv == WalkInv /\ PassedInv /\ ReadInv /\ SidecarInv /\ CodeInv

----------------------------------------------------------------------------
(* Numbers. What a recursive function is, and what it does, follows from   *)
(* the least number where it would not.                                    *)

NatLess == {ss \in Nat \X Nat : ss[1] < ss[2]}

(* A set of numbers has a least one.                                       *)
LEMMA LeastOf ==
  ASSUME NEW T, T \subseteq Nat, T # {}
  PROVE  \E x \in T : \A y \in T : x <= y
<1>1. IsWellFoundedOn(NatLess, Nat)
  BY NatLessThanWellFounded DEF OpToRel, NatLess
<1>2. PICK x \in T : \A y \in T : ~(<<y, x>> \in NatLess)
  BY <1>1, WFMin
<1>3. ASSUME NEW y \in T PROVE x <= y
  <2>1. <<y, x>> \in Nat \X Nat /\ ~(<<y, x>>[1] < <<y, x>>[2])
    BY <1>2 DEF NatLess
  <2> QED BY <2>1
<1> QED BY <1>3

(* A function that begins with base and goes on by g exists as far as one  *)
(* likes.                                                                  *)
GoesOn(f, n, base, g) ==
  /\ f = [i \in 0 .. n |-> f[i]] /\ f[0] = base
  /\ \A i \in 1 .. n : f[i] = g[<<i - 1, f[i - 1]>>]

LEMMA PartsExist == ASSUME NEW base, NEW g PROVE \A n \in Nat : \E f : GoesOn(f, n, base, g)
<1> SUFFICES ASSUME NEW m \in Nat, ~\E f : GoesOn(f, m, base, g) PROVE FALSE
  OBVIOUS
<1> DEFINE S == {k \in Nat : ~\E f : GoesOn(f, k, base, g)}
<1>1. PICK n \in S : \A y \in S : n <= y
  <2> S \subseteq Nat /\ S # {}
    OBVIOUS
  <2> HIDE DEF S
  <2> QED BY LeastOf
<1>2. n # 0
  <2>1. GoesOn([i \in 0 .. 0 |-> base], 0, base, g)
    BY DEF GoesOn
  <2> QED BY <2>1
<1>3. n \in Nat /\ n - 1 \in Nat /\ n - 1 \notin S
  BY <1>1, <1>2
<1>4. PICK f : GoesOn(f, n - 1, base, g)
  BY <1>3
<1> DEFINE h == [i \in 0 .. n |-> IF i = n THEN g[<<n - 1, f[n - 1]>>] ELSE f[i]]
<1>5. GoesOn(h, n, base, g)
  <2>1. h[0] = base
    BY <1>2, <1>3, <1>4 DEF GoesOn
  <2>2. ASSUME NEW i \in 1 .. n PROVE h[i] = g[<<i - 1, h[i - 1]>>]
    <3>1. CASE i = n
      BY <1>3, <3>1
    <3>2. CASE i # n
      <4>1. i \in 1 .. n - 1
        BY <1>3, <3>2
      <4>2. \A k \in 1 .. n - 1 : f[k] = g[<<k - 1, f[k - 1]>>]
        BY <1>4 DEF GoesOn
      <4>3. f[i] = g[<<i - 1, f[i - 1]>>]
        BY <4>1, <4>2
      <4>4. h[i] = f[i] /\ h[i - 1] = f[i - 1]
        BY <1>3, <4>1
      <4> QED BY <4>3, <4>4
    <3> QED BY <3>1, <3>2
  <2>3. h = [i \in 0 .. n |-> h[i]]
    OBVIOUS
  <2> QED BY <2>1, <2>2, <2>3 DEF GoesOn
<1> QED BY <1>1, <1>5

(* Two of them agree as far as both go.                                    *)
LEMMA PartsAgree ==
  ASSUME NEW base, NEW g, NEW n \in Nat, NEW k \in Nat, NEW f, NEW h,
         GoesOn(f, n, base, g), GoesOn(h, k, base, g)
  PROVE  \A i \in Nat : i <= n /\ i <= k => f[i] = h[i]
<1> SUFFICES ASSUME NEW m \in Nat, m <= n, m <= k, f[m] # h[m] PROVE FALSE
  OBVIOUS
<1> DEFINE S == {i \in Nat : i <= n /\ i <= k /\ f[i] # h[i]}
<1>1. PICK i \in S : \A y \in S : i <= y
  <2> S \subseteq Nat /\ S # {}
    OBVIOUS
  <2> HIDE DEF S
  <2> QED BY LeastOf
<1>2. i # 0
  BY <1>1 DEF GoesOn
<1>3. i \in 1 .. n /\ i \in 1 .. k /\ i - 1 \in Nat /\ i - 1 \notin S
  BY <1>1, <1>2
<1>4. f[i - 1] = h[i - 1]
  BY <1>3
<1>5. \A j \in 1 .. n : f[j] = g[<<j - 1, f[j - 1]>>]
  BY DEF GoesOn
<1>6. \A j \in 1 .. k : h[j] = g[<<j - 1, h[j - 1]>>]
  BY DEF GoesOn
<1>7. f[i] = g[<<i - 1, f[i - 1]>>] /\ h[i] = g[<<i - 1, h[i - 1]>>]
  BY <1>3, <1>5, <1>6
<1> QED BY <1>1, <1>4, <1>7

(* So there is one on all numbers, and its values are where g leads.       *)
Follows(f, S, base, g) ==
  f \in [Nat -> S] /\ f[0] = base /\ \A n \in Nat : f[n + 1] = g[<<n, f[n]>>]

LEMMA Recursion ==
  ASSUME NEW S, NEW base \in S, NEW g \in [Nat \X S -> S]
  PROVE  \E f : Follows(f, S, base, g)
<1> DEFINE P(n) == CHOOSE f : GoesOn(f, n, base, g)
           F == [n \in Nat |-> P(n)[n]]
<1>1. \A n \in Nat : GoesOn(P(n), n, base, g)
  BY PartsExist
<1> HIDE DEF P
<1>2. F[0] = base
  BY <1>1 DEF GoesOn
<1>3. ASSUME NEW n \in Nat PROVE F[n + 1] = g[<<n, F[n]>>]
  <2>1. n + 1 \in Nat /\ GoesOn(P(n + 1), n + 1, base, g) /\ GoesOn(P(n), n, base, g)
    BY <1>1
  <2>2. P(n + 1)[n] = P(n)[n]
    BY <2>1, PartsAgree
  <2>3. P(n + 1)[n + 1] = g[<<n, P(n + 1)[n]>>]
    <3>1. \A i \in 1 .. n + 1 : P(n + 1)[i] = g[<<i - 1, P(n + 1)[i - 1]>>]
      BY <2>1 DEF GoesOn
    <3>2. n + 1 \in 1 .. n + 1 /\ (n + 1) - 1 = n
      OBVIOUS
    <3> QED BY <3>1, <3>2
  <2> QED BY <2>1, <2>2, <2>3
<1>4. ASSUME NEW m \in Nat, F[m] \notin S PROVE FALSE
  <2> DEFINE T == {k \in Nat : F[k] \notin S}
  <2> HIDE DEF F
  <2>1. PICK n \in T : \A y \in T : n <= y
    <3> T \subseteq Nat /\ T # {}
      BY <1>4
    <3> HIDE DEF T
    <3> QED BY LeastOf
  <2>2. n # 0
    BY <1>2, <2>1
  <2>3. n - 1 \in Nat /\ n - 1 \notin T /\ n = (n - 1) + 1
    BY <2>1, <2>2
  <2>4. F[n - 1] \in S
    BY <2>3
  <2>5. F[n] = g[<<n - 1, F[n - 1]>>]
    BY <1>3, <2>3
  <2>6. <<n - 1, F[n - 1]>> \in Nat \X S
    BY <2>3, <2>4
  <2>7. F[n] \in S
    BY <2>5, <2>6
  <2> QED BY <2>1, <2>7
<1>5. F \in [Nat -> S]
  BY <1>4
<1> QED BY <1>2, <1>3, <1>5 DEF Follows

(* So the recursive definition has the function it asks for.               *)
LEMMA Power256Def ==
  Power256 = [n \in Nat |-> IF n = 0 THEN 1 ELSE 256 * Power256[n - 1]]
<1> DEFINE g == [ss \in Nat \X Nat |-> 256 * ss[2]]
<1>1. g \in [Nat \X Nat -> Nat]
  OBVIOUS
<1>2. PICK f : Follows(f, Nat, 1, g)
  <2> HIDE DEF g
  <2>1. 1 \in Nat
    OBVIOUS
  <2> QED BY <1>1, <2>1, Recursion, Zenon
<1>3. \A n \in Nat : n # 0 => f[n] = 256 * f[n - 1]
  <2> SUFFICES ASSUME NEW n \in Nat, n # 0 PROVE f[n] = 256 * f[n - 1]
    OBVIOUS
  <2>1. n - 1 \in Nat /\ n = (n - 1) + 1
    OBVIOUS
  <2>2. f[n] = g[<<n - 1, f[n - 1]>>]
    BY <1>2, <2>1 DEF Follows
  <2>3. f[n - 1] \in Nat
    BY <1>2, <2>1 DEF Follows
  <2> QED BY <2>1, <2>2, <2>3
<1>4. f = [n \in Nat |-> IF n = 0 THEN 1 ELSE 256 * f[n - 1]]
  BY <1>2, <1>3 DEF Follows
<1> HIDE DEF g
<1> QED BY <1>4 DEF Power256

(* What is used of it.                                                     *)
LEMMA PowerSteps ==
  /\ Power256[0] = 1
  /\ \A n \in Nat : Power256[n + 1] = 256 * Power256[n]
<1>1. ASSUME NEW k \in Nat PROVE Power256[k] = IF k = 0 THEN 1 ELSE 256 * Power256[k - 1]
  BY Power256Def, Zenon
<1>2. Power256[0] = 1
  BY <1>1
<1>3. ASSUME NEW n \in Nat PROVE Power256[n + 1] = 256 * Power256[n]
  <2>1. n + 1 \in Nat /\ n + 1 # 0 /\ (n + 1) - 1 = n
    OBVIOUS
  <2> QED BY <1>1, <2>1
<1> QED BY <1>2, <1>3

LEMMA PowerPositive == \A n \in Nat : Power256[n] \in Nat \ {0}
<1> SUFFICES ASSUME NEW m \in Nat, Power256[m] \notin Nat \ {0} PROVE FALSE
  OBVIOUS
<1> DEFINE S == {k \in Nat : Power256[k] \notin Nat \ {0}}
<1>1. PICK n \in S : \A y \in S : n <= y
  <2> S \subseteq Nat /\ S # {}
    OBVIOUS
  <2> HIDE DEF S
  <2> QED BY LeastOf
<1>2. n # 0
  BY <1>1, PowerSteps
<1>3. n - 1 \in Nat /\ n - 1 \notin S /\ n = (n - 1) + 1
  BY <1>1, <1>2
<1>4. Power256[n - 1] \in Nat \ {0}
  BY <1>3
<1>5. Power256[n] = 256 * Power256[n - 1]
  BY <1>3, PowerSteps
<1> QED BY <1>1, <1>4, <1>5

LEMMA PowerAdds == \A a, b \in Nat : Power256[a + b] = Power256[a] * Power256[b]
<1> SUFFICES ASSUME NEW a \in Nat, NEW m \in Nat, Power256[a + m] # Power256[a] * Power256[m]
    PROVE  FALSE
  OBVIOUS
<1> DEFINE S == {k \in Nat : Power256[a + k] # Power256[a] * Power256[k]}
<1>1. PICK n \in S : \A y \in S : n <= y
  <2> S \subseteq Nat /\ S # {}
    OBVIOUS
  <2> HIDE DEF S
  <2> QED BY LeastOf
<1>2. Power256[a] \in Nat
  BY PowerPositive
<1>3. n # 0
  BY <1>1, <1>2, PowerSteps
<1>4. n - 1 \in Nat /\ n - 1 \notin S /\ n = (n - 1) + 1 /\ a + n = (a + (n - 1)) + 1
  BY <1>1, <1>3
<1>5. Power256[a + (n - 1)] = Power256[a] * Power256[n - 1]
  BY <1>4
<1>6. Power256[a + n] = 256 * Power256[a + (n - 1)] /\ Power256[n] = 256 * Power256[n - 1]
  <2>1. a + (n - 1) \in Nat
    BY <1>4
  <2> QED BY <1>4, <2>1, PowerSteps
<1>7. Power256[n - 1] \in Nat
  BY <1>4, PowerPositive
<1>8. 256 * (Power256[a] * Power256[n - 1]) = Power256[a] * (256 * Power256[n - 1])
  BY <1>2, <1>7
<1> QED BY <1>1, <1>5, <1>6, <1>8

----------------------------------------------------------------------------
(* Quotients and remainders.                                               *)

(* What the two operators give.                                            *)
LEMMA Division ==
  ASSUME NEW a \in Nat, NEW b \in Nat \ {0}
  PROVE  /\ a \div b \in Nat /\ a % b \in 0 .. b - 1
         /\ a = b * (a \div b) + (a % b)
<1>1. a \div b \in Int /\ a = b * (a \div b) + (a % b)
  OBVIOUS
<1>2. a % b \in 0 .. b - 1
  OBVIOUS
<1>3. a \div b \in Nat
  <2>1. ASSUME a \div b <= -1 PROVE FALSE
    <3>1. b * (a \div b) <= b * (-1)
      BY <1>1, <2>1
    <3> QED BY <1>1, <1>2, <3>1
  <2> QED BY <1>1, <2>1
<1> QED BY <1>1, <1>2, <1>3

(* And that nothing else is a quotient and a remainder.                    *)
LEMMA Quotient ==
  ASSUME NEW a \in Nat, NEW b \in Nat \ {0}, NEW q \in Nat, NEW r \in 0 .. b - 1, a = b * q + r
  PROVE  a \div b = q /\ a % b = r
<1>1. /\ a \div b \in Nat /\ a % b \in 0 .. b - 1
      /\ a = b * (a \div b) + (a % b)
  BY Division
<1>2. ASSUME NEW u \in Nat, NEW v \in Nat, NEW s \in 0 .. b - 1, NEW t \in 0 .. b - 1,
             b * u + s = b * v + t, u < v
      PROVE  FALSE
  <2>1. u + 1 <= v
    BY <1>2
  <2>2. b * (u + 1) <= b * v
    BY <2>1
  <2>3. b * (u + 1) = b * u + b
    OBVIOUS
  <2> QED BY <1>2, <2>2, <2>3
<1>3. a \div b = q
  BY <1>1, <1>2
<1>4. b * (a \div b) = b * q
  BY <1>3
<1> QED BY <1>1, <1>3, <1>4

(* Dividing twice.                                                         *)
LEMMA QuotientTwice ==
  ASSUME NEW a \in Nat, NEW b \in Nat \ {0}, NEW c \in Nat \ {0}
  PROVE  (a \div b) \div c = a \div (b * c)
<1> DEFINE q == a \div b
           r == a % b
           s == q \div c
           t == q % c
<1>1. q \in Nat /\ r \in 0 .. b - 1 /\ a = b * q + r
  BY Division
<1>2. s \in Nat /\ t \in 0 .. c - 1 /\ q = c * s + t
  BY <1>1, Division
<1> HIDE DEF q, r, s, t
<1>3. b * c \in Nat \ {0}
  OBVIOUS
<1>4. b * q = (b * c) * s + b * t
  BY <1>1, <1>2
<1>5. a = (b * c) * s + (b * t + r)
  BY <1>1, <1>2, <1>4
<1>6. b * t + r \in 0 .. (b * c) - 1
  <2>1. b * t \in Nat /\ b * t <= b * (c - 1)
    BY <1>2
  <2>2. b * (c - 1) = b * c - b
    OBVIOUS
  <2> QED BY <1>1, <1>3, <2>1, <2>2
<1>7. a \div (b * c) = s
  BY <1>2, <1>3, <1>5, <1>6, Quotient
<1> QED BY <1>7 DEF s, q

(* A remainder keeps the digits below its divisor.                         *)
Splits(n, p) == \E m \in Nat \ {0} : n = p * (256 * m)
Digit(x, p) == (x \div p) % 256

LEMMA DigitOfRemainder ==
  ASSUME NEW x \in Nat, NEW p \in Nat \ {0}, NEW N \in Nat \ {0}, Splits(N, p)
  PROVE  Digit(x % N, p) = Digit(x, p)
<1>0. PICK m \in Nat \ {0} : N = p * (256 * m)
  BY DEF Splits
<1> DEFINE u == x \div N
           v == x % N
           s == v \div p
           t == v % p
           k == s \div 256
           d == s % 256
<1>1. v \in 0 .. N - 1 /\ u \in Nat /\ x = N * u + v
  BY Division
<1> HIDE DEF u, v, s, t, k, d
<1>2. u \in Nat /\ v \in Nat /\ x = N * u + v
  BY <1>1
<1>3. s \in Nat /\ t \in 0 .. p - 1 /\ v = p * s + t
  BY <1>2, Division DEF s, t
<1>4. k \in Nat /\ d \in 0 .. 255 /\ s = 256 * k + d
  <2>1. d \in 0 .. 256 - 1 /\ k \in Nat /\ s = 256 * k + d
    BY <1>3 DEF k, d
  <2> QED BY <2>1
<1>5. x = p * ((256 * m) * u + s) + t
  <2>1. N * u = p * ((256 * m) * u)
    BY <1>0, <1>2
  <2>2. p * ((256 * m) * u + s) = p * ((256 * m) * u) + p * s
    BY <1>2, <1>3
  <2> QED BY <1>1, <1>2, <1>3, <2>1, <2>2
<1>6. (256 * m) * u + s \in Nat
  BY <1>2, <1>3
<1>7. x \div p = (256 * m) * u + s
  BY <1>3, <1>5, <1>6, Quotient
<1>8. x \div p = 256 * (m * u + k) + d /\ m * u + k \in Nat
  BY <1>2, <1>4, <1>7
<1>9. (x \div p) % 256 = d
  BY <1>4, <1>6, <1>7, <1>8, Quotient
<1> QED BY <1>9 DEF Digit, d, s, v

(* The bytes of a number below a power of 256 determine it.                *)
NextByte(x, p) == x % (256 * p) = p * ((x \div p) % 256) + (x % p)

LEMMA RemainderByDigit == ASSUME NEW x \in Nat, NEW p \in Nat \ {0} PROVE NextByte(x, p)
<1> DEFINE s == x \div p
           t == x % p
           k == s \div 256
           d == s % 256
<1>1. s \in Nat /\ t \in 0 .. p - 1 /\ x = p * s + t
  BY Division
<1>2. k \in Nat /\ d \in 0 .. 255 /\ s = 256 * k + d
  BY <1>1, Division
<1> HIDE DEF s, t, k, d
<1>3. 256 * p \in Nat \ {0}
  OBVIOUS
<1>4. x = (256 * p) * k + (p * d + t)
  <2>1. p * (256 * k + d) = (256 * p) * k + p * d
    BY <1>2
  <2> QED BY <1>1, <1>2, <2>1
<1>5. p * d + t \in 0 .. (256 * p) - 1
  <2>1. p * d \in Nat /\ p * d <= p * 255
    BY <1>2
  <2> QED BY <1>1, <2>1
<1>6. x % (256 * p) = p * d + t
  BY <1>2, <1>3, <1>4, <1>5, Quotient
<1> QED BY <1>6 DEF NextByte, d, s, t

LEMMA BytesTell ==
  ASSUME NEW x \in Nat, NEW y \in Nat, NEW n \in Nat,
         \A e \in 0 .. n - 1 :
           (x \div Power256[e]) % 256 = (y \div Power256[e]) % 256
  PROVE  x % Power256[n] = y % Power256[n]
<1> SUFFICES ASSUME x % Power256[n] # y % Power256[n] PROVE FALSE
  OBVIOUS
<1> DEFINE S == {k \in Nat : k <= n /\ x % Power256[k] # y % Power256[k]}
<1>1. PICK k \in S : \A j \in S : k <= j
  <2> S \subseteq Nat /\ S # {}
    OBVIOUS
  <2> HIDE DEF S
  <2> QED BY LeastOf
<1>2. x % Power256[0] = 0 /\ y % Power256[0] = 0
  <2>1. x = 1 * x + 0 /\ y = 1 * y + 0 /\ 0 \in 0 .. 1 - 1 /\ 1 \in Nat \ {0}
    OBVIOUS
  <2>2. x % 1 = 0 /\ y % 1 = 0
    BY <2>1, Quotient
  <2> QED BY <2>2, PowerSteps
<1>3. k # 0
  BY <1>1, <1>2
<1>4. k - 1 \in 0 .. n - 1 /\ k - 1 \notin S /\ k = (k - 1) + 1
  BY <1>1, <1>3
<1> DEFINE p == Power256[k - 1]
<1>5. p \in Nat \ {0} /\ Power256[k] = 256 * p
  BY <1>4, PowerPositive, PowerSteps
<1>6. x % p = y % p /\ (x \div p) % 256 = (y \div p) % 256
  BY <1>4
<1> HIDE DEF p
<1>7. NextByte(x, p) /\ NextByte(y, p)
  BY <1>5, RemainderByDigit
<1>9. x % (256 * p) = y % (256 * p)
  BY <1>6, <1>7, Zenon DEF NextByte
<1> QED BY <1>1, <1>5, <1>9

(* Adding to the low word of a number, and the carry to its high word.     *)
LEMMA Carry ==
  ASSUME NEW w \in Nat \ {0}, NEW x \in Nat, NEW a \in Nat, a < w
  PROVE  /\ ((x % w) + a) % w = (x + a) % w
         /\ Overflowed((x + a) % w, a) <=> (x % w) + a >= w
         /\ Overflowed((x + a) % w, x % w) <=> (x % w) + a >= w
         /\ (x + a) \div w = (x \div w) + (IF (x % w) + a >= w THEN 1 ELSE 0)
<1> DEFINE q == x \div w
           r == x % w
           c == IF r + a >= w THEN 1 ELSE 0
           t == IF r + a >= w THEN (r + a) - w ELSE r + a
<1>1. q \in Nat /\ r \in 0 .. w - 1 /\ x = w * q + r
  BY Division
<1> HIDE DEF q, r
<1>2. c \in Nat /\ t \in 0 .. w - 1 /\ r + a \in Nat /\ r + a = w * c + t
  BY <1>1
<1>3. (t < a <=> r + a >= w) /\ (t < r <=> r + a >= w)
  BY <1>1
<1> HIDE DEF c, t
<1>4. w * (q + c) = w * q + w * c
  BY <1>1, <1>2
<1>5. x + a = w * (q + c) + t /\ x + a \in Nat /\ q + c \in Nat
  BY <1>1, <1>2, <1>4
<1>6. (x + a) \div w = q + c /\ (x + a) % w = t
  BY <1>2, <1>5, Quotient
<1>7. (r + a) % w = t
  BY <1>2, Quotient
<1> QED BY <1>3, <1>6, <1>7 DEF Overflowed, q, r, c

----------------------------------------------------------------------------
(* The padded message.                                                     *)

Count(n) == (n + 1 + 2 * WordBytes + BlockSize - 1) \div BlockSize
PaddedByte(m, p) ==
  LET n == Len(m)
      size == Count(n) * BlockSize
  IN  IF p < n THEN m[p + 1]
      ELSE IF p = n THEN 128
      ELSE IF p < size - 2 * WordBytes THEN 0
      ELSE ((8 * n) \div Power256[size - 1 - p]) % 256

LEMMA PaddedIs ==
  ASSUME NEW m
  PROVE  PaddedMessage(m) =
           [j \in 1 .. Count(Len(m)) |-> [i \in Places |-> PaddedByte(m, (j - 1) * BlockSize + i)]]
BY DEF PaddedMessage, Count, PaddedByte

(* One block more when the length does not fit behind the 0x80.            *)
LEMMA CountIs ==
  ASSUME NEW q \in Nat, NEW r \in Places
  PROVE  /\ NoRoom(r + 1) => Count(q * BlockSize + r) = q + 2
         /\ ~NoRoom(r + 1) => Count(q * BlockSize + r) = q + 1
<1>1. /\ BlockSize \in Nat \ {0} /\ WordBytes \in Nat /\ 2 * WordBytes < BlockSize
      /\ r \in 0 .. BlockSize - 1
  BY Sha256Assumption DEF Places
<1>2. /\ BlockSize * (q + 1) = q * BlockSize + BlockSize
      /\ BlockSize * (q + 2) = q * BlockSize + 2 * BlockSize
      /\ q * BlockSize \in Nat
  BY <1>1
<1> DEFINE n == (q * BlockSize + r) + 1 + 2 * WordBytes + BlockSize - 1
<1>3. n \in Nat
  BY <1>1, <1>2
<1>4. ASSUME NoRoom(r + 1) PROVE n \div BlockSize = q + 2
  <2>1. r + 2 * WordBytes - BlockSize \in 0 .. BlockSize - 1
    BY <1>1, <1>4 DEF NoRoom, Room
  <2>2. n = BlockSize * (q + 2) + (r + 2 * WordBytes - BlockSize) /\ q + 2 \in Nat
    BY <1>1, <1>2
  <2> HIDE DEF n
  <2> QED BY <1>1, <1>3, <2>1, <2>2, Quotient
<1>5. ASSUME ~NoRoom(r + 1) PROVE n \div BlockSize = q + 1
  <2>1. r + 2 * WordBytes \in 0 .. BlockSize - 1
    BY <1>1, <1>5 DEF NoRoom, Room
  <2>2. n = BlockSize * (q + 1) + (r + 2 * WordBytes) /\ q + 1 \in Nat
    BY <1>1, <1>2
  <2> HIDE DEF n
  <2> QED BY <1>1, <1>3, <2>1, <2>2, Quotient
<1> QED BY <1>4, <1>5 DEF Count

(* The bytes of the two words of the length are those of the length.       *)
LEMMA LengthBytes ==
  ASSUME NEW x \in Nat, NEW i \in 0 .. 2 * WordBytes - 1
  PROVE  (IF i < WordBytes THEN ByteOf((x \div Word) % Word, i)
                           ELSE ByteOf(x % Word, i - WordBytes))
         = (x \div Power256[2 * WordBytes - 1 - i]) % 256
<1>1. WordBytes \in Nat \ {0} /\ Word \in Nat \ {0} /\ x \div Word \in Nat
  BY Sha256Assumption, PowerPositive, Division DEF Word
<1>2. ASSUME NEW y \in Nat, NEW e \in 0 .. WordBytes - 1
      PROVE  Digit(y % Word, Power256[e]) = Digit(y, Power256[e])
  <2>1. WordBytes - 1 - e \in Nat /\ e \in Nat /\ e + 1 \in Nat
    BY <1>1
  <2>2. Power256[e] \in Nat \ {0} /\ Power256[WordBytes - 1 - e] \in Nat \ {0}
    BY <2>1, PowerPositive
  <2>3. Power256[e + 1] = 256 * Power256[e]
    BY <2>1, PowerSteps
  <2>4. (e + 1) + (WordBytes - 1 - e) = WordBytes
    BY <1>1
  <2>5. Word = Power256[e + 1] * Power256[WordBytes - 1 - e]
    BY <2>1, <2>4, PowerAdds DEF Word
  <2>6. Splits(Word, Power256[e])
    <3>1. Word = Power256[e] * (256 * Power256[WordBytes - 1 - e])
      BY <2>2, <2>3, <2>5
    <3> QED BY <2>2, <3>1 DEF Splits
  <2> QED BY <1>1, <2>2, <2>6, DigitOfRemainder
<1>3. CASE i < WordBytes
  <2>1. WordBytes - 1 - i \in 0 .. WordBytes - 1
    BY <1>1, <1>3
  <2>2. ByteOf((x \div Word) % Word, i) = ((x \div Word) \div Power256[WordBytes - 1 - i]) % 256
    <3>1. Digit((x \div Word) % Word, Power256[WordBytes - 1 - i])
          = Digit(x \div Word, Power256[WordBytes - 1 - i])
      BY <1>1, <1>2, <2>1
    <3> QED BY <3>1 DEF ByteOf, Digit
  <2>3. Power256[WordBytes - 1 - i] \in Nat \ {0}
    BY <2>1, PowerPositive
  <2>4. (x \div Word) \div Power256[WordBytes - 1 - i] = x \div (Word * Power256[WordBytes - 1 - i])
    BY <1>1, <2>3, QuotientTwice
  <2>5. WordBytes + (WordBytes - 1 - i) = 2 * WordBytes - 1 - i
    BY <1>1
  <2>6. Word * Power256[WordBytes - 1 - i] = Power256[2 * WordBytes - 1 - i]
    BY <1>1, <2>1, <2>5, PowerAdds DEF Word
  <2> QED BY <1>3, <2>2, <2>4, <2>6
<1>4. CASE ~(i < WordBytes)
  <2>1. /\ WordBytes - 1 - (i - WordBytes) = 2 * WordBytes - 1 - i
        /\ 2 * WordBytes - 1 - i \in 0 .. WordBytes - 1
    BY <1>1, <1>4
  <2>2. ByteOf(x % Word, i - WordBytes) = (x \div Power256[2 * WordBytes - 1 - i]) % 256
    <3>1. Digit(x % Word, Power256[2 * WordBytes - 1 - i])
          = Digit(x, Power256[2 * WordBytes - 1 - i])
      BY <1>2, <2>1
    <3>2. ByteOf(x % Word, i - WordBytes)
          = ((x % Word) \div Power256[WordBytes - 1 - (i - WordBytes)]) % 256
      BY DEF ByteOf
    <3> QED BY <2>1, <3>1, <3>2 DEF Digit
  <2> QED BY <1>4, <2>2
<1> QED BY <1>3, <1>4

(* The two words that sha256_final writes.                                 *)
LEMMA FinalLength ==
  ASSUME NEW m, Collected(m)
  PROVE  LET low == (lo + 8 * datalen) % Word
             high == (IF Overflowed(low, lo) THEN hi + 1 ELSE hi) % Word
         IN  low = (8 * Len(m)) % Word /\ high = ((8 * Len(m)) \div Word) % Word
<1> DEFINE x == Len(blocks) * BlockBits
           low == (lo + 8 * datalen) % Word
           high == (IF Overflowed(low, lo) THEN hi + 1 ELSE hi) % Word
<1>1. /\ Word \in Nat \ {0} /\ BlockBits < Word /\ BlockBits = 8 * BlockSize
      /\ BlockSize \in Nat /\ WordBytes \in Nat \ {0} /\ BlockSize > 2 * WordBytes
  BY Sha256Assumption, PowerPositive DEF Word, BlockBits
<1>2. /\ Len(blocks) \in Nat /\ datalen \in 0 .. BlockSize - 1
      /\ Len(m) = Len(blocks) * BlockSize + datalen
      /\ lo = x % Word /\ hi = (x \div Word) % Word
  BY DEF Collected, Places
<1>3. /\ x \in Nat /\ 8 * datalen \in Nat /\ 8 * datalen < Word /\ 1 < Word
      /\ 8 * Len(m) = x + 8 * datalen
  BY <1>1, <1>2
<1> HIDE DEF x
<1>4. /\ low = (x + 8 * datalen) % Word
      /\ Overflowed((x + 8 * datalen) % Word, lo) <=> lo + 8 * datalen >= Word
      /\ (x + 8 * datalen) \div Word
         = (x \div Word) + (IF lo + 8 * datalen >= Word THEN 1 ELSE 0)
  BY <1>1, <1>2, <1>3, Carry
<1>5. x \div Word \in Nat
  BY <1>1, <1>3, Division
<1>6. (hi + 1) % Word = ((x \div Word) + 1) % Word
  <2>1. 1 \in Nat
    OBVIOUS
  <2>2. (((x \div Word) % Word) + 1) % Word = ((x \div Word) + 1) % Word
    BY <1>1, <1>3, <1>5, <2>1, Carry, Zenon
  <2> QED BY <1>2, <2>2
<1>7. hi % Word = hi
  <2>1. hi \in 0 .. Word - 1
    BY <1>1, <1>2, <1>5, Division
  <2> QED BY <1>1, <2>1
<1> HIDE DEF low
<1>8. high = ((x + 8 * datalen) \div Word) % Word
  <2>1. CASE lo + 8 * datalen >= Word
    BY <1>4, <1>6, <2>1
  <2>2. CASE ~(lo + 8 * datalen >= Word)
    <3>1. high = hi
      BY <1>4, <1>7, <2>2
    <3>2. (x + 8 * datalen) \div Word = (x \div Word) + 0
      BY <1>4, <2>2
    <3> QED BY <1>2, <1>5, <3>1, <3>2
  <2> QED BY <2>1, <2>2
<1> QED BY <1>3, <1>4, <1>8 DEF low
(* Byte i of the block in which the message ends.                          *)
Marked(i) == IF i < datalen THEN data[i] ELSE IF i = datalen THEN 128 ELSE 0

LEMMA SizeFacts ==
  /\ Word \in Nat \ {0} /\ BlockBits < Word /\ BlockBits = 8 * BlockSize
  /\ BlockSize \in Nat \ {0} /\ WordBytes \in Nat \ {0} /\ BlockSize > 2 * WordBytes
  /\ Room = BlockSize - 2 * WordBytes
BY Sha256Assumption, PowerPositive DEF Word, BlockBits, Room

(* The bytes of the padded message, block by block.                        *)
LEMMA PaddedBlocks ==
  ASSUME NEW m, Collected(m)
  PROVE  LET q == Len(blocks)
             c == Count(Len(m))
         IN  /\ c = IF NoRoom(datalen + 1) THEN q + 2 ELSE q + 1
             /\ \A j \in 1 .. q : \A i \in Places :
                  PaddedByte(m, (j - 1) * BlockSize + i) = blocks[j][i]
             /\ \A i \in Places : (i < Room \/ q + 1 < c) =>
                  PaddedByte(m, q * BlockSize + i) = Marked(i)
             /\ \A i \in Places : q + 1 < c /\ i < Room =>
                  PaddedByte(m, (q + 1) * BlockSize + i) = 0
             /\ \A i \in Places : ~(i < Room) =>
                  PaddedByte(m, (c - 1) * BlockSize + i)
                  = Digit(8 * Len(m), Power256[BlockSize - 1 - i])
<1> DEFINE q == Len(blocks)
           n == Len(m)
           c == Count(n)
           b == q * BlockSize
<1>1. /\ BlockSize \in Nat \ {0} /\ WordBytes \in Nat \ {0} /\ 2 * WordBytes < BlockSize
      /\ Room = BlockSize - 2 * WordBytes
  BY SizeFacts
<1>2. q \in Nat /\ datalen \in 0 .. BlockSize - 1 /\ n = b + datalen /\ n \in Nat /\ b \in Nat
  BY <1>1 DEF Collected, Places
<1>3. c = IF NoRoom(datalen + 1) THEN q + 2 ELSE q + 1
  BY <1>2, CountIs DEF Places
<1>4. c * BlockSize = b + (IF NoRoom(datalen + 1) THEN 2 * BlockSize ELSE BlockSize)
  BY <1>1, <1>2, <1>3
<1>5. (c - 1) * BlockSize = b + (IF NoRoom(datalen + 1) THEN BlockSize ELSE 0)
  BY <1>1, <1>2, <1>3
<1>6. NoRoom(datalen + 1) <=> datalen + 1 > Room
  BY DEF NoRoom
<1>7. (q + 1) * BlockSize = b + BlockSize
  BY <1>1, <1>2
<1>14. ASSUME q + 1 < c PROVE c * BlockSize = b + 2 * BlockSize
  BY <1>1, <1>2, <1>3, <1>4, <1>14
<1>15. ASSUME NEW i \in Nat, i < Room \/ q + 1 < c, i < BlockSize
       PROVE  b + i < c * BlockSize - 2 * WordBytes
  <2> DEFINE e == c * BlockSize
  <2>1. CASE NoRoom(datalen + 1)
    <3>1. e = b + 2 * BlockSize
      BY <1>4, <2>1
    <3> HIDE DEF b, e
    <3>2. b + i < e - 2 * WordBytes
      BY <1>1, <1>2, <1>15, <3>1
    <3> QED BY <3>2 DEF e
  <2>2. CASE ~NoRoom(datalen + 1)
    <3>1. e = b + BlockSize /\ c = q + 1
      BY <1>3, <1>4, <2>2
    <3>2. i < Room
      BY <1>2, <1>15, <3>1
    <3> HIDE DEF b, e
    <3>3. b + i < e - 2 * WordBytes
      BY <1>1, <1>2, <3>1, <3>2
    <3> QED BY <3>3 DEF e
  <2> QED BY <2>1, <2>2
<1>8. /\ \A j \in 1 .. q : \A i \in Places : blocks[j][i] = m[((j - 1) * BlockSize + i) + 1]
      /\ \A i \in 0 .. datalen - 1 : data[i] = m[(b + i) + 1]
  BY <1>1, <1>2 DEF Collected, Places
<1>9. ASSUME NEW p \in Nat
      PROVE  PaddedByte(m, p) = IF p < n THEN m[p + 1]
                                ELSE IF p = n THEN 128
                                ELSE IF p < c * BlockSize - 2 * WordBytes THEN 0
                                ELSE Digit(8 * n, Power256[c * BlockSize - 1 - p])
  BY DEF PaddedByte, Digit
<1>10. ASSUME NEW j \in 1 .. q, NEW i \in Places
       PROVE  PaddedByte(m, (j - 1) * BlockSize + i) = blocks[j][i]
  <2>1. (j - 1) * BlockSize + BlockSize = j * BlockSize /\ j * BlockSize <= b
        /\ (j - 1) * BlockSize \in Nat /\ i \in 0 .. BlockSize - 1
    BY <1>1, <1>2 DEF Places
  <2> DEFINE p == (j - 1) * BlockSize + i
  <2>2. p \in Nat /\ p < n
    BY <1>1, <1>2, <2>1
  <2>3. blocks[j][i] = m[p + 1]
    BY <1>8
  <2> HIDE DEF p
  <2>4. PaddedByte(m, p) = m[p + 1]
    BY <1>9, <2>2
  <2> QED BY <2>3, <2>4 DEF p
<1>11. ASSUME NEW i \in Places, i < Room \/ q + 1 < c
       PROVE  PaddedByte(m, b + i) = Marked(i)
  <2>1. i \in 0 .. BlockSize - 1 /\ b + i \in Nat
    BY <1>1, <1>2 DEF Places
  <2>2. CASE i < datalen
    <3>1. i \in 0 .. datalen - 1 /\ b + i < n
      BY <1>2, <2>1, <2>2
    <3> HIDE DEF b, n
    <3> QED BY <1>8, <1>9, <2>1, <2>2, <3>1 DEF Marked
  <2>3. CASE i = datalen
    <3>1. b + i = n /\ ~(b + i < n)
      BY <1>2, <2>3
    <3>2. ~(i < datalen)
      BY <1>2, <2>3
    <3> HIDE DEF b, n
    <3> QED BY <1>9, <2>1, <2>3, <3>1, <3>2 DEF Marked
  <2>4. CASE i > datalen
    <3>3. i \in Nat /\ i < BlockSize
      BY <1>1, <2>1
    <3> HIDE DEF q, b, n, c
    <3>0. b + i < c * BlockSize - 2 * WordBytes
      BY <1>11, <1>15, <3>3, Zenon
    <3>1. ~(b + i < n) /\ b + i # n
      BY <1>2, <2>1, <2>4
    <3>2. ~(i < datalen) /\ i # datalen
      BY <1>2, <2>1, <2>4
    <3> QED BY <1>9, <2>1, <3>0, <3>1, <3>2 DEF Marked
  <2> QED BY <1>2, <2>1, <2>2, <2>3, <2>4
<1>12. ASSUME NEW i \in Places, q + 1 < c, i < Room
       PROVE  PaddedByte(m, (q + 1) * BlockSize + i) = 0
  <2> DEFINE p == (q + 1) * BlockSize + i
  <2>1. p = b + BlockSize + i /\ i \in 0 .. BlockSize - 1
    BY <1>7 DEF Places
  <2> DEFINE e == c * BlockSize
  <2>4. e = b + 2 * BlockSize
    BY <1>12, <1>14
  <2> HIDE DEF b, n, c, p, e
  <2>5. p \in Nat /\ ~(p < n) /\ p # n /\ p < e - 2 * WordBytes
    BY <1>1, <1>2, <1>12, <2>1, <2>4
  <2>2. p \in Nat /\ ~(p < n) /\ p # n /\ p < c * BlockSize - 2 * WordBytes
    BY <2>5 DEF e
  <2>3. PaddedByte(m, p) = 0
    BY <1>9, <2>2
  <2> QED BY <2>3 DEF p
<1>13. ASSUME NEW i \in Places, ~(i < Room)
       PROVE  PaddedByte(m, (c - 1) * BlockSize + i) = Digit(8 * n, Power256[BlockSize - 1 - i])
  <2> DEFINE p == (c - 1) * BlockSize + i
  <2>1. i \in 0 .. BlockSize - 1
    BY DEF Places
  <2>2. p = b + (IF NoRoom(datalen + 1) THEN BlockSize ELSE 0) + i
    BY <1>5
  <2> HIDE DEF b, n, c, p
  <2>3. p \in Nat /\ ~(p < n) /\ p # n /\ ~(p < c * BlockSize - 2 * WordBytes)
    BY <1>1, <1>2, <1>4, <1>6, <1>13, <2>1, <2>2
  <2>4. c * BlockSize - 1 - p = BlockSize - 1 - i
    BY <1>1, <1>2, <1>4, <2>1, <2>2
  <2>5. PaddedByte(m, p) = Digit(8 * n, Power256[c * BlockSize - 1 - p])
    BY <1>9, <2>3
  <2>6. PaddedByte(m, p) = Digit(8 * n, Power256[BlockSize - 1 - i])
    BY <2>4, <2>5
  <2> QED BY <2>6 DEF p
<1> QED BY <1>3, <1>10, <1>11, <1>12, <1>13
(* The blocks that sha256_final adds.                                      *)
LEMMA FinalBlocks ==
  ASSUME NEW m, Collected(m)
  PROVE  \E filled, last :
           /\ Digest = blocks \o (IF NoRoom(datalen + 1) THEN <<filled>> ELSE <<>>) \o <<last>>
           /\ filled = [i \in Places |-> Marked(i)]
           /\ last = [i \in Places |->
                        IF i < Room THEN (IF NoRoom(datalen + 1) THEN 0 ELSE Marked(i))
                        ELSE Digit(8 * Len(m), Power256[BlockSize - 1 - i])]
<1> DEFINE low == (lo + 8 * datalen) % Word
           high == (IF Overflowed(low, lo) THEN hi + 1 ELSE hi) % Word
           marked == [data EXCEPT ![datalen] = 128]
           filled == Zeroed(marked, datalen + 1, BlockSize)
           full == NoRoom(datalen + 1)
           padded == IF full THEN Zeroed(filled, 0, Room) ELSE Zeroed(marked, datalen + 1, Room)
           last == [i \in Places |->
                      IF i < Room THEN padded[i]
                      ELSE IF i < Room + WordBytes THEN ByteOf(high, i - Room)
                      ELSE ByteOf(low, i - Room - WordBytes)]
<1>1. Digest = blocks \o (IF full THEN <<filled>> ELSE <<>>) \o <<last>>
  BY DEF Digest
<1>2. low = (8 * Len(m)) % Word /\ high = ((8 * Len(m)) \div Word) % Word
  BY FinalLength
<1>3. /\ BlockSize \in Nat \ {0} /\ WordBytes \in Nat \ {0} /\ 2 * WordBytes < BlockSize
      /\ Room = BlockSize - 2 * WordBytes
  BY SizeFacts
<1>4. /\ datalen \in Places /\ data \in [Places -> Int] /\ 8 * Len(m) \in Nat
      /\ datalen \in Nat
  BY <1>3 DEF Collected, Places
<1> HIDE DEF low, high
<1>5. marked \in [Places -> Int]
      /\ \A i \in Places : marked[i] = IF i = datalen THEN 128 ELSE data[i]
  BY <1>4
<1>6. filled = [i \in Places |-> Marked(i)]
  <2>1. ASSUME NEW i \in Places
        PROVE  (IF datalen + 1 <= i /\ i < BlockSize THEN 0 ELSE marked[i]) = Marked(i)
    <3>1. i \in Nat /\ i < BlockSize
      BY <1>3 DEF Places
    <3> QED BY <1>4, <1>5, <3>1 DEF Marked
  <2> QED BY <2>1 DEF Zeroed
<1>7. ASSUME NEW i \in Places, i < Room
      PROVE  padded[i] = IF full THEN 0 ELSE Marked(i)
  <2>1. i \in Nat
    BY DEF Places
  <2>2. CASE full
    BY <1>7, <2>1, <2>2 DEF Zeroed
  <2>3. CASE ~full
    <3>1. padded[i] = IF datalen + 1 <= i /\ i < Room THEN 0 ELSE marked[i]
      BY <2>3 DEF Zeroed
    <3> QED BY <1>4, <1>5, <1>7, <2>1, <2>3, <3>1 DEF Marked
  <2> QED BY <2>2, <2>3
<1>8. ASSUME NEW i \in Places, ~(i < Room)
      PROVE  (IF i < Room + WordBytes THEN ByteOf(high, i - Room)
              ELSE ByteOf(low, i - Room - WordBytes))
             = Digit(8 * Len(m), Power256[BlockSize - 1 - i])
  <2>1. i \in 0 .. BlockSize - 1
    BY DEF Places
  <2> DEFINE k == i - Room
             x == 8 * Len(m)
  <2>2. k \in 0 .. 2 * WordBytes - 1 /\ (i < Room + WordBytes <=> k < WordBytes)
        /\ 2 * WordBytes - 1 - k = BlockSize - 1 - i
    BY <1>3, <1>8, <2>1
  <2>3. x \in Nat
    BY <1>4
  <2> HIDE DEF k, x
  <2>4. (IF k < WordBytes THEN ByteOf((x \div Word) % Word, k)
                          ELSE ByteOf(x % Word, k - WordBytes))
        = (x \div Power256[2 * WordBytes - 1 - k]) % 256
    BY <2>2, <2>3, LengthBytes
  <2>5. high = (x \div Word) % Word /\ low = x % Word
    BY <1>2 DEF x
  <2>6. (IF i < Room + WordBytes THEN ByteOf(high, k) ELSE ByteOf(low, k - WordBytes))
        = Digit(x, Power256[BlockSize - 1 - i])
    BY <2>2, <2>4, <2>5 DEF Digit
  <2> QED BY <2>6 DEF k, x
<1>9. last = [i \in Places |->
                IF i < Room THEN (IF full THEN 0 ELSE Marked(i))
                ELSE Digit(8 * Len(m), Power256[BlockSize - 1 - i])]
  <2> HIDE DEF padded
  <2> QED BY <1>7, <1>8
<1> HIDE DEF filled, last
<1> QED BY <1>1, <1>6, <1>9

(* A sequence with one element more.                                       *)
LEMMA OneBehind ==
  ASSUME NEW S, NEW s \in Seq(S), NEW a
  PROVE  /\ s \o <<a>> = [j \in 1 .. Len(s) + 1 |-> IF j <= Len(s) THEN s[j] ELSE a]
         /\ s \o <<a>> \in Seq(S \cup {a}) /\ Len(s \o <<a>>) = Len(s) + 1
<1>1. s \in Seq(S \cup {a}) /\ <<a>> \in Seq(S \cup {a})
  OBVIOUS
<1> QED BY <1>1

(* sha256_final gives the message padded as FIPS 180-4 says, for all bytes *)
(* sha256_update has collected: blocks full or not, lengths that carry.    *)
THEOREM DigestIsPadded ==
  ASSUME NEW m, Collected(m)
  PROVE  Digest = PaddedMessage(m)
<1> DEFINE q == Len(blocks)
           c == Count(Len(m))
           full == NoRoom(datalen + 1)
           row(j) == [i \in Places |-> PaddedByte(m, (j - 1) * BlockSize + i)]
<1>1. PICK filled, last :
           /\ Digest = blocks \o (IF full THEN <<filled>> ELSE <<>>) \o <<last>>
           /\ filled = [i \in Places |-> Marked(i)]
           /\ last = [i \in Places |->
                        IF i < Room THEN (IF full THEN 0 ELSE Marked(i))
                        ELSE Digit(8 * Len(m), Power256[BlockSize - 1 - i])]
  BY FinalBlocks
<1>2. /\ c = IF full THEN q + 2 ELSE q + 1
      /\ \A j \in 1 .. q : \A i \in Places :
           PaddedByte(m, (j - 1) * BlockSize + i) = blocks[j][i]
      /\ \A i \in Places : (i < Room \/ q + 1 < c) =>
           PaddedByte(m, q * BlockSize + i) = Marked(i)
      /\ \A i \in Places : q + 1 < c /\ i < Room =>
           PaddedByte(m, (q + 1) * BlockSize + i) = 0
      /\ \A i \in Places : ~(i < Room) =>
           PaddedByte(m, (c - 1) * BlockSize + i)
           = Digit(8 * Len(m), Power256[BlockSize - 1 - i])
  BY PaddedBlocks
<1>3. blocks \in Seq([Places -> Int]) /\ q \in Nat
  BY DEF Collected
<1>4. PaddedMessage(m) = [j \in 1 .. c |-> row(j)]
  BY PaddedIs
<1>5. ASSUME NEW j \in 1 .. q PROVE blocks[j] = row(j)
  <2>1. blocks[j] \in [Places -> Int]
    BY <1>3
  <2>2. blocks[j] = [i \in Places |-> blocks[j][i]]
    BY <2>1
  <2> QED BY <1>2, <2>2
<1> HIDE DEF c
<1>6. CASE full
  <2>1. c = q + 2 /\ q + 1 < c /\ c - 1 = q + 1
    BY <1>2, <1>3, <1>6
  <2>2. filled = row(q + 1)
    <3>1. (q + 1) - 1 = q
      BY <1>3
    <3>2. \A i \in Places : PaddedByte(m, q * BlockSize + i) = Marked(i)
      BY <1>2, <2>1
    <3> HIDE DEF q
    <3> QED BY <1>1, <3>1, <3>2
  <2>3. last = row(q + 2)
    <3>1. (q + 2) - 1 = q + 1
      BY <1>3
    <3>2. \A i \in Places : PaddedByte(m, (q + 1) * BlockSize + i)
             = IF i < Room THEN 0 ELSE Digit(8 * Len(m), Power256[BlockSize - 1 - i])
      BY <1>2, <2>1
    <3> HIDE DEF q
    <3> QED BY <1>1, <1>6, <3>1, <3>2
  <2>4. Digest = blocks \o <<filled>> \o <<last>>
    BY <1>1, <1>6
  <2> HIDE DEF row
  <2>5. blocks \o <<filled>> \o <<last>> = [j \in 1 .. q + 2 |->
           IF j <= q THEN blocks[j] ELSE IF j = q + 1 THEN filled ELSE last]
    <3> DEFINE t == blocks \o <<filled>>
    <3>1. /\ t = [j \in 1 .. q + 1 |-> IF j <= q THEN blocks[j] ELSE filled]
          /\ t \in Seq([Places -> Int] \cup {filled}) /\ Len(t) = q + 1
      BY <1>3, OneBehind
    <3> HIDE DEF t
    <3>2. t \o <<last>> = [j \in 1 .. Len(t) + 1 |-> IF j <= Len(t) THEN t[j] ELSE last]
      BY <3>1, OneBehind
    <3> HIDE DEF q
    <3>3. t \o <<last>> = [j \in 1 .. q + 2 |->
             IF j <= q THEN blocks[j] ELSE IF j = q + 1 THEN filled ELSE last]
      BY <1>3, <3>1, <3>2
    <3> QED BY <3>3 DEF t
  <2> QED BY <1>3, <1>4, <1>5, <2>1, <2>2, <2>3, <2>4, <2>5
<1>7. CASE ~full
  <2>1. c = q + 1 /\ c - 1 = q
    BY <1>2, <1>3, <1>7
  <2>3. last = row(q + 1)
    <3>1. (q + 1) - 1 = q
      BY <1>3
    <3>2. \A i \in Places : PaddedByte(m, q * BlockSize + i)
             = IF i < Room THEN Marked(i) ELSE Digit(8 * Len(m), Power256[BlockSize - 1 - i])
      BY <1>2, <2>1
    <3> HIDE DEF q
    <3> QED BY <1>1, <1>7, <3>1, <3>2
  <2>4. Digest = blocks \o <<>> \o <<last>>
    BY <1>1, <1>7
  <2> HIDE DEF row
  <2>5. blocks \o <<>> \o <<last>> = [j \in 1 .. q + 1 |-> IF j <= q THEN blocks[j] ELSE last]
    BY <1>3
  <2> QED BY <1>3, <1>4, <1>5, <2>1, <2>3, <2>4, <2>5
<1> QED BY <1>6, <1>7
LEMMA CollectedStarts == sha256_init => Collected(<<>>)'
<1> SUFFICES ASSUME sha256_init PROVE Collected(<<>>)'
  OBVIOUS
<1>1. BlockSize \in Nat \ {0} /\ Word \in Nat \ {0} /\ BlockBits = 8 * BlockSize
  BY SizeFacts
<1>2. /\ data' = [i \in Places |-> Uninitialized]
      /\ datalen' = 0 /\ lo' = 0 /\ hi' = 0
      /\ blocks' = <<>>
  BY DEF sha256_init
<1>3. 0 = Word * 0 + 0 /\ 0 \in 0 .. Word - 1
  BY <1>1
<1>4. 0 \div Word = 0 /\ 0 % Word = 0
  BY <1>1, <1>3, Quotient
<1>5. 0 * BlockBits = 0 /\ 0 * BlockSize = 0
  BY <1>1
<1>6. data' \in [Places -> Int] /\ datalen' \in Places
  BY <1>1, <1>2 DEF Places, Uninitialized
<1>7. Len(blocks') = 0 /\ Len(<<>>) = 0
  BY <1>2
<1>8. \A j \in 1 .. Len(blocks') : \A i \in Places :
         blocks'[j][i] = <<>>[(j - 1) * BlockSize + i + 1]
  BY <1>7
<1>9. \A i \in 0 .. datalen' - 1 : data'[i] = <<>>[Len(blocks') * BlockSize + i + 1]
  BY <1>2
<1>10. <<>> \in Seq(Int) /\ blocks' \in Seq([Places -> Int])
  BY <1>2
<1> QED BY <1>2, <1>4, <1>5, <1>6, <1>7, <1>8, <1>9, <1>10 DEF Collected

(* One turn of the loop of sha256_update collects one byte more.           *)
LEMMA CollectedGrows ==
  ASSUME NEW m, NEW byte \in Int, Collected(m), sha256_update(byte)
  PROVE  Collected(Append(m, byte))'
<1> DEFINE q == Len(blocks)
           b == q * BlockSize
           r == datalen
           n == Len(m)
           x == q * BlockBits
           a == Append(m, byte)
<1>1. BlockSize \in Nat \ {0}
  BY SizeFacts
<1>11. /\ Word \in Nat \ {0} /\ BlockBits < Word /\ BlockBits \in Nat /\ 1 < Word
  BY SizeFacts
<1>2. /\ m \in Seq(Int) /\ r \in Places /\ r \in 0 .. BlockSize - 1
      /\ blocks \in Seq([Places -> Int]) /\ data \in [Places -> Int]
      /\ q \in Nat /\ b \in Nat /\ n \in Nat /\ n = b + r
  BY <1>1 DEF Collected, Places
<1>12. lo = x % Word /\ hi = (x \div Word) % Word /\ x \in Nat
  <2>1. lo = x % Word /\ hi = (x \div Word) % Word
    BY DEF Collected
  <2>2. x \in Nat
    BY <1>11, <1>2
  <2> QED BY <2>1, <2>2
<1>3. /\ \A j \in 1 .. q : \A i \in Places : blocks[j][i] = m[(j - 1) * BlockSize + i + 1]
      /\ \A i \in 0 .. r - 1 : data[i] = m[b + i + 1]
  BY DEF Collected
<1>4. data' = [data EXCEPT ![r] = byte]
  BY DEF sha256_update
<1>5. /\ a \in Seq(Int) /\ Len(a) = n + 1 /\ a[n + 1] = byte
      /\ \A p \in 1 .. n : a[p] = m[p]
  BY <1>2
<1>6. data' \in [Places -> Int]
  BY <1>2, <1>4
<1>7. ASSUME NEW i \in 0 .. r PROVE data'[i] = a[b + i + 1]
  <2>1. CASE i = r
    <3>1. data'[i] = byte /\ b + i + 1 = n + 1
      BY <1>2, <1>4, <2>1
    <3> HIDE DEF a, b, n, r
    <3> QED BY <1>5, <3>1
  <2>2. CASE i # r
    <3> HIDE DEF b
    <3>1. i \in 0 .. r - 1 /\ i \in Places /\ b + i + 1 \in 1 .. n
      BY <1>1, <1>2, <2>2 DEF Places
    <3>2. data'[i] = data[i]
      BY <1>2, <1>4, <2>2, <3>1
    <3> HIDE DEF a, b, n, r
    <3> QED BY <1>3, <1>5, <3>1, <3>2
  <2> QED BY <2>1, <2>2
<1>8. ASSUME NEW j \in 1 .. q, NEW i \in Places
      PROVE  blocks[j][i] = a[(j - 1) * BlockSize + i + 1]
  <2>1. (j - 1) * BlockSize + BlockSize = j * BlockSize /\ j * BlockSize <= b
        /\ (j - 1) * BlockSize \in Nat
    <3>1. q \in Nat /\ j \in Nat \ {0} /\ j <= q
      BY <1>2
    <3> HIDE DEF q
    <3> QED BY <1>1, <3>1
  <2>4. i \in 0 .. BlockSize - 1
    BY DEF Places
  <2> DEFINE e == (j - 1) * BlockSize
             f == j * BlockSize
             p == e + i + 1
  <2>2. p \in 1 .. n
    <3>1. e + BlockSize = f /\ f <= b /\ e \in Nat
      BY <2>1
    <3> HIDE DEF e, f, b
    <3> QED BY <1>1, <1>2, <2>4, <3>1
  <2>3. blocks[j][i] = m[p]
    BY <1>3
  <2> HIDE DEF p, a, n
  <2> QED BY <1>5, <2>2, <2>3 DEF p
<1>9. CASE BlockFull(r + 1)
  <2>1. /\ r + 1 = BlockSize /\ datalen' = 0 /\ blocks' = Append(blocks, data')
        /\ lo' = (lo + BlockBits) % Word
        /\ hi' = (IF Overflowed(lo', BlockBits) THEN hi + 1 ELSE hi) % Word
    BY <1>9 DEF sha256_update, BlockFull
  <2>2. /\ blocks' \in Seq([Places -> Int]) /\ Len(blocks') = q + 1
        /\ \A j \in 1 .. q : blocks'[j] = blocks[j]
        /\ blocks'[q + 1] = data'
    BY <1>2, <1>6, <2>1
  <2>3. (q + 1) * BlockSize = b + BlockSize /\ (q + 1) * BlockBits = x + BlockBits
    BY <1>1, <1>11, <1>2
  <2>4. Len(a) = Len(blocks') * BlockSize + datalen'
    <3>1. Len(blocks') * BlockSize = b + BlockSize
      BY <2>2, <2>3
    <3> HIDE DEF b
    <3> QED BY <1>1, <1>2, <1>5, <2>1, <3>1
  <2>5. ASSUME NEW j \in 1 .. Len(blocks'), NEW i \in Places
        PROVE  blocks'[j][i] = a[(j - 1) * BlockSize + i + 1]
    <3>1. CASE j \in 1 .. q
      BY <1>8, <2>2, <3>1
    <3>2. CASE j = q + 1
      <4>2. j - 1 = q
        BY <1>2, <3>2
      <4>3. i \in 0 .. r
        BY <1>1, <1>2, <2>1 DEF Places
      <4>1. i \in 0 .. r /\ (j - 1) * BlockSize = b
        BY <4>2, <4>3
      <4> HIDE DEF a, b, r, q
      <4> QED BY <1>7, <2>2, <3>2, <4>1
    <3>3. q \in Nat /\ Len(blocks') = q + 1
      BY <1>2, <2>2
    <3> HIDE DEF a, q
    <3>4. j \in 1 .. q \/ j = q + 1
      BY <3>3
    <3> QED BY <3>1, <3>2, <3>4
  <2>6. \A i \in 0 .. datalen' - 1 : data'[i] = a[Len(blocks') * BlockSize + i + 1]
    BY <2>1
  <2>7. datalen' \in Places
    BY <1>1, <2>1 DEF Places
  <2> HIDE DEF x
  <2>8. /\ (lo + BlockBits) % Word = (x + BlockBits) % Word
        /\ Overflowed((x + BlockBits) % Word, BlockBits) <=> lo + BlockBits >= Word
        /\ (x + BlockBits) \div Word
           = (x \div Word) + (IF lo + BlockBits >= Word THEN 1 ELSE 0)
    BY <1>11, <1>12, Carry
  <2>9. x \div Word \in Nat
    BY <1>11, <1>12, Division
  <2>10. (hi + 1) % Word = ((x \div Word) + 1) % Word
    <3>1. 1 \in Nat
      OBVIOUS
    <3>2. (((x \div Word) % Word) + 1) % Word = ((x \div Word) + 1) % Word
      BY <1>11, <2>9, <3>1, Carry, Zenon
    <3> QED BY <1>12, <3>2
  <2>11. hi % Word = hi
    <3>1. hi \in 0 .. Word - 1
      BY <1>11, <1>12, <2>9, Division
    <3> QED BY <1>11, <3>1
  <2>12. hi' = ((x + BlockBits) \div Word) % Word
    <3>1. CASE lo + BlockBits >= Word
      <4>1. hi' = (hi + 1) % Word
        BY <2>1, <2>8, <3>1
      <4>2. (x + BlockBits) \div Word = (x \div Word) + 1
        BY <2>8, <3>1
      <4> QED BY <2>10, <4>1, <4>2
    <3>2. CASE ~(lo + BlockBits >= Word)
      <4>1. hi' = hi
        BY <2>1, <2>8, <2>11, <3>2
      <4>2. (x + BlockBits) \div Word = (x \div Word) + 0
        BY <2>8, <3>2
      <4> QED BY <1>12, <2>9, <4>1, <4>2
    <3> QED BY <3>1, <3>2
  <2>13. lo' = (Len(blocks') * BlockBits) % Word
         /\ hi' = ((Len(blocks') * BlockBits) \div Word) % Word
    BY <2>1, <2>2, <2>3, <2>8, <2>12
  <2> HIDE DEF a
  <2>14. a \in Seq(Int)
    BY <1>5
  <2>15. Collected(a)'
    BY <1>6, <2>2, <2>4, <2>5, <2>6, <2>7, <2>13, <2>14 DEF Collected
  <2> QED BY <2>15 DEF a
<1>10. CASE ~BlockFull(r + 1)
  <2>1. /\ r + 1 # BlockSize /\ datalen' = r + 1
        /\ blocks' = blocks /\ lo' = lo /\ hi' = hi
    BY <1>10 DEF sha256_update, BlockFull
  <2>2. datalen' \in Places /\ Len(a) = Len(blocks') * BlockSize + datalen'
    BY <1>1, <1>2, <1>5, <2>1 DEF Places
  <2>3. \A i \in 0 .. datalen' - 1 : data'[i] = a[Len(blocks') * BlockSize + i + 1]
    <3>1. (r + 1) - 1 = r
      BY <1>2
    <3> QED BY <1>7, <2>1, <3>1
  <2>4. \A j \in 1 .. Len(blocks') : \A i \in Places :
          blocks'[j][i] = a[(j - 1) * BlockSize + i + 1]
    BY <1>8, <2>1
  <2>5. lo' = (Len(blocks') * BlockBits) % Word
        /\ hi' = ((Len(blocks') * BlockBits) \div Word) % Word
        /\ blocks' \in Seq([Places -> Int])
    BY <1>2, <1>12, <2>1
  <2> HIDE DEF a
  <2>6. Collected(a)'
    BY <1>5, <1>6, <2>2, <2>3, <2>4, <2>5 DEF Collected
  <2> QED BY <2>6 DEF a
<1> QED BY <1>9, <1>10
(* Equal remainders of numbers that are not far apart.                     *)
LEMMA SameRemainder ==
  ASSUME NEW w \in Nat \ {0}, NEW x \in Nat, NEW y \in Nat,
         x % w = y % w, x < y + w, y < x + w
  PROVE  x = y
<1> DEFINE u == x \div w
           v == y \div w
           s == x % w
<1>1. u \in Nat /\ s \in 0 .. w - 1 /\ x = w * u + s
  BY Division
<1>2. v \in Nat /\ y = w * v + s
  BY Division
<1> HIDE DEF u, v, s
<1>3. ASSUME NEW k \in Nat, NEW l \in Nat, k < l PROVE w * k + w <= w * l
  <2>1. k + 1 <= l
    BY <1>3
  <2>2. w * (k + 1) <= w * l
    BY <2>1
  <2>3. w * (k + 1) = w * k + w
    OBVIOUS
  <2> QED BY <2>2, <2>3
<1>4. CASE u < v
  <2>1. w * u + w <= w * v
    BY <1>1, <1>2, <1>3, <1>4
  <2> DEFINE e == w * u
             f == w * v
  <2>2. e \in Nat /\ f \in Nat /\ e + w <= f /\ x = e + s /\ y = f + s
    BY <1>1, <1>2, <2>1
  <2> HIDE DEF e, f
  <2> QED BY <1>1, <2>2
<1>5. CASE v < u
  <2>1. w * v + w <= w * u
    BY <1>1, <1>2, <1>3, <1>5
  <2> DEFINE e == w * u
             f == w * v
  <2>2. e \in Nat /\ f \in Nat /\ f + w <= e /\ x = e + s /\ y = f + s
    BY <1>1, <1>2, <2>1
  <2> HIDE DEF e, f
  <2> QED BY <1>1, <2>2
<1>6. u = v \/ u < v \/ v < u
  BY <1>1, <1>2
<1>7. CASE u = v
  BY <1>1, <1>2, <1>7
<1> QED BY <1>4, <1>5, <1>6, <1>7

(* The fewest blocks that hold the message and its length.                 *)
LEMMA CountBounds ==
  ASSUME NEW n \in Nat
  PROVE  /\ Count(n) \in Nat /\ Count(n) * BlockSize \in Nat
         /\ n + 1 + 2 * WordBytes <= Count(n) * BlockSize
         /\ Count(n) * BlockSize < n + 1 + 2 * WordBytes + BlockSize
<1>1. BlockSize \in Nat \ {0} /\ WordBytes \in Nat \ {0}
  BY SizeFacts
<1> DEFINE x == n + 1 + 2 * WordBytes + BlockSize - 1
           c == x \div BlockSize
           e == BlockSize * c
           t == x % BlockSize
<1>2. x \in Nat /\ x = n + 1 + 2 * WordBytes + BlockSize - 1
  BY <1>1
<1>3. c \in Nat /\ t \in 0 .. BlockSize - 1 /\ x = e + t
  <2> HIDE DEF x
  <2> QED BY <1>1, <1>2, Division
<1>4. Count(n) = c /\ c * BlockSize = e
  <2>1. Count(n) = c
    BY DEF Count
  <2>2. c * BlockSize = e
    <3> HIDE DEF c
    <3> QED BY <1>1, <1>3
  <2> QED BY <2>1, <2>2
<1>5. e \in Nat
  <2> HIDE DEF c
  <2> QED BY <1>1, <1>3
<1> HIDE DEF x, c, e, t
<1>6. n + 1 + 2 * WordBytes <= e /\ e < n + 1 + 2 * WordBytes + BlockSize
  BY <1>1, <1>2, <1>3, <1>5
<1> QED BY <1>3, <1>4, <1>5, <1>6

(* Equal messages of blocks are equal byte by byte.                        *)
LEMMA SameBytes ==
  ASSUME NEW a, NEW b, NEW p, Len(a) \in Nat, Len(b) \in Nat,
         PaddedMessage(a) = PaddedMessage(b),
         p \in 0 .. Count(Len(a)) * BlockSize - 1
  PROVE  PaddedByte(a, p) = PaddedByte(b, p)
<1> DEFINE c == Count(Len(a))
           k == p \div BlockSize
           i == p % BlockSize
<1>1. BlockSize \in Nat \ {0}
  BY SizeFacts
<1>2. c \in Nat /\ c * BlockSize \in Nat
  BY CountBounds
<1>3. p \in Nat /\ p < c * BlockSize
  BY <1>2
<1>4. k \in Nat /\ i \in 0 .. BlockSize - 1 /\ p = BlockSize * k + i
  BY <1>1, <1>3, Division
<1> HIDE DEF c, k, i
<1>5. k < c
  <2> SUFFICES ASSUME c <= k PROVE FALSE
    BY <1>2, <1>4
  <2>1. BlockSize * c <= BlockSize * k
    BY <1>1, <1>2, <1>4
  <2>2. BlockSize * c = c * BlockSize
    BY <1>1, <1>2
  <2> DEFINE e == BlockSize * k
             f == c * BlockSize
  <2>3. f <= e /\ e \in Nat /\ f \in Nat /\ p < f /\ p = e + i
    BY <1>1, <1>2, <1>3, <1>4, <2>1, <2>2
  <2> HIDE DEF e, f
  <2> QED BY <1>4, <2>3
<1>6. k + 1 \in 1 .. c /\ i \in Places /\ ((k + 1) - 1) * BlockSize + i = p
  <2>1. (k + 1) - 1 = k /\ k * BlockSize = BlockSize * k
    BY <1>1, <1>4
  <2> QED BY <1>2, <1>4, <1>5, <2>1 DEF Places
<1>7. PaddedMessage(a)[k + 1][i] = PaddedByte(a, ((k + 1) - 1) * BlockSize + i)
  BY <1>6, PaddedIs DEF c
<1>8. Count(Len(b)) = c
  <2>1. DOMAIN PaddedMessage(a) = 1 .. c /\ DOMAIN PaddedMessage(b) = 1 .. Count(Len(b))
    BY PaddedIs DEF c
  <2>2. Count(Len(b)) \in Nat
    BY CountBounds
  <2>3. 1 .. c = 1 .. Count(Len(b))
    BY <2>1
  <2> QED BY <1>2, <2>2, <2>3
<1>9. PaddedMessage(b)[k + 1][i] = PaddedByte(b, ((k + 1) - 1) * BlockSize + i)
  BY <1>6, <1>8, PaddedIs
<1> QED BY <1>6, <1>7, <1>9

(* Different files have different padded messages, hence digests as long   *)
(* as the compression function does not collide: the length in the last    *)
(* block tells apart what the zeros would confuse.                         *)
THEOREM DigestsTellApart ==
  ASSUME NEW S, NEW a \in Seq(S), NEW b \in Seq(S), PaddedMessage(a) = PaddedMessage(b)
  PROVE  a = b
<1> DEFINE n == Len(a)
           k == Len(b)
           c == Count(n)
           z == c * BlockSize
<1>1. /\ BlockSize \in Nat \ {0} /\ WordBytes \in Nat \ {0} /\ 2 * WordBytes < BlockSize
      /\ Word \in Nat \ {0} /\ 8 * BlockSize < Word
  BY SizeFacts
<1>2. n \in Nat /\ k \in Nat
  OBVIOUS
<1>3. Count(k) = c
  <2>1. DOMAIN PaddedMessage(a) = 1 .. c /\ DOMAIN PaddedMessage(b) = 1 .. Count(k)
    BY PaddedIs
  <2>2. Count(k) \in Nat /\ c \in Nat
    BY <1>2, CountBounds
  <2>3. 1 .. c = 1 .. Count(k)
    BY <2>1
  <2> HIDE DEF c
  <2> QED BY <2>2, <2>3
<1>4. /\ z \in Nat /\ n + 1 + 2 * WordBytes <= z /\ z < n + 1 + 2 * WordBytes + BlockSize
      /\ k + 1 + 2 * WordBytes <= z /\ z < k + 1 + 2 * WordBytes + BlockSize
  BY <1>2, <1>3, CountBounds
<1>5. ASSUME NEW p \in 0 .. z - 1 PROVE PaddedByte(a, p) = PaddedByte(b, p)
  BY <1>2, <1>5, SameBytes
<1>6. ASSUME NEW p \in Nat
      PROVE  /\ PaddedByte(a, p) = IF p < n THEN a[p + 1]
                                   ELSE IF p = n THEN 128
                                   ELSE IF p < z - 2 * WordBytes THEN 0
                                   ELSE Digit(8 * n, Power256[z - 1 - p])
             /\ PaddedByte(b, p) = IF p < k THEN b[p + 1]
                                   ELSE IF p = k THEN 128
                                   ELSE IF p < z - 2 * WordBytes THEN 0
                                   ELSE Digit(8 * k, Power256[z - 1 - p])
  BY <1>3 DEF PaddedByte, Digit
<1> HIDE DEF n, k, c, z
<1>7. ASSUME NEW e \in 0 .. WordBytes - 1
      PROVE  ((8 * n) \div Power256[e]) % 256 = ((8 * k) \div Power256[e]) % 256
  <2> DEFINE p == z - 1 - e
  <2>1. /\ p \in 0 .. z - 1 /\ p \in Nat /\ z - 1 - p = e
        /\ ~(p < n) /\ p # n /\ ~(p < k) /\ p # k /\ ~(p < z - 2 * WordBytes)
    BY <1>1, <1>2, <1>4
  <2> HIDE DEF p
  <2>2. PaddedByte(a, p) = Digit(8 * n, Power256[e]) /\ PaddedByte(b, p) = Digit(8 * k, Power256[e])
    BY <1>6, <2>1
  <2>3. Digit(8 * n, Power256[e]) = Digit(8 * k, Power256[e])
    BY <1>5, <2>1, <2>2
  <2> QED BY <2>3 DEF Digit
<1>8. n = k
  <2> DEFINE x == 8 * n
             y == 8 * k
  <2>1. x \in Nat /\ y \in Nat /\ x < y + Word /\ y < x + Word
    BY <1>1, <1>2, <1>4
  <2>2. \A e \in 0 .. WordBytes - 1 : (x \div Power256[e]) % 256 = (y \div Power256[e]) % 256
    BY <1>7
  <2> HIDE DEF x, y
  <2>3. WordBytes \in Nat
    BY <1>1
  <2>4. x % Power256[WordBytes] = y % Power256[WordBytes]
    BY <2>1, <2>2, <2>3, BytesTell
  <2>5. x = y
    BY <1>1, <2>1, <2>4, SameRemainder DEF Word
  <2> QED BY <1>2, <2>5 DEF x, y
<1>9. ASSUME NEW i \in 1 .. n PROVE a[i] = b[i]
  <2> DEFINE p == i - 1
  <2>1. p \in 0 .. z - 1 /\ p \in Nat /\ p < n /\ p < k /\ p + 1 = i
    BY <1>1, <1>2, <1>4, <1>8
  <2> HIDE DEF p
  <2>2. PaddedByte(a, p) = a[i] /\ PaddedByte(b, p) = b[i]
    BY <1>6, <2>1
  <2> QED BY <1>5, <2>1, <2>2
<1> QED BY <1>8, <1>9 DEF n, k
----------------------------------------------------------------------------
(* The tools.                                                              *)

USE DEF found, checkVars, hashVars, onDisk, callVars

(* The end of the part that is walked over lies in the file, and the next  *)
(* chunk behind this one.                                                  *)
LEMMA WalkFacts ==
  ASSUME avi \in AVIFiles, pos \in Nat, NEW c \in ChunksAt(pos)
  PROVE  /\ pos + HeaderSize + PadEven(c.size) \in Nat
         /\ pos + HeaderSize <= riffEnd => pos + HeaderSize <= avi.size
         /\ c.kind # "junk" => c \in avi.chunks /\ c.at = pos
<1>1. /\ avi.size \in Nat /\ avi.riffSize \in Nat
      /\ \A d \in avi.chunks : d.size \in Nat
  BY AVICheckAssumption
<1>2. /\ c \in avi.chunks /\ c.at = pos
      \/ c \in [at : {pos}, kind : {"junk"}, size : 0 .. 3]
  <2>1. CASE {d \in avi.chunks : d.at = pos} # {}
    BY <2>1 DEF ChunksAt
  <2>2. CASE {d \in avi.chunks : d.at = pos} = {}
    BY <2>2 DEF ChunksAt
  <2> QED BY <2>1, <2>2
<1>3. c.size \in Nat
  BY <1>1, <1>2
<1>4. pos + HeaderSize + PadEven(c.size) \in Nat
  BY <1>3 DEF HeaderSize, PadEven
<1>5. pos + HeaderSize <= riffEnd => pos + HeaderSize <= avi.size
  BY <1>1 DEF riffEnd, SmallerOf, HeaderSize
<1>6. c.kind # "junk" => c \in avi.chunks /\ c.at = pos
  BY <1>2
<1> QED BY <1>4, <1>5, <1>6

(* A chunk is noted only when it lies in the file.                         *)
LEMMA ChunkKeeps ==
  ASSUME WalkInv, step = "walk", WalkChunk
  PROVE  /\ avi \in AVIFiles /\ avi' = avi /\ pos' \in Nat
         /\ hdrl' \in BOOLEAN /\ movi' \in BOOLEAN /\ index' \in BOOLEAN
         /\ hdrl' => HasChunk(avi, {"hdrl"})
         /\ movi' => HasChunk(avi, {"movi"})
         /\ index' => HasChunk(avi, {"idx1", "indx"})
<1>1. /\ avi \in AVIFiles /\ pos \in Nat /\ avi' = avi /\ pos + HeaderSize <= riffEnd
      /\ hdrl \in BOOLEAN /\ movi \in BOOLEAN /\ index \in BOOLEAN
      /\ hdrl => HasChunk(avi, {"hdrl"})
      /\ movi => HasChunk(avi, {"movi"})
      /\ index => HasChunk(avi, {"idx1", "indx"})
  BY DEF WalkInv, WalkChunk
<1>2. PICK c \in ChunksAt(pos) :
        \/ UNCHANGED <<pos, found>>
        \/ ListType(c) /\ pos' = pos + HeaderSize + PadEven(c.size)
        \/ OtherType(c) /\ pos' = pos + HeaderSize + PadEven(c.size)
  BY DEF WalkChunk
<1>3. /\ pos + HeaderSize + PadEven(c.size) \in Nat
      /\ c.kind # "junk" => c \in avi.chunks /\ c.at + HeaderSize <= avi.size
  BY <1>1, WalkFacts
<1>4. pos' \in Nat
  BY <1>1, <1>2, <1>3
<1>5. ASSUME NEW kinds, c.kind \in kinds, "junk" \notin kinds
      PROVE  HasChunk(avi, kinds)
  BY <1>3, <1>5 DEF HasChunk
<1>6. /\ hdrl' = hdrl \/ (hdrl' = TRUE /\ c.kind = "hdrl")
      /\ movi' = movi \/ (movi' = TRUE /\ c.kind = "movi")
      /\ index' = index \/ (index' = TRUE /\ c.kind \in {"idx1", "indx"})
  BY <1>2 DEF ListType, OtherType
<1>7. /\ c.kind = "hdrl" => HasChunk(avi, {"hdrl"})
      /\ c.kind = "movi" => HasChunk(avi, {"movi"})
      /\ c.kind \in {"idx1", "indx"} => HasChunk(avi, {"idx1", "indx"})
  BY <1>5
<1>8. hdrl' \in BOOLEAN /\ movi' \in BOOLEAN /\ index' \in BOOLEAN
  BY <1>1, <1>6
<1>9. /\ hdrl' => HasChunk(avi, {"hdrl"})
      /\ movi' => HasChunk(avi, {"movi"})
      /\ index' => HasChunk(avi, {"idx1", "indx"})
  BY <1>1, <1>6, <1>7
<1> QED BY <1>1, <1>4, <1>8, <1>9

LEMMA CheckKeeps ==
  ASSUME WalkInv, CheckSteps
  PROVE  WalkInv'
<1>1. CASE (\E as \in ArgLists : StartTool("check", as, FALSE)) \/ NothingFound \/ OnlyDirectories
           \/ CheckEnds
  BY <1>1 DEF StartTool, NothingFound, OnlyDirectories, CheckEnds, NextArg, WalkInv
<1>2. CASE CheckFile
  <2>1. PICK f \in AVIFiles : CheckOpens(f)
    BY <1>2 DEF CheckFile
  <2>2. avi' \in AVIFiles /\ pos' \in Nat
    BY <2>1 DEF CheckOpens
  <2>3. hdrl' = FALSE /\ movi' = FALSE /\ index' = FALSE
    BY <2>1 DEF CheckOpens, NothingYet
  <2> QED BY <2>2, <2>3 DEF WalkInv
<1>3. CASE Walk
  <2>1. step = "walk" /\ step' = "walk" /\ (WalkChunk \/ WalkEnds)
    BY <1>3 DEF Walk
  <2>2. CASE WalkChunk
    BY <2>1, <2>2, ChunkKeeps DEF WalkInv, HasChunk
  <2>3. CASE WalkEnds
    BY <2>1, <2>3 DEF WalkEnds, WalkInv, HasChunk
  <2> QED BY <2>1, <2>2, <2>3
<1>4. CASE ToolExits
  BY <1>4 DEF ToolExits, WalkInv
<1> QED BY <1>1, <1>2, <1>3, <1>4 DEF CheckSteps

LEMMA HashKeeps ==
  ASSUME WalkInv, HashSteps
  PROVE  WalkInv'
<1>1. CASE NotReadable \/ OpenFile \/ HashFile \/ VerifyFile
           \/ (\E t \in {"hash", "verify"}, as \in ArgLists, q \in BOOLEAN : StartTool(t, as, q))
  <2>1. step' \in {"next", "read"}
    BY <1>1 DEF NotReadable, OpenFile, HashFile, VerifyFile, StartTool, NextArg
  <2> QED BY <2>1 DEF WalkInv
<1>2. CASE ReadByte
  BY <1>2 DEF ReadByte, WalkInv
<1>3. CASE ToolExits
  BY <1>3 DEF ToolExits, WalkInv, HasChunk
<1>4. CASE \E f \in Files, c \in Contents \cup {NoFile} : UserChanges(f, c)
  BY <1>4 DEF UserChanges, WalkInv, HasChunk
<1> QED BY <1>1, <1>2, <1>3, <1>4 DEF HashSteps

(* What the invariant knows of the chunks of a file.                       *)
LEMMA ChunkFacts ==
  ASSUME NEW f \in AVIFiles, NEW c \in f.chunks
  PROVE  /\ f.size \in Nat /\ f.riffSize \in Nat
         /\ c.at \in Nat /\ c.at >= 12 /\ c.size \in Nat /\ c.frames \in Nat
         /\ c.entries \in Seq({"good", "bad", "other"})
         /\ EndOf(c) \in Nat /\ EndOf(c) = c.at + HeaderSize + PadEven(c.size)
         /\ c.at + HeaderSize <= EndOf(c)
<1>1. /\ f.size \in Nat /\ f.riffSize \in Nat
      /\ c.at \in Nat /\ c.at >= 12 /\ c.size \in Nat /\ c.frames \in Nat
      /\ c.entries \in Seq({"good", "bad", "other"})
  BY AVICheckAssumption
<1> DEFINE rest == c.size % 2
<1>2. rest \in 0 .. 1
  BY <1>1
<1>3. EndOf(c) = c.at + HeaderSize + c.size + rest /\ PadEven(c.size) = c.size + rest
  BY DEF EndOf, PadEven
<1> HIDE DEF rest
<1>5. /\ EndOf(c) \in Nat /\ EndOf(c) = c.at + HeaderSize + PadEven(c.size)
      /\ c.at + HeaderSize <= EndOf(c)
  <2> DEFINE stop == EndOf(c)
             padded == PadEven(c.size)
  <2>1. stop = c.at + HeaderSize + c.size + rest /\ padded = c.size + rest
    BY <1>3
  <2> HIDE DEF stop, padded
  <2>2. stop \in Nat /\ stop = c.at + HeaderSize + padded /\ c.at + HeaderSize <= stop
    <3>1. c.at \in Nat /\ c.size \in Nat /\ rest \in Nat
      BY <1>1, <1>2
    <3> QED BY <2>1, <3>1 DEF HeaderSize
  <2> QED BY <2>2 DEF stop, padded
<1> QED BY <1>1, <1>5

(* Behind the chunks that end before p there is one at p, and the others   *)
(* follow it.                                                              *)
LEMMA NoneSkipped ==
  ASSUME NEW f \in AVIFiles, Intact(f), NEW p \in Nat, p >= 12,
         \A c \in f.chunks : c.at < p => EndOf(c) <= p,
         NEW e \in f.chunks, e.at > p
  PROVE  \E c \in f.chunks : c.at = p /\ EndOf(c) <= e.at
<1> DEFINE Ats == {c.at : c \in {d \in f.chunks : d.at > p}}
<1>1. \A c \in f.chunks : c.at \in Nat /\ EndOf(c) \in Nat /\ c.at < EndOf(c)
  <2> SUFFICES ASSUME NEW c \in f.chunks PROVE c.at \in Nat /\ EndOf(c) \in Nat /\ c.at < EndOf(c)
    OBVIOUS
  <2> QED BY ChunkFacts DEF HeaderSize
<1>2. Ats \subseteq Nat /\ e.at \in Ats
  BY <1>1
<1>3. PICK x \in Ats : \A y \in Ats : x <= y
  BY <1>2, LeastOf
<1>4. PICK d \in f.chunks : d.at > p /\ d.at = x
  BY <1>3
<1>5. \A c \in f.chunks : c.at > p => d.at <= c.at
  BY <1>3, <1>4
<1>6. PICK c \in f.chunks : d.at = EndOf(c)
  <2>1. d.at # 12
    BY <1>1, <1>4
  <2>2. d.at = 12 \/ \E c \in f.chunks : d.at = EndOf(c)
    BY DEF Intact
  <2> QED BY <2>1, <2>2
<1>7. c.at = p
  <2>1. c.at < d.at
    BY <1>1, <1>6
  <2>2. ~(c.at > p)
    BY <1>1, <1>5, <2>1
  <2>3. ~(c.at < p)
    BY <1>1, <1>4, <1>6
  <2> QED BY <1>1, <2>2, <2>3
<1> QED BY <1>5, <1>6, <1>7

(* No more entries are read than an index has.                             *)
LEMMA ReadEntries ==
  ASSUME avi \in AVIFiles, pos \in Nat, pos + HeaderSize <= avi.size, NEW c \in avi.chunks
  PROVE  /\ EntriesRead(c) \in 0 .. Len(c.entries) /\ Len(c.entries) \in Nat
         /\ DOMAIN c.entries = 1 .. Len(c.entries)
<1> DEFINE there == (avi.size - (pos + HeaderSize)) \div EntrySize
           batches == there \div Batch
<1>1. /\ avi.size \in Nat /\ c.entries \in Seq({"good", "bad", "other"})
      /\ Batch \in Nat \ {0}
  BY ChunkFacts, AVICheckAssumption
<1>2. Len(c.entries) \in Nat /\ DOMAIN c.entries = 1 .. Len(c.entries)
  BY <1>1, LenProperties
<1>3. there \in Nat
  <2>1. avi.size - (pos + HeaderSize) \in Nat /\ EntrySize \in Nat \ {0}
    BY <1>1 DEF HeaderSize, EntrySize
  <2> QED BY <2>1, Division
<1> HIDE DEF there
<1>4. batches \in Nat /\ there % Batch \in Nat /\ there = Batch * batches + (there % Batch)
  <2>1. /\ batches \in Nat /\ there % Batch \in 0 .. Batch - 1
        /\ there = Batch * batches + (there % Batch)
    BY <1>1, <1>3, Division, Zenon
  <2> QED BY <1>1, <2>1
<1> HIDE DEF batches
<1>5. Batch * batches \in Nat
  BY <1>1, <1>4
<1>6. EntriesRead(c) \in 0 .. Len(c.entries)
  <2>1. CASE there >= Len(c.entries)
    BY <1>2, <2>1 DEF EntriesRead, there
  <2>2. CASE ~(there >= Len(c.entries))
    <3> DEFINE read == Batch * batches
               rest == there % Batch
    <3>1. EntriesRead(c) = read
      BY <2>2 DEF EntriesRead, there, batches
    <3>2. read \in Nat /\ rest \in Nat /\ there = read + rest
      BY <1>4, <1>5
    <3> HIDE DEF read, rest
    <3> QED BY <1>2, <1>3, <2>2, <3>1, <3>2
  <2> QED BY <2>1, <2>2
<1> QED BY <1>2, <1>6

(* Of an index without bad entries none are counted.                       *)
LEMMA NoDefects ==
  ASSUME avi \in AVIFiles, pos \in Nat, pos + HeaderSize <= avi.size, NEW c \in avi.chunks,
         \A i \in DOMAIN c.entries : c.entries[i] # "bad"
  PROVE  NumberOf(c, {"bad"}) = 0
<1>1. {i \in 1 .. EntriesRead(c) : c.entries[i] \in {"bad"}} = {}
  <2> SUFFICES ASSUME NEW i \in 1 .. EntriesRead(c) PROVE c.entries[i] # "bad"
    OBVIOUS
  <2>1. i \in DOMAIN c.entries
    BY ReadEntries
  <2> QED BY <2>1
<1> QED BY <1>1, FS_EmptySet DEF NumberOf

(* Of an intact file the walk reads the type of each list.                 *)
LEMMA ChunkNoted ==
  ASSUME avi \in AVIFiles, pos \in Nat, Intact(avi), pos + HeaderSize <= avi.size,
         NEW c \in avi.chunks, c.at = pos,
         frames \in Nat, defects = 0,
         \/ /\ c.kind \in {"hdrl", "movi"} /\ ~CanRead(pos, HeaderSize + ListTypeSize)
         \/ /\ c.kind \in {"hdrl", "movi"} /\ CanRead(pos, HeaderSize + ListTypeSize)
            /\ ListType(c)
         \/ OtherType(c)
  PROVE  /\ frames' \in Nat /\ defects' = 0
         /\ c.kind \in {"hdrl", "movi"} => CanRead(pos, HeaderSize + ListTypeSize)
         /\ c.kind = "hdrl" => hdrl' /\ frames' > 0
         /\ c.kind = "movi" => movi'
         /\ c.kind \in {"idx1", "indx"} => index'
         /\ frames > 0 => frames' > 0
         /\ hdrl => hdrl'
         /\ movi => movi'
         /\ index => index'
<1>1. /\ avi.size \in Nat /\ c.size \in Nat /\ c.frames \in Nat
      /\ EndOf(c) = pos + HeaderSize + PadEven(c.size)
  BY ChunkFacts
<1>2. /\ EndOf(c) <= avi.size /\ c.size >= Smallest(c.kind)
      /\ c.kind = "hdrl" => c.frames > 0
      /\ \A i \in DOMAIN c.entries : c.entries[i] # "bad"
  BY DEF Intact
<1>3. pos + HeaderSize + c.size <= avi.size
  BY <1>1, <1>2 DEF EndOf, HeaderSize, PadEven
<1>4. /\ c.kind \in {"hdrl", "movi"} => CanRead(pos, HeaderSize + ListTypeSize)
      /\ c.kind = "hdrl" => CanRead(pos, HeaderSize + ListTypeSize + HeaderSize + AvihSize)
  BY <1>1, <1>2, <1>3 DEF Smallest, CanRead, HeaderSize, ListTypeSize, AvihSize
<1>5. CASE ListType(c) /\ c.kind = "hdrl"
  BY <1>1, <1>2, <1>4, <1>5 DEF ListType
<1>6. CASE ListType(c) /\ c.kind = "movi"
  BY <1>4, <1>6 DEF ListType
<1>7. CASE OtherType(c) /\ c.kind = "idx1"
  BY <1>2, <1>7, NoDefects DEF OtherType
<1>8. CASE OtherType(c) /\ c.kind # "idx1"
  BY <1>8 DEF OtherType
<1> QED BY <1>4, <1>5, <1>6, <1>7, <1>8

(* The next chunk of an intact file is the one behind this.                *)
LEMMA PassedKept ==
  ASSUME WalkInv, PassedInv, step = "walk", Intact(avi), WalkChunk
  PROVE  /\ pos' \in Nat /\ pos' >= 12 /\ frames' \in Nat /\ defects' = 0
         /\ \A c \in avi.chunks : c.at < pos' => EndOf(c) <= pos' /\ Noted(c)'
         /\ walking'
<1>1. /\ avi \in AVIFiles /\ pos \in Nat /\ pos >= 12 /\ walking
      /\ frames \in Nat /\ defects = 0 /\ pos + HeaderSize <= riffEnd
      /\ \A c \in avi.chunks : c.at < pos => EndOf(c) <= pos /\ Noted(c)
  BY DEF WalkInv, PassedInv, WalkChunk
<1>2. PICK c \in ChunksAt(pos) :
       \/ /\ c.kind \in {"hdrl", "movi"} /\ ~CanRead(pos, HeaderSize + ListTypeSize)
       \/ /\ c.kind \in {"hdrl", "movi"} /\ CanRead(pos, HeaderSize + ListTypeSize)
          /\ ListType(c)
          /\ pos' = pos + HeaderSize + PadEven(c.size)
          /\ UNCHANGED walking
       \/ /\ OtherType(c)
          /\ pos' = pos + HeaderSize + PadEven(c.size)
          /\ UNCHANGED walking
  BY DEF WalkChunk
<1>3. /\ pos + HeaderSize + PadEven(c.size) \in Nat /\ pos + HeaderSize <= avi.size
  BY <1>1, WalkFacts
<1>4. CASE {d \in avi.chunks : d.at = pos} # {}
  <2>1. c \in avi.chunks /\ c.at = pos
    BY <1>4 DEF ChunksAt
  <2>2. /\ frames' \in Nat /\ defects' = 0
        /\ c.kind \in {"hdrl", "movi"} => CanRead(pos, HeaderSize + ListTypeSize)
        /\ c.kind = "hdrl" => hdrl' /\ frames' > 0
        /\ c.kind = "movi" => movi'
        /\ c.kind \in {"idx1", "indx"} => index'
        /\ frames > 0 => frames' > 0
        /\ hdrl => hdrl'
        /\ movi => movi'
        /\ index => index'
    BY <1>1, <1>2, <1>3, <2>1, ChunkNoted
  <2>3. pos' = EndOf(c) /\ pos' \in Nat /\ pos' > pos /\ walking'
    <3>1. pos' = pos + HeaderSize + PadEven(c.size) /\ walking' = walking
      BY <1>2, <2>2
    <3>2. EndOf(c) \in Nat /\ EndOf(c) = pos + HeaderSize + PadEven(c.size) /\ pos + HeaderSize <= EndOf(c)
      BY <1>1, <2>1, ChunkFacts
    <3> QED BY <1>1, <3>1, <3>2 DEF HeaderSize
  <2>4. ASSUME NEW d \in avi.chunks, d.at < pos' PROVE EndOf(d) <= pos' /\ Noted(d)'
    <3>1. d.at \in Nat /\ EndOf(d) \in Nat
      BY <1>1, ChunkFacts
    <3>2. CASE d.at < pos
      BY <1>1, <2>2, <2>3, <3>1, <3>2 DEF Noted
    <3>3. CASE d.at = pos
      <4>1. d = c
        BY <2>1, <3>3 DEF Intact
      <4> QED BY <2>2, <2>3, <4>1, <3>1 DEF Noted
    <3>4. CASE d.at > pos
      <4>1. PICK b \in avi.chunks : b.at = pos /\ EndOf(b) <= d.at
        BY <1>1, <3>4, NoneSkipped
      <4>2. b = c
        BY <2>1, <4>1 DEF Intact
      <4> QED BY <2>3, <2>4, <3>1, <4>1, <4>2
    <3> QED BY <1>1, <3>1, <3>2, <3>3, <3>4
  <2> QED BY <1>1, <2>2, <2>3, <2>4
<1>5. CASE {d \in avi.chunks : d.at = pos} = {}
  <2>1. c \in [at : {pos}, kind : {"junk"}, size : 0 .. 3]
    BY <1>5 DEF ChunksAt
  <2>2. UNCHANGED found /\ UNCHANGED walking /\ pos' = pos + HeaderSize + PadEven(c.size)
    BY <1>2, <2>1 DEF OtherType
  <2>3. pos' \in Nat /\ pos' > pos
    BY <1>1, <2>1, <2>2 DEF HeaderSize, PadEven
  <2>4. ASSUME NEW d \in avi.chunks PROVE d.at < pos /\ EndOf(d) \in Nat
    <3>1. d.at \in Nat /\ EndOf(d) \in Nat
      BY <1>1, ChunkFacts
    <3>2. d.at # pos
      BY <1>5
    <3>3. ~(d.at > pos)
      BY <1>1, <1>5, NoneSkipped
    <3> QED BY <1>1, <3>1, <3>2, <3>3
  <2> QED BY <1>1, <2>2, <2>3, <2>4 DEF Noted
<1> QED BY <1>4, <1>5

LEMMA CheckPasses ==
  ASSUME WalkInv, PassedInv, CheckSteps
  PROVE  PassedInv'
<1>1. CASE (\E as \in ArgLists : StartTool("check", as, FALSE)) \/ NothingFound \/ OnlyDirectories
           \/ CheckEnds
  BY <1>1 DEF StartTool, NothingFound, OnlyDirectories, CheckEnds, NextArg, PassedInv
<1>2. CASE CheckFile
  <2>1. PICK f \in AVIFiles : CheckOpens(f)
    BY <1>2 DEF CheckFile
  <2>2. /\ avi' = f /\ pos' = 12 /\ frames' = 0 /\ defects' = 0
        /\ walking' = (f.size >= 12)
    BY <2>1 DEF CheckOpens, NothingYet
  <2>3. \A c \in f.chunks : ~(c.at < 12)
    <3> SUFFICES ASSUME NEW c \in f.chunks PROVE ~(c.at < 12)
      OBVIOUS
    <3> QED BY ChunkFacts
  <2>4. f.size \in Nat
    BY AVICheckAssumption
  <2>5. 12 >= 12 /\ 0 \in Nat /\ (~(f.size >= 12) => 12 + HeaderSize > f.size)
    BY <2>4 DEF HeaderSize
  <2> QED BY <2>2, <2>3, <2>5 DEF PassedInv
<1>3. CASE Walk
  <2> SUFFICES ASSUME step' = "walk", Intact(avi)' PROVE PassedInv'
    BY DEF PassedInv
  <2>1. step = "walk" /\ step' = "walk" /\ (WalkChunk \/ WalkEnds) /\ avi' = avi
    BY <1>3 DEF Walk, WalkChunk, WalkEnds
  <2>2. Intact(avi)
    BY <2>1 DEF Intact, HasChunk
  <2>3. CASE WalkChunk
    BY <2>1, <2>2, <2>3, PassedKept DEF PassedInv
  <2>4. CASE WalkEnds
    <3>1. pos + HeaderSize > riffEnd /\ UNCHANGED <<avi, pos, found>>
      BY <2>4 DEF WalkEnds
    <3>2. avi.size \in Nat /\ avi.riffSize \in Nat /\ avi.riffSize + HeaderSize = avi.size
      BY <2>1, <2>2, AVICheckAssumption DEF WalkInv, Intact
    <3>3. riffEnd = avi.size
      BY <3>2 DEF riffEnd, SmallerOf, HeaderSize
    <3> QED BY <2>1, <2>2, <3>1, <3>3 DEF PassedInv, Noted
  <2> QED BY <2>1, <2>3, <2>4
<1>4. CASE ToolExits
  BY <1>4 DEF ToolExits, PassedInv
<1> QED BY <1>1, <1>2, <1>3, <1>4 DEF CheckSteps

LEMMA HashPasses ==
  ASSUME PassedInv, HashSteps
  PROVE  PassedInv'
<1>1. CASE NotReadable \/ OpenFile \/ HashFile \/ VerifyFile
           \/ (\E t \in {"hash", "verify"}, as \in ArgLists, q \in BOOLEAN : StartTool(t, as, q))
  <2>1. step' \in {"next", "read"}
    BY <1>1 DEF NotReadable, OpenFile, HashFile, VerifyFile, StartTool, NextArg
  <2> QED BY <2>1 DEF PassedInv
<1>2. CASE ReadByte
  BY <1>2 DEF ReadByte, PassedInv
<1>3. CASE ToolExits
  BY <1>3 DEF ToolExits, PassedInv
<1>4. CASE \E f \in Files, c \in Contents \cup {NoFile} : UserChanges(f, c)
  BY <1>4 DEF UserChanges, PassedInv, Intact, HasChunk, Noted
<1> QED BY <1>1, <1>2, <1>3, <1>4 DEF HashSteps

(* At the end of the walk over an intact file everything has been noted.   *)
LEMMA IntactPassed == WalkInv /\ PassedInv => IntactPasses
<1> SUFFICES ASSUME WalkInv, PassedInv, step = "walk", ~walking, Intact(avi) PROVE CheckPassed
  BY DEF IntactPasses
<1>1. /\ avi \in AVIFiles /\ pos \in Nat
      /\ frames \in Nat /\ defects = 0 /\ pos + HeaderSize > avi.size
      /\ \A c \in avi.chunks : c.at < pos => EndOf(c) <= pos /\ Noted(c)
  BY DEF WalkInv, PassedInv
<1>2. ASSUME NEW c \in avi.chunks PROVE Noted(c)
  <2>1. /\ avi.size \in Nat /\ c.at \in Nat /\ EndOf(c) \in Nat
        /\ c.at + HeaderSize <= EndOf(c)
    BY <1>1, ChunkFacts
  <2>2. EndOf(c) <= avi.size
    BY DEF Intact
  <2>3. c.at < pos
    BY <1>1, <2>1, <2>2 DEF HeaderSize
  <2> QED BY <1>1, <2>3
<1>3. /\ \E c \in avi.chunks : c.kind = "hdrl"
      /\ \E c \in avi.chunks : c.kind = "movi"
      /\ \E c \in avi.chunks : c.kind = "idx1"
  BY DEF Intact, HasChunk
<1>4. hdrl /\ frames > 0 /\ movi /\ index
  BY <1>2, <1>3 DEF Noted
<1> QED BY <1>1, <1>4 DEF CheckPassed, FrameCount

(* The part of a file that is read, and the next byte.                     *)
LEMMA OneMoreByte ==
  ASSUME NEW S, NEW s \in Seq(S), NEW k \in 0 .. Len(s) - 1
  PROVE  /\ SubSeq(s, 1, k) \in Seq(S) /\ s[k + 1] \in S
         /\ SubSeq(s, 1, k + 1) = Append(SubSeq(s, 1, k), s[k + 1])
<1>1. k + 1 \in 1 .. Len(s) /\ k \in Nat
  OBVIOUS
<1>2. SubSeq(s, 1, k) \in Seq(S) /\ Len(SubSeq(s, 1, k)) = k
      /\ \A i \in 1 .. k : SubSeq(s, 1, k)[i] = s[i]
  BY <1>1
<1> QED BY <1>1, <1>2

LEMMA Beginning ==
  ASSUME NEW S, NEW s \in Seq(S), NEW k \in 0 .. Len(s)
  PROVE  SubSeq(s, 1, k) \in Seq(S)
<1>1. \A i \in 1 .. k : i \in 1 .. Len(s)
  OBVIOUS
<1> QED BY <1>1

(* The file in hand and its bytes.                                         *)
LEMMA FileFacts ==
  ASSUME SidecarInv, args # <<>>
  PROVE  /\ file \in Files
         /\ content[file] # NoFile => content[file] \in Seq(0 .. 255)
<1>1. file \in Files
  BY DEF SidecarInv, file
<1> QED BY <1>1, ToolsAssumption DEF SidecarInv

LEMMA ReadFacts ==
  ASSUME SidecarInv, ReadInv, step = "read"
  PROVE  /\ file \in Files /\ content[file] \in Seq(0 .. 255)
         /\ bytesRead \in Seq(0 .. 255) /\ Digest = PaddedMessage(bytesRead)
<1>1. /\ args # <<>> /\ content[file] # NoFile /\ place \in 0 .. Len(content[file])
      /\ Collected(bytesRead)
  BY DEF ReadInv
<1>2. file \in Files /\ content[file] \in Seq(0 .. 255)
  BY <1>1, FileFacts
<1>3. bytesRead \in Seq(0 .. 255)
  <2> DEFINE c == content[file]
  <2>1. c \in Seq(0 .. 255) /\ place \in 0 .. Len(c)
    BY <1>1, <1>2
  <2> HIDE DEF c
  <2>2. SubSeq(c, 1, place) \in Seq(0 .. 255)
    BY <2>1, Beginning
  <2> QED BY <2>2 DEF bytesRead, c
<1>4. Digest = PaddedMessage(bytesRead)
  <2> HIDE DEF bytesRead
  <2> QED BY <1>1, DigestIsPadded
<1> QED BY <1>2, <1>3, <1>4

(* A step that reads nothing and writes no sidecar.                        *)
LEMMA ReadStays ==
  ASSUME ReadInv,
         step' = "read" => UNCHANGED <<tool, args, step, place, content, sidecar, hashVars>>
  PROVE  ReadInv'
<1> SUFFICES ASSUME step' = "read" PROVE ReadInv'
  BY DEF ReadInv
<1>1. UNCHANGED <<tool, args, step, place, content, sidecar, data, datalen, lo, hi, blocks>>
  OBVIOUS
<1>2. UNCHANGED <<file, bytesRead>>
  BY <1>1 DEF file, bytesRead
<1> QED BY <1>1, <1>2 DEF ReadInv, Collected

LEMMA ArgsBehind ==
  ASSUME SidecarInv, args # <<>>
  PROVE  Tail(args) \in Seq(Files)
BY DEF SidecarInv

LEMMA ArgsGiven == ArgLists \subseteq Seq(Files)
BY DEF ArgLists

LEMMA ReadStarts == ASSUME SidecarInv, OpenFile PROVE ReadInv' /\ SidecarInv'
<1>1. /\ tool \in {"hash", "verify"} /\ args # <<>> /\ content[file] # NoFile
      /\ tool = "verify" => sidecar[file] # NoFile
      /\ sha256_init /\ step' = "read" /\ place' = 0
      /\ UNCHANGED <<content, sidecar, hashed, tool, args>>
  BY DEF OpenFile
<1>2. SidecarInv'
  BY <1>1 DEF SidecarInv
<1>3. file' = file /\ file \in Files /\ content[file] \in Seq(0 .. 255)
  BY <1>1, FileFacts DEF file
<1>4. bytesRead' = <<>> /\ Len(content[file]) \in Nat
  BY <1>1, <1>3 DEF bytesRead
<1>5. Collected(<<>>)'
  BY <1>1, CollectedStarts
<1>6. Collected(bytesRead)'
  BY <1>4, <1>5
<1> QED BY <1>1, <1>2, <1>3, <1>4, <1>6 DEF ReadInv

LEMMA ReadGoesOn == ASSUME SidecarInv, ReadInv, ReadByte PROVE ReadInv' /\ SidecarInv'
<1> DEFINE c == content[file]
           m == SubSeq(c, 1, place)
           byte == c[place + 1]
<1>1. /\ step = "read" /\ place < Len(content[file])
      /\ sha256_update(content[file][place + 1]) /\ place' = place + 1
      /\ UNCHANGED <<content, sidecar, hashed, tool, args, step>>
  BY DEF ReadByte
<1>2. SidecarInv'
  BY <1>1 DEF SidecarInv
<1>3. /\ tool \in {"hash", "verify"} /\ args # <<>> /\ content[file] # NoFile
      /\ place \in 0 .. Len(content[file]) /\ Collected(bytesRead)
      /\ tool = "verify" => sidecar[file] # NoFile
  BY <1>1 DEF ReadInv
<1>4. file' = file /\ file \in Files /\ content[file] \in Seq(0 .. 255)
  BY <1>1, <1>3, FileFacts DEF file
<1>5. bytesRead = m /\ bytesRead' = SubSeq(c, 1, place + 1)
  BY <1>1, <1>4 DEF bytesRead
<1>6. c \in Seq(0 .. 255) /\ place \in 0 .. Len(c) - 1
  BY <1>1, <1>3, <1>4
<1>7. sha256_update(byte)
  BY <1>1
<1> HIDE DEF c
<1>8. m \in Seq(0 .. 255) /\ byte \in 0 .. 255 /\ bytesRead' = Append(m, byte)
  BY <1>5, <1>6, OneMoreByte
<1>9. Collected(m)
  BY <1>3, <1>5
<1> HIDE DEF m, byte
<1>10. PICK x : x = m
  OBVIOUS
<1>11. PICK y \in Int : y = byte
  BY <1>8
<1>12. Collected(x) /\ sha256_update(y) /\ bytesRead' = Append(x, y)
  BY <1>7, <1>8, <1>9, <1>10, <1>11
<1>13. Collected(Append(x, y))'
  BY <1>12, CollectedGrows
<1>14. Collected(bytesRead)'
  BY <1>12, <1>13
<1>15. place' \in 0 .. Len(content[file])'
  BY <1>1, <1>4, <1>6 DEF c
<1> QED BY <1>1, <1>2, <1>3, <1>4, <1>14, <1>15 DEF ReadInv

(* hash writes the digest of what it has read.                             *)
LEMMA HashFileKeeps == ASSUME SidecarInv, ReadInv, HashFile PROVE ReadInv' /\ SidecarInv'
<1>1. /\ step = "read" /\ step' = "next" /\ args' = Tail(args) /\ UNCHANGED content
      /\ \/ /\ sidecar' = [sidecar EXCEPT ![file] = Digest]
            /\ hashed' = [hashed EXCEPT ![file] = bytesRead]
         \/ UNCHANGED <<sidecar, hashed>>
  BY DEF HashFile, LoopEnds, NextArg
<1>2. args # <<>>
  BY <1>1 DEF ReadInv
<1>3. args' \in Seq(Files)
  BY <1>1, <1>2, ArgsBehind
<1>4. CASE UNCHANGED <<sidecar, hashed>>
  BY <1>1, <1>3, <1>4 DEF SidecarInv, ReadInv
<1>5. CASE /\ sidecar' = [sidecar EXCEPT ![file] = Digest]
           /\ hashed' = [hashed EXCEPT ![file] = bytesRead]
  <2> DEFINE m == bytesRead
             h == file
             d == Digest
  <2>1. h \in Files /\ m \in Seq(0 .. 255) /\ d = PaddedMessage(m)
    BY <1>1, ReadFacts
  <2>2. sidecar' = [sidecar EXCEPT ![h] = d] /\ hashed' = [hashed EXCEPT ![h] = m]
    BY <1>5
  <2> HIDE DEF m, h, d
  <2>3. ASSUME NEW f \in Files, sidecar'[f] # NoFile
        PROVE  hashed'[f] \in Seq(0 .. 255) /\ sidecar'[f] = PaddedMessage(hashed'[f])
    <3>1. sidecar = [e \in Files |-> sidecar[e]] /\ hashed = [e \in Files |-> hashed[e]]
      BY DEF SidecarInv
    <3>2. CASE f = h
      <4>1. sidecar'[f] = d /\ hashed'[f] = m
        BY <2>2, <3>1, <3>2
      <4> QED BY <2>1, <4>1
    <3>3. CASE f # h
      <4>1. sidecar'[f] = sidecar[f] /\ hashed'[f] = hashed[f]
        BY <2>2, <3>1, <3>3
      <4> QED BY <2>3, <4>1 DEF SidecarInv
    <3> QED BY <3>2, <3>3
  <2>4. sidecar' = [f \in Files |-> sidecar'[f]] /\ hashed' = [f \in Files |-> hashed'[f]]
    BY <2>2 DEF SidecarInv
  <2>5. content' \in [Files -> Contents \cup {NoFile}]
    BY <1>1 DEF SidecarInv
  <2>6. SidecarInv'
    BY <1>1, <1>3, <2>3, <2>4, <2>5 DEF SidecarInv
  <2> QED BY <1>1, <2>6 DEF ReadInv
<1> QED BY <1>1, <1>4, <1>5

(* verify compares digests, and with them the bytes.                       *)
LEMMA VerifyTells ==
  ASSUME SidecarInv, ReadInv, VerifyFile
  PROVE  Digest = sidecar[file] <=> bytesRead = hashed[file]
<1>1. step = "read" /\ tool = "verify"
  BY DEF VerifyFile, LoopEnds
<1>2. sidecar[file] # NoFile
  BY <1>1 DEF ReadInv
<1> DEFINE m == bytesRead
           h == hashed[file]
<1>3. file \in Files /\ m \in Seq(0 .. 255) /\ Digest = PaddedMessage(m)
  BY <1>1, ReadFacts
<1>4. h \in Seq(0 .. 255) /\ sidecar[file] = PaddedMessage(h)
  BY <1>2, <1>3 DEF SidecarInv
<1> HIDE DEF m, h
<1>5. PaddedMessage(m) = PaddedMessage(h) <=> m = h
  BY <1>3, <1>4, DigestsTellApart
<1> QED BY <1>3, <1>4, <1>5 DEF m, h

LEMMA SidecarsKept ==
  ASSUME SidecarInv, ReadInv, CheckSteps \/ HashSteps
  PROVE  SidecarInv' /\ ReadInv'
<1>1. ASSUME UNCHANGED <<content, sidecar, hashed>>, args' \in Seq(Files), step' = "next"
      PROVE  SidecarInv' /\ ReadInv'
  BY <1>1 DEF SidecarInv, ReadInv
<1>2. CASE NotReadable \/ NothingFound \/ OnlyDirectories \/ CheckEnds \/ VerifyFile
  <2>1. /\ args' = Tail(args) /\ step' = "next" /\ UNCHANGED <<content, sidecar, hashed>>
    BY <1>2 DEF NotReadable, NothingFound, OnlyDirectories, CheckEnds, VerifyFile, LoopEnds,
                NextArg
  <2>2. args # <<>>
    BY <1>2, <2>1 DEF SidecarInv, ReadInv, NotReadable, NothingFound, OnlyDirectories,
                     CheckEnds, VerifyFile, LoopEnds
  <2>3. args' \in Seq(Files)
    BY <2>1, <2>2, ArgsBehind
  <2> QED BY <1>1, <2>1, <2>3
<1>3. CASE OpenFile
  BY <1>3, ReadStarts
<1>4. CASE ReadByte
  BY <1>4, ReadGoesOn
<1>5. CASE HashFile
  BY <1>5, HashFileKeeps
<1>6. CASE (\E as \in ArgLists : StartTool("check", as, FALSE))
           \/ (\E t \in {"hash", "verify"}, as \in ArgLists, q \in BOOLEAN : StartTool(t, as, q))
  <2>1. args' \in ArgLists /\ step' = "next" /\ UNCHANGED <<content, sidecar, hashed>>
    BY <1>6 DEF StartTool
  <2> QED BY <1>1, <2>1, ArgsGiven
<1>7. CASE ToolExits \/ CheckFile \/ Walk
  <2>1. /\ UNCHANGED <<content, sidecar, hashed, args>> /\ step' # "read"
        /\ step' = "walk" => step = "walk" \/ args # <<>>
    BY <1>7 DEF ToolExits, CheckFile, Walk
  <2> QED BY <2>1 DEF SidecarInv, ReadInv
<1>8. CASE \E f \in Files, c \in Contents \cup {NoFile} : UserChanges(f, c)
  <2>1. PICK f \in Files, c \in Contents \cup {NoFile} : UserChanges(f, c)
    BY <1>8
  <2>2. /\ content' = [content EXCEPT ![f] = c] /\ UNCHANGED <<sidecar, hashed, args, step>>
        /\ tool = "none"
    BY <2>1 DEF UserChanges
  <2>3. step' # "read"
    BY <2>2 DEF ReadInv
  <2>4. content' \in [Files -> Contents \cup {NoFile}]
    BY <2>2 DEF SidecarInv
  <2> QED BY <2>2, <2>3, <2>4 DEF SidecarInv, ReadInv
<1> QED BY <1>2, <1>3, <1>4, <1>5, <1>6, <1>7, <1>8 DEF CheckSteps, HashSteps

(* Whatever raises the code has found something not in order.              *)
LEMMA CodeKept ==
  ASSUME CodeInv, SidecarInv, ReadInv, CheckSteps \/ HashSteps
  PROVE  CodeInv'
<1>1. /\ exitCode \in 0 .. 2
      /\ tool = "none" => exitCode = 0 /\ ~bad
      /\ exitCode = 0 <=> ~bad
  BY DEF CodeInv
<1>2. step' = "walk" => tool' = "check"
  <2>1. \/ step' # "walk"
        \/ step' = step /\ tool' = tool
        \/ tool = "check" /\ tool' = "check"
    BY DEF CheckSteps, HashSteps, NotReadable, OpenFile, ReadByte, HashFile, VerifyFile,
           StartTool, NothingFound, OnlyDirectories, CheckFile, Walk, CheckEnds, ToolExits,
           UserChanges, NextArg
  <2> QED BY <2>1 DEF CodeInv
<1>3. ASSUME UNCHANGED <<tool, exitCode, bad>> \/ (exitCode' = 0 /\ bad' = FALSE)
      PROVE  CodeInv'
  BY <1>1, <1>2, <1>3 DEF CodeInv
<1>4. ASSUME tool # "none", UNCHANGED tool, exitCode' \in 1 .. 2, bad' = TRUE
      PROVE  CodeInv'
  BY <1>2, <1>4 DEF CodeInv
<1>5. CASE NotReadable \/ NothingFound
  <2>1. tool # "none" /\ UNCHANGED tool /\ bad' = TRUE /\ Raise(2)
    BY <1>5 DEF NotReadable, NothingFound, NextArg
  <2>2. exitCode' \in 1 .. 2
    BY <1>1, <2>1 DEF Raise
  <2> QED BY <1>4, <2>1, <2>2
<1>6. CASE VerifyFile
  <2>1. tool = "verify" /\ tool' = "verify"
        /\ (bad' <=> bad \/ bytesRead # hashed[file])
        /\ Raise(IF Digest = sidecar[file] THEN 0 ELSE 1)
    BY <1>6 DEF VerifyFile, NextArg
  <2>2. CASE Digest = sidecar[file]
    <3>1. bad' <=> bad
      BY <1>6, <2>1, <2>2, VerifyTells
    <3>2. exitCode' = exitCode
      BY <1>1, <2>1, <2>2 DEF Raise
    <3> QED BY <1>1, <1>2, <2>1, <3>1, <3>2 DEF CodeInv
  <2>3. CASE Digest # sidecar[file]
    <3>1. bad' <=> TRUE
      BY <1>6, <2>1, <2>3, VerifyTells
    <3>2. exitCode' \in 1 .. 2
      BY <1>1, <2>1, <2>3 DEF Raise
    <3> QED BY <1>2, <2>1, <3>1, <3>2 DEF CodeInv
  <2> QED BY <2>2, <2>3
<1>7. CASE CheckEnds
  <2>1. UNCHANGED tool
    BY <1>7 DEF CheckEnds, NextArg
  <2>2. CASE CheckPassed
    <3>1. exitCode' = exitCode /\ (bad' <=> bad)
      BY <1>7, <2>2 DEF CheckEnds
    <3> QED BY <1>1, <1>2, <2>1, <3>1 DEF CodeInv
  <2>3. CASE ~CheckPassed
    <3>1. exitCode' = 1 /\ bad' = TRUE
      BY <1>7, <2>3 DEF CheckEnds
    <3>2. tool # "none"
      BY <1>7 DEF CheckEnds, CodeInv
    <3> QED BY <1>4, <2>1, <3>1, <3>2
  <2> QED BY <2>2, <2>3
<1>8. CASE (\E as \in ArgLists : StartTool("check", as, FALSE)) \/ ToolExits
           \/ (\E t \in {"hash", "verify"}, as \in ArgLists, q \in BOOLEAN : StartTool(t, as, q))
  BY <1>3, <1>8 DEF StartTool, ToolExits
<1>9. CASE OpenFile \/ ReadByte \/ HashFile \/ OnlyDirectories \/ CheckFile \/ Walk
           \/ (\E f \in Files, c \in Contents \cup {NoFile} : UserChanges(f, c))
  BY <1>3, <1>9 DEF OpenFile, ReadByte, HashFile, OnlyDirectories, CheckFile, Walk, UserChanges,
                    NextArg
<1> QED BY <1>5, <1>6, <1>7, <1>8, <1>9 DEF CheckSteps, HashSteps

LEMMA ToolsKeep ==
  ASSUME ToolsIInv, CheckSteps \/ HashSteps
  PROVE  ToolsIInv'
<1>1. WalkInv' /\ PassedInv'
  BY CheckKeeps, HashKeeps, CheckPasses, HashPasses DEF ToolsIInv
<1> QED BY <1>1, SidecarsKept, CodeKept DEF ToolsIInv

LEMMA ToolsStay ==
  ASSUME ToolsIInv, UNCHANGED toolVars
  PROVE  ToolsIInv'
<1>1. ReadInv'
  BY ReadStays DEF ToolsIInv, toolVars
<1> QED BY <1>1 DEF ToolsIInv, toolVars, WalkInv, PassedInv, Intact, Noted, HasChunk, SidecarInv, CodeInv

LEMMA ToolsStart == ToolsInit => ToolsIInv
<1> SUFFICES ASSUME ToolsInit PROVE ToolsIInv
  OBVIOUS
<1>1. WalkInv /\ PassedInv /\ ReadInv /\ CodeInv
  BY DEF ToolsInit, WalkInv, PassedInv, ReadInv, CodeInv
<1>2. SidecarInv
  BY DEF ToolsInit, SidecarInv
<1> QED BY <1>1, <1>2 DEF ToolsIInv

LEMMA DigestFollows == ToolsIInv => DigestOfBytes
  BY ReadFacts DEF ToolsIInv, DigestOfBytes

----------------------------------------------------------------------------
(* The types.                                                              *)

CheckTypes ==
  /\ avi = NoFile <=> step # "walk"
  /\ walking \in BOOLEAN /\ pos \in Nat
  /\ hdrl \in BOOLEAN /\ movi \in BOOLEAN /\ index \in BOOLEAN
  /\ frames \in Nat /\ entries \in Nat /\ defects \in 0 .. entries

ContextTypes ==
  /\ data \in [Places -> 0 .. 255 \cup {Uninitialized}]
  /\ datalen \in Places /\ lo \in 0 .. Word - 1 /\ hi \in 0 .. Word - 1

CallTypes ==
  /\ tool \in {"none", "check", "hash", "verify"}
  /\ Len(args) <= MaxArgs
  /\ step \in {"next", "read", "walk"}
  /\ place \in Nat
  /\ quiet \in BOOLEAN /\ bad \in BOOLEAN /\ unread \in BOOLEAN

ToolsTypes == CheckTypes /\ ContextTypes /\ CallTypes

(* No more bad entries are counted than entries.                           *)
LEMMA CountedEntries ==
  ASSUME avi \in AVIFiles, pos \in Nat, pos + HeaderSize <= avi.size, NEW c \in avi.chunks
  PROVE  /\ NumberOf(c, {"good", "bad"}) \in Nat
         /\ NumberOf(c, {"bad"}) \in 0 .. NumberOf(c, {"good", "bad"})
<1> DEFINE n == EntriesRead(c)
           All == {i \in 1 .. n : c.entries[i] \in {"good", "bad"}}
           Bad == {i \in 1 .. n : c.entries[i] \in {"bad"}}
<1>1. n \in Int
  BY ReadEntries
<1> HIDE DEF n
<1>2. IsFiniteSet(1 .. n)
  BY <1>1, FS_Interval
<1>3. All \in SUBSET (1 .. n) /\ Bad \in SUBSET All
  OBVIOUS
<1>4. NumberOf(c, {"good", "bad"}) = Cardinality(All) /\ NumberOf(c, {"bad"}) = Cardinality(Bad)
  BY DEF NumberOf, n
<1> HIDE DEF All, Bad
<1>5. IsFiniteSet(All)
  BY <1>2, <1>3, FS_Subset
<1>6. IsFiniteSet(Bad) /\ Cardinality(Bad) <= Cardinality(All)
  BY <1>3, <1>5, FS_Subset
<1>7. Cardinality(All) \in Nat /\ Cardinality(Bad) \in Nat
  BY <1>5, <1>6, FS_CardinalityType
<1> QED BY <1>4, <1>6, <1>7

LEMMA WalkTypes ==
  ASSUME WalkInv, CheckTypes, step = "walk", WalkChunk
  PROVE  frames' \in Nat /\ entries' \in Nat /\ defects' \in 0 .. entries'
<1>1. /\ avi \in AVIFiles /\ pos \in Nat /\ pos + HeaderSize <= riffEnd
      /\ frames \in Nat /\ entries \in Nat /\ defects \in 0 .. entries
  BY DEF WalkInv, WalkChunk, CheckTypes
<1>2. PICK c \in ChunksAt(pos) : UNCHANGED found \/ ListType(c) \/ OtherType(c)
  BY DEF WalkChunk
<1>3. /\ pos + HeaderSize <= avi.size
      /\ c.kind # "junk" => c \in avi.chunks
  BY <1>1, WalkFacts
<1>4. CASE ListType(c)
  <2>1. c.kind # "junk" /\ frames' \in {c.frames, frames} /\ UNCHANGED <<entries, defects>>
    BY <1>4 DEF ListType
  <2>2. c.frames \in Nat
    BY <1>1, <1>3, <2>1, ChunkFacts
  <2> QED BY <1>1, <2>1, <2>2
<1>5. CASE OtherType(c) /\ c.kind = "idx1"
  <2>1. c \in avi.chunks
    BY <1>3, <1>5
  <2>2. /\ entries' = NumberOf(c, {"good", "bad"}) /\ defects' = NumberOf(c, {"bad"})
        /\ UNCHANGED frames
    BY <1>5 DEF OtherType
  <2>3. /\ NumberOf(c, {"good", "bad"}) \in Nat
        /\ NumberOf(c, {"bad"}) \in 0 .. NumberOf(c, {"good", "bad"})
    BY <1>1, <1>3, <2>1, CountedEntries
  <2> QED BY <1>1, <2>2, <2>3
<1>6. CASE (OtherType(c) /\ c.kind # "idx1") \/ UNCHANGED found
  <2>1. UNCHANGED <<frames, entries, defects>>
    BY <1>6 DEF OtherType, found
  <2> QED BY <1>1, <2>1
<1> QED BY <1>2, <1>4, <1>5, <1>6

LEMMA CheckTypesKept ==
  ASSUME WalkInv, CodeInv, ReadInv, CheckTypes, CheckSteps \/ HashSteps
  PROVE  CheckTypes'
<1>1. CASE NotReadable \/ OpenFile \/ ReadByte \/ HashFile \/ VerifyFile \/ ToolExits
           \/ NothingFound \/ OnlyDirectories
           \/ (\E t \in {"check", "hash", "verify"}, as \in ArgLists, q \in BOOLEAN :
                 StartTool(t, as, q))
           \/ (\E f \in Files, c \in Contents \cup {NoFile} : UserChanges(f, c))
  <2>1. UNCHANGED checkVars
    BY <1>1 DEF NotReadable, OpenFile, ReadByte, HashFile, VerifyFile, ToolExits, NothingFound,
                OnlyDirectories, StartTool, UserChanges
  <2>2. \/ step # "walk" /\ step' # "walk"
        \/ step' = step
    BY <1>1 DEF NotReadable, OpenFile, ReadByte, HashFile, VerifyFile, ToolExits, NothingFound,
                OnlyDirectories, StartTool, UserChanges, LoopEnds, NextArg, CodeInv, callVars
  <2> QED BY <2>1, <2>2 DEF CheckTypes, checkVars, found
<1>2. CASE CheckFile
  <2>1. PICK f \in AVIFiles : CheckOpens(f)
    BY <1>2 DEF CheckFile
  <2>2. /\ avi' \in AVIFiles /\ pos' = 12 /\ step' = "walk"
        /\ hdrl' = FALSE /\ movi' = FALSE /\ index' = FALSE
        /\ frames' = 0 /\ entries' = 0 /\ defects' = 0
        /\ walking' \in BOOLEAN
    BY <1>2, <2>1 DEF CheckFile, CheckOpens, NothingYet
  <2>3. avi' # NoFile
    BY <2>2, AVICheckAssumption
  <2>4. pos' \in Nat /\ frames' \in Nat /\ entries' \in Nat /\ defects' \in 0 .. entries'
    BY <2>2
  <2>5. hdrl' \in BOOLEAN /\ movi' \in BOOLEAN /\ index' \in BOOLEAN
    BY <2>2
  <2> QED BY <2>2, <2>3, <2>4, <2>5, Zenon DEF CheckTypes
<1>3. CASE CheckEnds
  <2>1. /\ avi' = NoFile /\ pos' = 0 /\ step' = "next"
        /\ hdrl' = FALSE /\ movi' = FALSE /\ index' = FALSE
        /\ frames' = 0 /\ entries' = 0 /\ defects' = 0
        /\ walking' = FALSE
    BY <1>3 DEF CheckEnds, NextArg, CheckCloses, NothingYet
  <2>2. pos' \in Nat /\ frames' \in Nat /\ entries' \in Nat /\ defects' \in 0 .. entries'
    BY <2>1
  <2>3. hdrl' \in BOOLEAN /\ movi' \in BOOLEAN /\ index' \in BOOLEAN /\ walking' \in BOOLEAN
    BY <2>1
  <2>4. step' # "walk"
    BY <2>1
  <2> QED BY <2>1, <2>2, <2>3, <2>4, Zenon DEF CheckTypes
<1>4. CASE Walk /\ WalkChunk
  <2>1. step = "walk" /\ step' = "walk" /\ walking' \in BOOLEAN
    BY <1>4 DEF Walk, WalkChunk, CheckTypes, callVars
  <2>2. /\ avi' = avi /\ pos' \in Nat
        /\ hdrl' \in BOOLEAN /\ movi' \in BOOLEAN /\ index' \in BOOLEAN
    BY <1>4, <2>1, ChunkKeeps
  <2> QED BY <1>4, <2>1, <2>2, WalkTypes DEF CheckTypes
<1>5. CASE Walk /\ WalkEnds
  <2>1. walking' = FALSE /\ UNCHANGED <<avi, step, pos, found>>
    BY <1>5 DEF Walk, WalkEnds, callVars
  <2> QED BY <2>1 DEF CheckTypes, found
<1> QED BY <1>1, <1>2, <1>3, <1>4, <1>5 DEF CheckSteps, HashSteps, Walk

(* One byte more in the context.                                           *)
LEMMA UpdateTypes ==
  ASSUME ContextTypes, NEW byte \in 0 .. 255, sha256_update(byte)
  PROVE  ContextTypes'
<1>1. /\ data \in [Places -> 0 .. 255 \cup {Uninitialized}] /\ datalen \in Places
      /\ lo \in 0 .. Word - 1 /\ hi \in 0 .. Word - 1
      /\ Word \in Nat \ {0} /\ BlockSize \in Nat \ {0} /\ BlockBits \in Nat
  BY SizeFacts DEF ContextTypes
<1>2. data' \in [Places -> 0 .. 255 \cup {Uninitialized}]
  BY <1>1 DEF sha256_update
<1>3. datalen' \in Places
  BY <1>1 DEF sha256_update, BlockFull, Places
<1>4. \A x \in Nat : x % Word \in 0 .. Word - 1
  BY <1>1
<1>5. lo' \in 0 .. Word - 1 /\ hi' \in 0 .. Word - 1
  <2>1. /\ lo' = (lo + BlockBits) % Word \/ lo' = lo
        /\ hi' = (hi + 1) % Word \/ hi' = hi % Word \/ hi' = hi
    BY DEF sha256_update
  <2>2. lo + BlockBits \in Nat /\ hi + 1 \in Nat /\ hi \in Nat
    BY <1>1
  <2> QED BY <1>1, <1>4, <2>1, <2>2
<1> QED BY <1>2, <1>3, <1>5 DEF ContextTypes

LEMMA NewContext == sha256_init => ContextTypes'
<1>1. Word \in Nat \ {0} /\ BlockSize \in Nat \ {0}
  BY SizeFacts
<1> QED BY <1>1 DEF sha256_init, ContextTypes, Places

LEMMA ContextTypesKept ==
  ASSUME SidecarInv, ReadInv, ContextTypes, CheckSteps \/ HashSteps
  PROVE  ContextTypes'
<1>1. CASE ReadByte
  <2>1. /\ step = "read" /\ place < Len(content[file]) /\ sha256_update(content[file][place + 1])
    BY <1>1 DEF ReadByte
  <2>2. /\ args # <<>> /\ content[file] # NoFile /\ place \in 0 .. Len(content[file])
    BY <2>1 DEF ReadInv
  <2> DEFINE c == content[file]
  <2>3. c \in Seq(0 .. 255) /\ place \in 0 .. Len(c) - 1
    BY <2>1, <2>2, FileFacts
  <2> HIDE DEF c
  <2>4. c[place + 1] \in 0 .. 255
    BY <2>3, OneMoreByte
  <2>5. PICK byte \in 0 .. 255 : byte = c[place + 1]
    BY <2>4
  <2>6. sha256_update(byte)
    BY <2>1, <2>5 DEF c
  <2> QED BY <2>6, UpdateTypes
<1>2. CASE OpenFile \/ HashFile \/ VerifyFile
  <2>1. sha256_init
    BY <1>2 DEF OpenFile, HashFile, VerifyFile, ContextGone
  <2> QED BY <2>1, NewContext
<1>3. CASE NotReadable \/ ToolExits \/ NothingFound \/ OnlyDirectories
           \/ CheckFile \/ Walk \/ CheckEnds
           \/ (\E t \in {"check", "hash", "verify"}, as \in ArgLists, q \in BOOLEAN :
                 StartTool(t, as, q))
           \/ (\E f \in Files, c \in Contents \cup {NoFile} : UserChanges(f, c))
  <2>1. UNCHANGED hashVars
    BY <1>3 DEF NotReadable, ToolExits, NothingFound, OnlyDirectories, CheckFile, Walk,
                CheckEnds, StartTool, UserChanges
  <2> QED BY <2>1 DEF ContextTypes, hashVars
<1> QED BY <1>1, <1>2, <1>3 DEF CheckSteps, HashSteps

(* The arguments that are left are no more than those there were.          *)
LEMMA FewerArgs ==
  ASSUME args \in Seq(Files), args # <<>>, Len(args) <= MaxArgs
  PROVE  Len(Tail(args)) <= MaxArgs
<1>1. Len(args) \in Nat /\ Len(Tail(args)) = Len(args) - 1
  BY HeadTailProperties
<1> QED BY <1>1, ToolsAssumption

LEMMA CallTypesKept ==
  ASSUME SidecarInv, ReadInv, CodeInv, CallTypes, CheckSteps \/ HashSteps
  PROVE  CallTypes'
<1>1. CASE NotReadable \/ NothingFound \/ OnlyDirectories \/ CheckEnds \/ HashFile \/ VerifyFile
  <2>1. /\ args' = Tail(args) /\ step' = "next" /\ place' \in {place, 0}
        /\ UNCHANGED <<tool, quiet>> /\ bad' \in BOOLEAN /\ unread' \in BOOLEAN
    BY <1>1 DEF NotReadable, NothingFound, OnlyDirectories, CheckEnds, HashFile, VerifyFile,
                CutShort, NextArg, ContextGone, CallTypes
  <2>2. args # <<>>
    BY <1>1 DEF NotReadable, NothingFound, OnlyDirectories, CheckEnds, HashFile, VerifyFile,
                LoopEnds, ReadInv, SidecarInv
  <2>3. Len(args') <= MaxArgs
    BY <2>1, <2>2, FewerArgs DEF CallTypes, SidecarInv
  <2> QED BY <2>1, <2>3 DEF CallTypes
<1>2. CASE OpenFile \/ ReadByte \/ ToolExits \/ CheckFile \/ Walk
           \/ (\E f \in Files, c \in Contents \cup {NoFile} : UserChanges(f, c))
  <2>1. /\ UNCHANGED args /\ step' \in {step, "read", "walk"}
        /\ place' \in {place, 0, place + 1} /\ tool' \in {tool, "none"}
        /\ quiet' \in BOOLEAN /\ bad' \in BOOLEAN /\ unread' \in BOOLEAN
    BY <1>2 DEF OpenFile, ReadByte, ToolExits, CheckFile, Walk, UserChanges, callVars, CallTypes
  <2> QED BY <2>1 DEF CallTypes
<1>3. CASE \E t \in {"check", "hash", "verify"}, as \in ArgLists, q \in BOOLEAN :
             StartTool(t, as, q)
  <2>1. PICK t \in {"check", "hash", "verify"}, as \in ArgLists, q \in BOOLEAN :
          StartTool(t, as, q)
    BY <1>3
  <2>2. Len(as) <= MaxArgs
    <3>1. PICK n \in 1 .. MaxArgs : as \in [1 .. n -> Files]
      BY DEF ArgLists
    <3>2. Len(as) = n
      BY <3>1
    <3> QED BY <3>2, ToolsAssumption
  <2>3. /\ tool' = t /\ args' = as /\ quiet' = q /\ step' = "next" /\ place' = 0
        /\ bad' = FALSE /\ unread' = FALSE
    BY <2>1 DEF StartTool
  <2> QED BY <2>2, <2>3 DEF CallTypes
<1> QED BY <1>1, <1>2, <1>3 DEF CheckSteps, HashSteps

LEMMA ToolsTypesKept ==
  ASSUME ToolsIInv, ToolsTypes, CheckSteps \/ HashSteps
  PROVE  ToolsTypes'
  BY CheckTypesKept, ContextTypesKept, CallTypesKept DEF ToolsIInv, ToolsTypes

LEMMA ToolsTypesStart == ToolsInit => ToolsTypes
<1> SUFFICES ASSUME ToolsInit PROVE ToolsTypes
  OBVIOUS
<1>1. Word \in Nat \ {0} /\ BlockSize \in Nat \ {0}
  BY SizeFacts
<1>2. CheckTypes
  <2>1. /\ avi = NoFile /\ pos = 0 /\ step = "next" /\ walking = FALSE
        /\ hdrl = FALSE /\ movi = FALSE /\ index = FALSE
        /\ frames = 0 /\ entries = 0 /\ defects = 0
    BY DEF ToolsInit, CheckIdle
  <2>2. pos \in Nat /\ frames \in Nat /\ entries \in Nat /\ defects \in 0 .. entries
    BY <2>1
  <2>3. hdrl \in BOOLEAN /\ movi \in BOOLEAN /\ index \in BOOLEAN /\ walking \in BOOLEAN
    BY <2>1
  <2>4. step # "walk"
    BY <2>1
  <2> QED BY <2>1, <2>2, <2>3, <2>4, Zenon DEF CheckTypes
<1>3. ContextTypes
  BY <1>1 DEF ToolsInit, HashIdle, ContextTypes, Places
<1>4. CallTypes
  <2>1. args = <<>> /\ Len(<<>>) = 0
    BY DEF ToolsInit
  <2>2. Len(args) <= MaxArgs
    BY <2>1, ToolsAssumption
  <2> QED BY <2>2 DEF ToolsInit, CallTypes
<1> QED BY <1>2, <1>3, <1>4 DEF ToolsTypes

LEMMA ToolsTyped == ToolsIInv /\ ToolsTypes => ToolsTypeOK
<1> SUFFICES ASSUME ToolsIInv, ToolsTypes PROVE ToolsTypeOK
  OBVIOUS
<1>1. args \in {<<>>} \cup ArgLists
  <2>1. args \in Seq(Files) /\ Len(args) <= MaxArgs
    BY DEF ToolsIInv, SidecarInv, ToolsTypes, CallTypes
  <2>2. Len(args) \in Nat /\ args \in [1 .. Len(args) -> Files]
    BY <2>1
  <2>3. CASE Len(args) = 0
    BY <2>1, <2>3, EmptySeq
  <2>4. CASE Len(args) # 0
    <3>1. Len(args) \in 1 .. MaxArgs
      BY <2>1, <2>2, <2>4, ToolsAssumption
    <3> QED BY <2>2, <3>1 DEF ArgLists
  <2> QED BY <2>3, <2>4
<1>2. content \in [Files -> Contents \cup {NoFile}] /\ exitCode \in 0 .. 2
  BY DEF ToolsIInv, SidecarInv, CodeInv
<1> QED BY <1>1, <1>2 DEF ToolsTypes, CheckTypes, ContextTypes, CallTypes, ToolsTypeOK
=============================================================================

---------------------------- MODULE UpdateProofs ----------------------------
(***************************************************************************)
(* Proofs about Update, for bytes of any number of values, fields of any   *)
(* widths and messages of any length.                                      *)
(*                                                                         *)
(* What a number is after it was written in digits and read again is       *)
(* proved by induction over the digits.  The library states induction with *)
(* a predicate as a parameter; here the sets and the functions of a        *)
(* recursion are parameters, which the provers can instantiate.            *)
(***************************************************************************)
EXTENDS Update, WellFoundedInduction, TLAPS

-----------------------------------------------------------------------------
(* Induction and recursion over the numbers.                               *)

\* A number is its quotient times the divisor, and its remainder.
LEMMA DivMod ==
    ASSUME NEW n \in Nat, NEW d \in Nat \ {0}
    PROVE  n = (d * (n \div d)) + (n % d) /\ n \div d \in Nat /\ n % d \in 0..(d - 1)
OBVIOUS

\* ... and no other quotient and remainder give it.
LEMMA DivModUnique ==
    ASSUME NEW d \in Nat \ {0}, NEW q \in Nat, NEW r \in 0..(d - 1)
    PROVE  (d * q + r) \div d = q /\ (d * q + r) % d = r
OBVIOUS

\* To divide twice is to divide by the product.
LEMMA DivDiv ==
    ASSUME NEW n \in Nat, NEW d \in Nat \ {0}, NEW e \in Nat \ {0}
    PROVE  (n \div d) \div e = n \div (d * e)
OBVIOUS

\* A remainder by b * m is one by b behind one of the quotient by m.
LEMMA ModStep ==
    ASSUME NEW q \in Nat, NEW b \in Nat \ {0}, NEW m \in Nat \ {0}
    PROVE  (((q \div b) % m) * b) + (q % b) = q % (b * m)
<1> DEFINE a == q \div b  r == q % b  c == a \div m  e == a % m
<1>1. q = (b * a) + r /\ a \in Nat /\ r \in 0..(b - 1)
    BY DivMod
<1>2. a = (m * c) + e /\ c \in Nat /\ e \in 0..(m - 1)
    BY <1>1, DivMod
<1> HIDE DEF a, r, c, e
<1> DEFINE x == (b * e) + r
<1>3. q = ((b * m) * c) + x
    BY <1>1, <1>2
<1>4. x \in 0..((b * m) - 1)
    <2>1. b * e <= b * (m - 1)
        BY <1>2
    <2>2. b * (m - 1) = (b * m) - b
        OBVIOUS
    <2>3. b * e \in Nat /\ b * m \in Nat BY <1>2
    <2> HIDE DEF x
    <2> QED BY <1>1, <2>1, <2>2, <2>3 DEF x
<1>5. q % (b * m) = x
    <2>1. b * m \in Nat \ {0}
        OBVIOUS
    <2> HIDE DEF x
    <2> QED BY <1>2, <1>3, <1>4, <2>1, DivModUnique
<1>6. (e * b) + r = x
    BY <1>1, <1>2
<1> QED BY <1>5, <1>6 DEF e, a, r

\* A set of numbers has a smallest one.
LEMMA NatMin ==
    ASSUME NEW T \in SUBSET Nat, T # {}
    PROVE  \E x \in T : \A y \in T : x <= y
<1>1. \E x \in T : \A y \in T : <<y, x>> \notin OpToRel(<, Nat)
    BY NatLessThanWellFounded, WFMin
<1>2. \A x, y \in Nat : <<y, x>> \notin OpToRel(<, Nat) => x <= y
    BY DEF OpToRel
<1> QED BY <1>1, <1>2

\* A set that has 0 and every successor has every number.
LEMMA NatInd ==
    ASSUME NEW T \in SUBSET Nat, 0 \in T, \A n \in T : n + 1 \in T
    PROVE  T = Nat
<1> SUFFICES ASSUME NEW m \in Nat \ T PROVE FALSE
    OBVIOUS
<1>1. PICK x \in Nat \ T : \A y \in Nat \ T : x <= y
    BY NatMin
<1>2. x # 0 /\ x - 1 \in Nat
    BY <1>1
<1>3. x - 1 \in T
    BY <1>1, <1>2
<1> QED BY <1>1, <1>3

\* The first n steps of a recursion from base, f.
Part(n, f, S, base, step) ==
    /\ f \in [0..n -> S]
    /\ f[0] = base
    /\ \A k \in Nat : k < n => f[k + 1] = step[<<k, f[k]>>]

\* Two beginnings of a recursion agree where both are defined.
LEMMA PartUnique ==
    ASSUME NEW S, NEW base \in S, NEW step \in [Nat \X S -> S],
           NEW n \in Nat, NEW m \in Nat, n <= m, NEW f, NEW g,
           Part(n, f, S, base, step), Part(m, g, S, base, step)
    PROVE  \A k \in 0..n : f[k] = g[k]
<1> DEFINE U == {k \in Nat : k <= n => f[k] = g[k]}
<1>1. 0 \in U BY DEF Part
<1>2. ASSUME NEW k \in U PROVE k + 1 \in U
    <2>1. CASE k + 1 <= n
        <3>1. f[k] = g[k] /\ k < n /\ k < m BY <2>1
        <3>2. f[k + 1] = step[<<k, f[k]>>] /\ g[k + 1] = step[<<k, g[k]>>]
            BY <3>1 DEF Part
        <3> QED BY <3>1, <3>2
    <2> QED BY <2>1
<1>3. U \in SUBSET Nat OBVIOUS
<1> HIDE DEF U
<1>4. U = Nat BY <1>1, <1>2, <1>3, NatInd
<1> QED BY <1>4 DEF U

\* A recursion has beginnings of every length.
LEMMA PartExists ==
    ASSUME NEW S, NEW base \in S, NEW step \in [Nat \X S -> S], NEW n \in Nat
    PROVE  \E f : Part(n, f, S, base, step)
<1> DEFINE T == {k \in Nat : \E f : Part(k, f, S, base, step)}
<1>1. 0 \in T
    <2>1. Part(0, [i \in 0..0 |-> base], S, base, step)
        BY DEF Part
    <2> QED BY <2>1
<1>2. ASSUME NEW k \in T PROVE k + 1 \in T
    <2>1. PICK f : Part(k, f, S, base, step)
        OBVIOUS
    <2> DEFINE g == [i \in 0..(k + 1) |-> IF i = k + 1 THEN step[<<k, f[k]>>] ELSE f[i]]
    <2>2. g \in [0..(k + 1) -> S]
        BY <2>1 DEF Part
    <2>3. g[0] = base BY <2>1 DEF Part
    <2>4. ASSUME NEW j \in Nat, j < k + 1 PROVE g[j + 1] = step[<<j, g[j]>>]
        <3>1. CASE j = k
            <4>1. g[k + 1] = step[<<k, f[k]>>] /\ g[k] = f[k] OBVIOUS
            <4> QED BY <3>1, <4>1
        <3>2. CASE j < k
            <4>1. g[j + 1] = f[j + 1] /\ g[j] = f[j] BY <3>2
            <4>2. f[j + 1] = step[<<j, f[j]>>] BY <2>1, <3>2 DEF Part
            <4> QED BY <4>1, <4>2
        <3> QED BY <2>4, <3>1, <3>2
    <2> HIDE DEF g
    <2>5. Part(k + 1, g, S, base, step) BY <2>2, <2>3, <2>4 DEF Part
    <2> QED BY <2>5
<1>3. T \in SUBSET Nat OBVIOUS
<1> HIDE DEF T
<1>4. T = Nat BY <1>1, <1>2, <1>3, NatInd
<1> QED BY <1>4 DEF T

\* The whole of it.
Recursion(f, S, base, step) ==
    /\ f \in [Nat -> S]
    /\ f[0] = base
    /\ \A n \in Nat : f[n + 1] = step[<<n, f[n]>>]

\* A recursion defines a function.
LEMMA NatRec ==
    ASSUME NEW S, NEW base \in S, NEW step \in [Nat \X S -> S]
    PROVE  \E f : Recursion(f, S, base, step)
<1> DEFINE part(n) == CHOOSE f : Part(n, f, S, base, step)
           h == [n \in Nat |-> part(n)[n]]
<1>1. ASSUME NEW n \in Nat PROVE Part(n, part(n), S, base, step)
    BY PartExists
<1> HIDE DEF part
<1>2. h \in [Nat -> S]
    BY <1>1 DEF Part
<1>3. h[0] = base
    BY <1>1 DEF Part
<1>4. ASSUME NEW n \in Nat PROVE h[n + 1] = step[<<n, h[n]>>]
    <2>1. part(n + 1)[n + 1] = step[<<n, part(n + 1)[n]>>]
        <3>1. n + 1 \in Nat /\ n < n + 1 OBVIOUS
        <3> QED BY <1>1, <3>1 DEF Part
    <2>2. part(n)[n] = part(n + 1)[n]
        <3>1. n + 1 \in Nat /\ n <= n + 1 /\ n \in 0..n OBVIOUS
        <3>2. ASSUME NEW m \in Nat, n <= m, NEW f, NEW g,
                     Part(n, f, S, base, step), Part(m, g, S, base, step)
              PROVE  f[n] = g[n]
            <4>1. \A k \in 0..n : f[k] = g[k]
                BY <3>2, PartUnique
            <4> QED BY <4>1
        <3> QED BY <3>1, <3>2, <1>1
    <2> QED BY <2>1, <2>2
<1> HIDE DEF h
<1> QED BY <1>2, <1>3, <1>4 DEF Recursion

-----------------------------------------------------------------------------
(* Numbers and their digits.                                               *)

\* A product grows with a factor.
LEMMA TimesGrows ==
    ASSUME NEW a \in Nat, NEW b \in Nat, a >= b, NEW c \in Nat
    PROVE  a * c >= c * b /\ a * c \in Nat /\ c * b \in Nat
<1>1. PICK d \in Nat : a = b + d
    <2>1. a - b \in Nat /\ a = b + (a - b) OBVIOUS
    <2> QED BY <2>1
<1>2. a * c = c * b + d * c /\ d * c \in Nat /\ c * b \in Nat
    BY <1>1
<1> QED BY <1>2

\* The powers of the base.
LEMMA PowerFacts ==
    /\ Power \in [Nat -> Nat \ {0}]
    /\ Power[0] = 1
    /\ \A n \in Nat : Power[n + 1] = Base * Power[n]
<1> DEFINE S == Nat \ {0}
           step == [x \in Nat \X S |-> Base * x[2]]
           Is(f) == f = [n \in Nat |-> IF n = 0 THEN 1 ELSE Base * f[n - 1]]
<1>1. step \in [Nat \X S -> S]
    BY BaseAssumption
<1>2. PICK f : Recursion(f, S, 1, step)
    <2>1. 1 \in S
        OBVIOUS
    <2> HIDE DEF S, step
    <2> QED BY <1>1, <2>1, NatRec
<1>3. f \in [Nat -> S] /\ f[0] = 1 /\ \A n \in Nat : f[n + 1] = Base * f[n]
    BY <1>2 DEF Recursion
<1>4. Is(f)
    <2> HIDE DEF step
    <2>1. \A n \in Nat : n # 0 => f[n] = Base * f[n - 1]
        <3> TAKE n \in Nat
        <3>1. n # 0 => n - 1 \in Nat /\ (n - 1) + 1 = n OBVIOUS
        <3> QED BY <1>3, <3>1
    <2>2. f = [n \in Nat |-> f[n]] BY <1>3
    <2> QED BY <1>3, <2>1, <2>2
<1>5. Is(Power)
    BY <1>4 DEF Power
<1>6. Power[0] = 1 /\ \A n \in Nat : Power[n + 1] = Base * Power[n]
    BY <1>5
<1>7. \A n \in Nat : Power[n] \in S
    <2> DEFINE T == {n \in Nat : Power[n] \in S}
    <2>1. 0 \in T /\ \A n \in T : n + 1 \in T
        BY <1>6, BaseAssumption
    <2>2. T \in SUBSET Nat OBVIOUS
    <2> HIDE DEF T
    <2>3. T = Nat BY <2>1, <2>2, NatInd
    <2> QED BY <2>3 DEF T
<1>8. Power = [n \in Nat |-> Power[n]]
    BY <1>5
<1> QED BY <1>6, <1>7, <1>8

\* v[i] is the number of the first i digits.
Values(digits, v) ==
    /\ v \in [0..Len(digits) -> Nat]
    /\ v[0] = 0
    /\ \A i \in 1..Len(digits) : v[i] = v[i - 1] * Base + digits[i]

\* The number of a sequence of digits is the last of their values.
LEMMA NumberValue ==
    ASSUME NEW digits \in Seq(Nat)
    PROVE  \E v : Values(digits, v) /\ Number(digits) = v[Len(digits)]
<1> DEFINE n == Len(digits)
<1>0. n \in Nat /\ \A i \in 1..n : digits[i] \in Nat
    OBVIOUS
<1> DEFINE d(i) == IF i \in 1..n THEN digits[i] ELSE 0
           step == [x \in Nat \X Nat |-> x[2] * Base + d(x[1] + 1)]
           Is(v) == v = [i \in 0..n |-> IF i = 0 THEN 0 ELSE v[i - 1] * Base + digits[i]]
<1>1. step \in [Nat \X Nat -> Nat]
    <2>1. \A i : d(i) \in Nat
        BY <1>0
    <2> HIDE DEF d
    <2>2. ASSUME NEW x \in Nat \X Nat PROVE x[2] * Base + d(x[1] + 1) \in Nat
        <3>1. x[2] \in Nat /\ x[2] * Base \in Nat
            BY BaseAssumption
        <3> QED BY <2>1, <3>1
    <2> QED BY <2>2
<1>2. PICK f : Recursion(f, Nat, 0, step)
    <2> HIDE DEF step
    <2> QED BY <1>1, NatRec
<1>3. \A i \in 1..n : f[i] = f[i - 1] * Base + digits[i]
    <2> TAKE i \in 1..n
    <2>1. i - 1 \in Nat /\ (i - 1) + 1 = i OBVIOUS
    <2>2. f[(i - 1) + 1] = step[<<i - 1, f[i - 1]>>] BY <1>2, <2>1 DEF Recursion
    <2>3. f[i - 1] \in Nat BY <1>2, <2>1 DEF Recursion
    <2>4. step[<<i - 1, f[i - 1]>>] = f[i - 1] * Base + d((i - 1) + 1) BY <2>1, <2>3
    <2> QED BY <2>1, <2>2, <2>4
<1> DEFINE w == [i \in 0..n |-> f[i]]
<1>4. Is(w)
    <2> HIDE DEF step
    <2>1. \A i \in 0..n : w[i] = IF i = 0 THEN 0 ELSE w[i - 1] * Base + digits[i]
        <3> HIDE DEF n
        <3> TAKE i \in 0..n
        <3>1. CASE i = 0
            BY <3>1, <1>2 DEF Recursion
        <3>2. CASE i # 0
            <4>1. i \in 1..n /\ i - 1 \in 0..n BY <3>2, <1>0
            <4> QED BY <3>2, <4>1, <1>3
        <3> QED BY <3>1, <3>2
    <2> QED BY <2>1
<1> DEFINE v == CHOOSE v : Is(v)
<1>5. Is(v)
    <2> HIDE DEF Is, w
    <2> QED BY <1>4
<1>6. Number(digits) = v[n]
    BY DEF Number
<1> HIDE DEF v, n
<1>7. v[0] = 0 /\ \A i \in 1..n : v[i] = v[i - 1] * Base + digits[i]
    <2>1. \A i \in 0..n : v[i] = IF i = 0 THEN 0 ELSE v[i - 1] * Base + digits[i]
        BY <1>5, Zenon
    <2>2. 0 \in 0..n /\ \A i \in 1..n : i \in 0..n /\ i # 0 BY <1>0
    <2> QED BY <2>1, <2>2
<1>8. \A i \in 0..n : v[i] \in Nat
    <2> DEFINE T == {i \in Nat : i <= n => v[i] \in Nat}
    <2>1. 0 \in T BY <1>7
    <2>2. ASSUME NEW i \in T PROVE i + 1 \in T
        <3>1. CASE i + 1 <= n
            <4>1. v[i] \in Nat /\ i + 1 \in 1..n /\ (i + 1) - 1 = i BY <3>1, <1>0
            <4>2. v[i + 1] = v[i] * Base + digits[i + 1] BY <1>7, <4>1
            <4>3. digits[i + 1] \in Nat BY <1>0, <4>1
            <4>4. v[i] * Base \in Nat BY <4>1, BaseAssumption
            <4> QED BY <4>2, <4>3, <4>4
        <3> QED BY <3>1
    <2>3. T \in SUBSET Nat OBVIOUS
    <2> HIDE DEF T
    <2>4. T = Nat BY <2>1, <2>2, <2>3, NatInd
    <2> QED BY <1>0, <2>4 DEF T
<1>9. Values(digits, v)
    <2>1. v = [i \in 0..n |-> v[i]] BY <1>5
    <2> QED BY <1>7, <1>8, <2>1 DEF Values, n
<1> QED BY <1>6, <1>9 DEF n

\* It is a number.
LEMMA NumberType ==
    ASSUME NEW digits \in Seq(Nat)
    PROVE  Number(digits) \in Nat
<1>1. PICK v : Values(digits, v) /\ Number(digits) = v[Len(digits)]
    BY NumberValue
<1>2. Len(digits) \in 0..Len(digits)
    OBVIOUS
<1> QED BY <1>1, <1>2 DEF Values

\* The digits of a number are bytes, as many as the field has.
LEMMA DigitsType ==
    ASSUME NEW n \in Nat, NEW w \in Nat
    PROVE  Digits(n, w) \in Seq(0..(Base - 1)) /\ Len(Digits(n, w)) = w
<1>1. ASSUME NEW i \in 1..w PROVE (n \div Power[w - i]) % Base \in 0..(Base - 1)
    <2>1. w - i \in Nat OBVIOUS
    <2>2. Power[w - i] \in Nat \ {0} BY <2>1, PowerFacts
    <2>3. n \div Power[w - i] \in Nat BY <2>2, DivMod
    <2> DEFINE q == n \div Power[w - i]
    <2>4. q \in Nat BY <2>3
    <2> HIDE DEF q
    <2>5. q % Base \in 0..(Base - 1) BY <2>4, BaseAssumption
    <2> QED BY <2>5 DEF q
<1> QED BY <1>1 DEF Digits

\* What is written in w digits is read modulo the power of w.
LEMMA NumberOfDigits ==
    ASSUME NEW n \in Nat, NEW w \in Nat
    PROVE  Number(Digits(n, w)) = n % Power[w]
<1> DEFINE ds == Digits(n, w)
<1>1. ds \in Seq(Nat) /\ Len(ds) = w
    BY DigitsType, BaseAssumption
<1>2. PICK v : Values(ds, v) /\ Number(ds) = v[Len(ds)]
    <2> HIDE DEF ds
    <2> QED BY <1>1, NumberValue
<1> DEFINE T == {i \in Nat : i <= w => v[i] = (n \div Power[w - i]) % Power[i]}
<1>3. 0 \in T
    <2>1. v[0] = 0 BY <1>2 DEF Values
    <2>2. n \div Power[w] \in Nat BY PowerFacts, DivMod
    <2>3. (n \div Power[w]) % 1 = 0 BY <2>2
    <2> QED BY <2>1, <2>3, PowerFacts
<1>4. ASSUME NEW i \in T, i + 1 <= w
      PROVE v[i + 1] = (n \div Power[w - (i + 1)]) % Power[i + 1]
    <2> DEFINE k == w - (i + 1)  q == n \div Power[k]
    <2>1. k \in Nat /\ w - i = k + 1 /\ i <= w BY <1>4
    <2>2. Power[k] \in Nat \ {0} /\ Power[i] \in Nat \ {0} /\ Base \in Nat \ {0}
        BY <2>1, PowerFacts, BaseAssumption
    <2>3. q \in Nat BY <2>2, DivMod
    <2>4. n \div Power[k + 1] = q \div Base
        <3>1. Power[k + 1] = Power[k] * Base BY <2>1, <2>2, PowerFacts
        <3> QED BY <2>2, <3>1, DivDiv
    <2>5. v[i] = (q \div Base) % Power[i] BY <2>1, <2>4
    <2>6. ds[i + 1] = q % Base
        <3>1. i + 1 \in 1..w BY <1>4
        <3> QED BY <3>1 DEF Digits
    <2>7. v[i + 1] = v[i] * Base + ds[i + 1]
        <3> HIDE DEF ds
        <3>1. i + 1 \in 1..Len(ds) /\ (i + 1) - 1 = i BY <1>1, <1>4
        <3> QED BY <1>2, <3>1 DEF Values
    <2> HIDE DEF q, ds, k
    <2>8. v[i + 1] = q % (Base * Power[i])
        <3>1. (((q \div Base) % Power[i]) * Base) + (q % Base) = q % (Base * Power[i])
            BY <2>2, <2>3, ModStep
        <3> QED BY <2>5, <2>6, <2>7, <3>1
    <2>9. Power[i + 1] = Base * Power[i] BY PowerFacts
    <2> QED BY <2>8, <2>9 DEF q, k
<1>5. T \in SUBSET Nat /\ \A i \in T : i + 1 \in T
    BY <1>4
<1> HIDE DEF T
<1>6. T = Nat BY <1>3, <1>5, NatInd
<1>7. v[w] = (n \div Power[0]) % Power[w]
    BY <1>6 DEF T
<1>8. n \div Power[0] = n
    BY PowerFacts
<1> QED BY <1>1, <1>2, <1>7, <1>8

\* A digit that is not zero bounds the number from below.
LEMMA NumberAtLeast ==
    ASSUME NEW digits \in Seq(Nat), NEW j \in 1..Len(digits), digits[j] # 0
    PROVE  Number(digits) >= Power[Len(digits) - j]
<1> DEFINE n == Len(digits)
<1>1. n \in Nat /\ j \in 1..n /\ \A i \in 1..n : digits[i] \in Nat
    OBVIOUS
<1>2. PICK v : Values(digits, v) /\ Number(digits) = v[n]
    BY NumberValue
<1>3. /\ \A i \in 0..n : v[i] \in Nat
      /\ \A i \in 1..n : v[i] = v[i - 1] * Base + digits[i]
    BY <1>2 DEF Values
<1> HIDE DEF n
<1> DEFINE T == {i \in Nat : j + i <= n => v[j + i] >= Power[i]}
<1>4. 0 \in T
    <2>1. v[j] = v[j - 1] * Base + digits[j] BY <1>1, <1>3
    <2>2. v[j - 1] \in Nat BY <1>1, <1>3
    <2>3. v[j - 1] * Base \in Nat BY <2>2, BaseAssumption
    <2>4. digits[j] >= 1 BY <1>1
    <2>5. v[j] >= 1 BY <2>1, <2>3, <2>4, <1>1
    <2>6. j + 0 = j BY <1>1
    <2> QED BY <2>5, <2>6, PowerFacts
<1>5. ASSUME NEW i \in T, j + (i + 1) <= n PROVE v[j + (i + 1)] >= Power[i + 1]
    <2>1. v[j + i] >= Power[i] /\ j + i \in 0..n BY <1>1, <1>5
    <2>2. j + (i + 1) \in 1..n /\ (j + (i + 1)) - 1 = j + i BY <1>1, <1>5
    <2>3. v[j + (i + 1)] = v[j + i] * Base + digits[j + (i + 1)] BY <1>3, <2>2
    <2>4. v[j + i] \in Nat /\ digits[j + (i + 1)] \in Nat /\ Power[i] \in Nat
        BY <1>1, <1>3, <2>1, <2>2, PowerFacts
    <2>5. /\ v[j + i] * Base >= Base * Power[i] /\ v[j + i] * Base \in Nat
          /\ Base * Power[i] \in Nat
        BY <2>1, <2>4, BaseAssumption, TimesGrows
    <2>6. Power[i + 1] = Base * Power[i] BY PowerFacts
    <2> QED BY <2>3, <2>4, <2>5, <2>6
<1>6. T \in SUBSET Nat /\ \A i \in T : i + 1 \in T
    BY <1>1, <1>5
<1> HIDE DEF T
<1>7. T = Nat BY <1>4, <1>6, NatInd
<1>8. n - j \in Nat /\ j + (n - j) = n BY <1>1
<1>9. v[n] >= Power[n - j] BY <1>7, <1>8 DEF T
<1> QED BY <1>2, <1>9 DEF n

-----------------------------------------------------------------------------
(* The messages.                                                           *)

Bytes == 0..(Base - 1)

\* A sequence of bytes is one of numbers.
LEMMA BytesAreNumbers ==
    ASSUME NEW m \in Seq(Bytes)
    PROVE  m \in Seq(Nat)
BY BaseAssumption DEF Bytes

\* A part of the beginning of a sequence is that part of the sequence.
LEMMA PartOfPrefix ==
    ASSUME NEW S, NEW m \in Seq(S), NEW d \in 0..Len(m),
           NEW a \in 1..(Len(m) + 1), NEW b \in Nat, b <= d
    PROVE  SubSeq(SubSeq(m, 1, d), a, b) = SubSeq(m, a, b)
OBVIOUS

\* A header that is received whole is the header of the answer.
LEMMA PrefixHeader ==
    ASSUME NEW m \in Seq(Bytes), NEW d \in 0..Len(m), HasHeader(SubSeq(m, 1, d))
    PROVE  /\ d >= 1 /\ HeaderLen(m) <= d
           /\ Flags(SubSeq(m, 1, d)) = Flags(m)
           /\ HeaderLen(SubSeq(m, 1, d)) = HeaderLen(m)
           /\ HeaderNumber(SubSeq(m, 1, d)) = HeaderNumber(m)
           /\ Flags(m) = 3 => SubSeq(m, 1, d)[3] = m[3]
           /\ Flags(m) \in {1, 2, 3} /\ HeaderLen(m) \in Nat /\ HeaderNumber(m) \in Nat
<1> DEFINE r == SubSeq(m, 1, d)
<1>1. Len(r) = d /\ \A i \in 1..d : r[i] = m[i]
    OBVIOUS
<1>2. d >= 1 /\ r[1] = m[1] /\ (m[1] # 0 => d >= 2 /\ r[2] = m[2])
    BY <1>1 DEF HasHeader
<1>3. m[1] # 0 /\ m[2] # 0 => d >= 3 /\ r[3] = m[3]
    BY <1>1, <1>2 DEF HasHeader
<1>4. Flags(r) = Flags(m) /\ (Flags(m) = 3 => d >= 3 /\ r[3] = m[3])
    BY <1>2, <1>3 DEF Flags
<1>5. NumberWidth(r) = NumberWidth(m) /\ HeaderLen(r) = HeaderLen(m)
    BY <1>4 DEF NumberWidth, HeaderLen, Flags
<1>6. Flags(m) \in {1, 2, 3} /\ HeaderLen(m) \in Nat /\ HeaderLen(m) >= Flags(m)
    BY WidthAssumption DEF Flags, HeaderLen, NumberWidth
<1>7. HeaderLen(m) <= d
    BY <1>1, <1>5 DEF HasHeader
<1> HIDE DEF r
<1>8. SubSeq(r, Flags(m) + 1, HeaderLen(m)) = SubSeq(m, Flags(m) + 1, HeaderLen(m))
    <2>1. Flags(m) + 1 \in 1..(Len(m) + 1) /\ HeaderLen(m) \in Nat
        BY <1>6, <1>7
    <2> QED BY <2>1, <1>7, PartOfPrefix DEF r
<1>9. HeaderNumber(r) = HeaderNumber(m)
    BY <1>4, <1>5, <1>8 DEF HeaderNumber
<1>10. HeaderNumber(m) \in Nat
    <2>1. SubSeq(m, Flags(m) + 1, HeaderLen(m)) \in Seq(Nat)
        BY <1>6, <1>7, BaseAssumption DEF Bytes
    <2> QED BY <2>1, NumberType DEF HeaderNumber
<1> QED
    BY <1>2, <1>4, <1>5, <1>6, <1>7, <1>9, <1>10 DEF r

\* The parts of a message, and the number that is read for its length.
LEMMA MessageParts ==
    ASSUME NEW f \in Seq(Bytes), NEW w \in Nat, NEW t \in Seq(Bytes)
    PROVE  /\ Message(f, w, t) \in Seq(Bytes)
           /\ Len(Message(f, w, t)) = Len(f) + w + Len(t)
           /\ \A i \in 1..Len(f) : Message(f, w, t)[i] = f[i]
           /\ \A i \in 1..Len(t) : Message(f, w, t)[Len(f) + w + i] = t[i]
           /\ Number(SubSeq(Message(f, w, t), Len(f) + 1, Len(f) + w)) = Len(t) % Power[w]
<1> DEFINE d == Digits(Len(t), w)  m == f \o d \o t
<1>1. d \in Seq(Bytes) /\ Len(d) = w /\ Number(d) = Len(t) % Power[w]
    BY DigitsType, NumberOfDigits DEF Bytes
<1>2. Message(f, w, t) = m
    BY DEF Message
<1> HIDE DEF d
<1>3. m \in Seq(Bytes) /\ Len(m) = Len(f) + Len(d) + Len(t)
    BY <1>1
<1>4. \A i \in 1..Len(f) : m[i] = f[i]
    BY <1>1
<1>5. \A i \in 1..Len(d) : m[Len(f) + i] = d[i]
    BY <1>1
<1>6. \A i \in 1..Len(t) : m[Len(f) + Len(d) + i] = t[i]
    BY <1>1
<1> HIDE DEF m
<1>7. SubSeq(m, Len(f) + 1, Len(f) + Len(d)) = d
    BY <1>1, <1>3, <1>5
<1> QED BY <1>1, <1>2, <1>3, <1>4, <1>6, <1>7

\* Messages are sequences of bytes.
LEMMA MessageType == Urls \cup Streams \cup Texts \subseteq Seq(Bytes)
BY MessageAssumption DEF Bytes

\* So are flags.
LEMMA FlagsType ==
    <<0>> \in Seq(Bytes) /\ <<1, 1, 0>> \in Seq(Bytes) /\ <<1, 1, 1>> \in Seq(Bytes)
<1>1. 0 \in Bytes /\ 1 \in Bytes
    BY BaseAssumption DEF Bytes
<1> QED BY <1>1

\* The header of a URL says its length, as far as that can be written.
LEMMA UrlHeader ==
    ASSUME NEW u \in Urls, NEW m, m = WriteUrl(u)
    PROVE  /\ u \in Seq(Bytes)
           /\ m \in Seq(Bytes) /\ Len(m) = HeaderLen(m) + Len(u)
           /\ Flags(m) = 3 /\ m[3] = 0
           /\ HeaderNumber(m) = Len(u) % Power[LenWidth]
           /\ \A i \in 1..Len(u) : m[HeaderLen(m) + i] = u[i]
<1> DEFINE f == <<1, 1, 0>>
<1>1. u \in Seq(Bytes) /\ f \in Seq(Bytes) /\ LenWidth \in Nat
    BY MessageType, FlagsType, WidthAssumption
<1>2. m = Message(f, LenWidth, u)
    BY DEF WriteUrl
<1>3. Len(f) = 3 /\ f[1] = 1 /\ f[2] = 1 /\ f[3] = 0
    OBVIOUS
<1> HIDE DEF f
<1>4. /\ m \in Seq(Bytes) /\ Len(m) = Len(f) + LenWidth + Len(u)
      /\ \A i \in 1..Len(f) : m[i] = f[i]
      /\ \A i \in 1..Len(u) : m[Len(f) + LenWidth + i] = u[i]
      /\ Number(SubSeq(m, Len(f) + 1, Len(f) + LenWidth)) = Len(u) % Power[LenWidth]
    <2>1. Message(f, LenWidth, u) \in Seq(Bytes)
        BY <1>1, MessageParts
    <2>2. Len(Message(f, LenWidth, u)) = Len(f) + LenWidth + Len(u)
        BY <1>1, MessageParts
    <2>3. \A i \in 1..Len(f) : Message(f, LenWidth, u)[i] = f[i]
        BY <1>1, MessageParts
    <2>4. \A i \in 1..Len(u) : Message(f, LenWidth, u)[Len(f) + LenWidth + i] = u[i]
        BY <1>1, MessageParts
    <2>5. Number(SubSeq(Message(f, LenWidth, u), Len(f) + 1, Len(f) + LenWidth))
            = Len(u) % Power[LenWidth]
        BY <1>1, MessageParts
    <2> QED BY <1>2, <2>1, <2>2, <2>3, <2>4, <2>5
<1>5. m[1] = 1 /\ m[2] = 1 /\ m[3] = 0
    BY <1>3, <1>4
<1>6. Flags(m) = 3 /\ HeaderLen(m) = 3 + LenWidth
    BY <1>5 DEF Flags, HeaderLen, NumberWidth
<1>7. HeaderNumber(m) = Len(u) % Power[LenWidth]
    BY <1>3, <1>4, <1>6 DEF HeaderNumber
<1> QED BY <1>1, <1>3, <1>4, <1>5, <1>6, <1>7

\* The header of a stream says its size.
LEMMA StreamHeader ==
    ASSUME NEW s \in Streams, NEW m, m = WriteStream(s)
    PROVE  /\ s \in Seq(Bytes)
           /\ m \in Seq(Bytes) /\ Len(m) = HeaderLen(m) + Len(s)
           /\ Flags(m) = 3 /\ m[3] # 0
           /\ HeaderNumber(m) = Len(s)
           /\ \A i \in 1..Len(s) : m[HeaderLen(m) + i] = s[i]
<1> DEFINE f == <<1, 1, 1>>
<1>1. s \in Seq(Bytes) /\ f \in Seq(Bytes) /\ SizeWidth \in Nat
    BY MessageType, FlagsType, WidthAssumption
<1>2. m = Message(f, SizeWidth, s)
    BY DEF WriteStream
<1>3. Len(f) = 3 /\ f[1] = 1 /\ f[2] = 1 /\ f[3] = 1
    OBVIOUS
<1> HIDE DEF f
<1>4. /\ m \in Seq(Bytes) /\ Len(m) = Len(f) + SizeWidth + Len(s)
      /\ \A i \in 1..Len(f) : m[i] = f[i]
      /\ \A i \in 1..Len(s) : m[Len(f) + SizeWidth + i] = s[i]
      /\ Number(SubSeq(m, Len(f) + 1, Len(f) + SizeWidth)) = Len(s) % Power[SizeWidth]
    <2>1. Message(f, SizeWidth, s) \in Seq(Bytes)
        BY <1>1, MessageParts
    <2>2. Len(Message(f, SizeWidth, s)) = Len(f) + SizeWidth + Len(s)
        BY <1>1, MessageParts
    <2>3. \A i \in 1..Len(f) : Message(f, SizeWidth, s)[i] = f[i]
        BY <1>1, MessageParts
    <2>4. \A i \in 1..Len(s) : Message(f, SizeWidth, s)[Len(f) + SizeWidth + i] = s[i]
        BY <1>1, MessageParts
    <2>5. Number(SubSeq(Message(f, SizeWidth, s), Len(f) + 1, Len(f) + SizeWidth))
            = Len(s) % Power[SizeWidth]
        BY <1>1, MessageParts
    <2> QED BY <1>2, <2>1, <2>2, <2>3, <2>4, <2>5
<1>5. m[1] = 1 /\ m[2] = 1 /\ m[3] = 1
    BY <1>3, <1>4
<1>6. Flags(m) = 3 /\ HeaderLen(m) = 3 + SizeWidth
    BY <1>5 DEF Flags, HeaderLen, NumberWidth
<1>7. HeaderNumber(m) = Len(s)
    <2>1. HeaderNumber(m) = Len(s) % Power[SizeWidth]
        BY <1>3, <1>4, <1>6 DEF HeaderNumber
    <2>2. Len(s) < Power[SizeWidth] /\ Len(s) \in Nat /\ Power[SizeWidth] \in Nat
        BY <1>1, StreamAssumption, PowerFacts
    <2> QED BY <2>1, <2>2
<1> QED BY <1>1, <1>3, <1>4, <1>5, <1>6, <1>7

\* The size that is read where ErrorF wrote a length is more than a slice can have.
LEMMA RefusalHeader ==
    ASSUME NEW t \in Texts, NEW m, m = ErrorF(t)
    PROVE  /\ m \in Seq(Bytes) /\ Flags(m) = 1
           /\ HeaderLen(m) <= Len(m) => HeaderNumber(m) > MaxAlloc
<1> DEFINE f == <<0>>
<1>1. t \in Seq(Bytes) /\ f \in Seq(Bytes) /\ LenWidth \in Nat /\ LenWidth < SizeWidth
      /\ SizeWidth \in Nat
    BY MessageType, FlagsType, WidthAssumption
<1>2. m = Message(f, LenWidth, t)
    BY DEF ErrorF
<1>3. Len(f) = 1 /\ f[1] = 0
    OBVIOUS
<1> HIDE DEF f
<1>4. /\ m \in Seq(Bytes) /\ Len(m) = Len(f) + LenWidth + Len(t)
      /\ \A i \in 1..Len(f) : m[i] = f[i]
      /\ \A i \in 1..Len(t) : m[Len(f) + LenWidth + i] = t[i]
    <2>1. Message(f, LenWidth, t) \in Seq(Bytes)
        BY <1>1, MessageParts
    <2>2. Len(Message(f, LenWidth, t)) = Len(f) + LenWidth + Len(t)
        BY <1>1, MessageParts
    <2>3. \A i \in 1..Len(f) : Message(f, LenWidth, t)[i] = f[i]
        BY <1>1, MessageParts
    <2>4. \A i \in 1..Len(t) : Message(f, LenWidth, t)[Len(f) + LenWidth + i] = t[i]
        BY <1>1, MessageParts
    <2> QED BY <1>2, <2>1, <2>2, <2>3, <2>4
<1>5. Flags(m) = 1 /\ HeaderLen(m) = 1 + SizeWidth
    BY <1>3, <1>4 DEF Flags, HeaderLen, NumberWidth
<1>6. ASSUME HeaderLen(m) <= Len(m) PROVE HeaderNumber(m) > MaxAlloc
    <2> DEFINE ds == SubSeq(m, 2, 1 + SizeWidth)
    <2>1. Len(m) >= 1 + SizeWidth /\ Len(m) = 1 + LenWidth + Len(t)
        BY <1>3, <1>4, <1>5, <1>6
    <2>2. t # <<>> /\ 1 \in 1..Len(t)
        BY <1>1, <2>1
    <2>3. m[LenWidth + 2] # 0
        <3>1. m[1 + LenWidth + 1] = t[1] /\ 1 + LenWidth + 1 = LenWidth + 2
            BY <1>1, <1>3, <1>4, <2>2
        <3> QED BY <2>2, <3>1, TextAssumption
    <2>4. /\ ds \in Seq(Nat) /\ Len(ds) = SizeWidth
          /\ LenWidth + 1 \in 1..SizeWidth /\ ds[LenWidth + 1] = m[LenWidth + 2]
        <3>1. m \in Seq(Nat)
            BY <1>4, BytesAreNumbers
        <3>2. ds \in Seq(Nat) /\ Len(ds) = SizeWidth
            BY <1>1, <2>1, <3>1
        <3>3. \A i \in 1..SizeWidth : ds[i] = m[i + 1]
            BY <1>1, <2>1, <3>1
        <3>4. LenWidth + 1 \in 1..SizeWidth /\ (LenWidth + 1) + 1 = LenWidth + 2
            BY <1>1
        <3> QED BY <3>2, <3>3, <3>4
    <2> HIDE DEF ds
    <2>5. Number(ds) >= Power[SizeWidth - (LenWidth + 1)] /\ Number(ds) \in Nat
        BY <2>3, <2>4, NumberAtLeast, NumberType
    <2>6. SizeWidth - (LenWidth + 1) \in Nat
          /\ SizeWidth - LenWidth - 1 = SizeWidth - (LenWidth + 1)
        BY <1>1
    <2>7. Power[SizeWidth - (LenWidth + 1)] \in Nat
        BY <2>6, PowerFacts
    <2>8. HeaderNumber(m) = Number(ds)
        BY <1>1, <1>5 DEF HeaderNumber, ds
    <2> QED BY <2>5, <2>6, <2>7, <2>8, AllocAssumption
<1> QED BY <1>4, <1>5, <1>6

-----------------------------------------------------------------------------
(* What the answers are.                                                   *)

\* An answer of the updater is a sequence of bytes, and after its flags one knows
\* whether it is a URL or a stream.
AnswerIs(a) ==
    /\ a \in Seq(Bytes)
    /\ Flags(a) = 3 =>
          IF a[3] = 0 THEN \E u \in Urls : a = WriteUrl(u)
                      ELSE \E s \in Streams : a = WriteStream(s)

\* An answer without news, and a refusal in the width that is read.
LEMMA ShortAnswers ==
    /\ WriteUnchanged \in Seq(Bytes) /\ Flags(WriteUnchanged) = 2
    /\ \A t \in Texts : RefusalAsRead(t) \in Seq(Bytes) /\ Flags(RefusalAsRead(t)) = 1
<1>1. 0 \in Bytes /\ 1 \in Bytes
    BY BaseAssumption DEF Bytes
<1>2. WriteUnchanged \in Seq(Bytes) /\ Flags(WriteUnchanged) = 2
    BY <1>1 DEF WriteUnchanged, Flags
<1>3. ASSUME NEW t \in Texts
      PROVE  RefusalAsRead(t) \in Seq(Bytes) /\ Flags(RefusalAsRead(t)) = 1
    <2> DEFINE f == <<0>>
    <2>1. t \in Seq(Bytes) /\ f \in Seq(Bytes) /\ SizeWidth \in Nat
        BY MessageType, FlagsType, WidthAssumption
    <2>2. RefusalAsRead(t) = Message(f, SizeWidth, t)
        BY DEF RefusalAsRead
    <2>3. 1 \in 1..Len(f) /\ f[1] = 0
        OBVIOUS
    <2> HIDE DEF f
    <2>4. Message(f, SizeWidth, t) \in Seq(Bytes)
        BY <2>1, MessageParts
    <2>5. \A i \in 1..Len(f) : Message(f, SizeWidth, t)[i] = f[i]
        BY <2>1, MessageParts
    <2> QED BY <2>2, <2>3, <2>4, <2>5 DEF Flags
<1> QED BY <1>2, <1>3

\* What the updater may answer.
LEMMA Answers ==
    /\ \A a \in ProgramAnswers : AnswerIs(a)
    /\ \A a \in ProgramRefusals : a \in Seq(Bytes)
<1>1. ASSUME NEW a \in ProgramAnswers PROVE AnswerIs(a)
    <2>1. CASE a = WriteUnchanged
        BY <2>1, ShortAnswers DEF AnswerIs
    <2>2. CASE \E u \in Urls : a = WriteUrl(u)
        BY <2>2, UrlHeader DEF AnswerIs
    <2>3. CASE \E s \in Streams : a = WriteStream(s)
        BY <2>3, StreamHeader DEF AnswerIs
    <2>4. CASE \E t \in Texts : a = RefusalAsRead(t)
        BY <2>4, ShortAnswers DEF AnswerIs
    <2> QED BY <2>1, <2>2, <2>3, <2>4 DEF ProgramAnswers
<1>2. ASSUME NEW a \in ProgramRefusals PROVE a \in Seq(Bytes)
    BY RefusalHeader DEF ProgramRefusals
<1> QED BY <1>1, <1>2

\* A part of a message behind its header is that part of what was sent.
LEMMA PartOfMessage ==
    ASSUME NEW m \in Seq(Bytes), NEW u \in Seq(Bytes), NEW h \in Nat,
           Len(m) = h + Len(u), \A i \in 1..Len(u) : m[h + i] = u[i],
           NEW k \in 0..Len(u)
    PROVE  SubSeq(m, h + 1, h + k) = SubSeq(u, 1, k)
<1> DEFINE p == SubSeq(m, h + 1, h + k)  q == SubSeq(u, 1, k)
<1>1. p \in Seq(Bytes) /\ Len(p) = k /\ \A i \in 1..k : p[i] = m[h + i]
    OBVIOUS
<1>2. q \in Seq(Bytes) /\ Len(q) = k /\ \A i \in 1..k : q[i] = u[i]
    OBVIOUS
<1> HIDE DEF p, q
<1>3. p = q
    BY <1>1, <1>2
<1> QED BY <1>3 DEF p, q

-----------------------------------------------------------------------------
(* The invariant.                                                          *)

\* Until the handler has answered, or has the program answer, nothing moves.
EarlyInv ==
    /\ client = "start" => handler = "none"
    /\ handler \in {"none", "version", "execute"} =>
          /\ answer = <<>> /\ ~refusing
          /\ written = 0 /\ delivered = 0 /\ taken = 0
          /\ program = "none" /\ toClient = "none" /\ toProgram = "none"
          /\ client \in {"start", "header", "failed"}

\* A handler that is past its start has an answer, of the kind refusing says.
KindInv ==
    handler \in {"wait", "over"} =>
        answer \in IF refusing THEN ProgramRefusals ELSE ProgramAnswers

\* Nothing is taken that was not delivered.
ProgressInv ==
    written <= Len(answer) /\ delivered <= Len(answer) /\ taken <= delivered

\* What a client that is past the header of an answer knows of it.
ClientInv ==
    /\ client \in {"readUrl", "url", "readStream", "binary"} =>
          /\ Flags(answer) = 3 /\ wanted = HeaderNumber(answer)
          /\ client \in {"readStream", "binary"} <=> answer[3] # 0
          /\ HeaderLen(answer) <= taken
    /\ client \in {"readUrl", "readStream"} => taken = HeaderLen(answer)
    /\ client = "url" => taken = HeaderLen(answer) + wanted
    /\ client = "binary" =>
          /\ session = "closed"
          /\ taken \in {delivered, HeaderLen(answer) + wanted}

\* No refusal passes for an answer.
RefusalInv == refusing => client \in {"start", "header", "failed", "panic"}

IInv == TypeOK /\ EarlyInv /\ KindInv /\ ProgressInv /\ ClientInv /\ RefusalInv

-----------------------------------------------------------------------------
(* The invariant is inductive.                                             *)

\* The invariant holds at the start.
LEMMA InitInv == Init => IInv
<1> SUFFICES ASSUME Init PROVE IInv
    OBVIOUS
<1>1. answer \in Seq(0..(Base - 1)) /\ Len(answer) = 0
    <2>1. answer = <<>>
        BY DEF Init
    <2> QED BY <2>1
<1>2. TypeOK
    BY <1>1 DEF Init, TypeOK
<1>3. EarlyInv /\ KindInv /\ ClientInv /\ RefusalInv
    BY DEF Init, EarlyInv, KindInv, ClientInv, RefusalInv
<1>4. ProgressInv
    BY <1>1 DEF Init, ProgressInv
<1> QED BY <1>2, <1>3, <1>4 DEF IInv

\* What a step of the client knows of the header it reads.
LEMMA ReadHeaderInv == IInv /\ ReadHeader => IInv'
<1> SUFFICES ASSUME IInv, ReadHeader PROVE IInv'
    OBVIOUS
<1> USE DEF IInv
<1>1. /\ answer \in Seq(Bytes) /\ delivered \in 0..Len(answer)
      /\ HasHeader(SubSeq(answer, 1, delivered))
    BY DEF TypeOK, ProgressInv, ReadHeader, Received, Bytes
<1>2. /\ delivered >= 1 /\ HeaderLen(answer) <= delivered
      /\ Flags(Received) = Flags(answer) /\ Flags(answer) \in {1, 2, 3}
      /\ Flags(answer) = 3 => Received[3] = answer[3]
      /\ HeaderLen(answer) \in Nat /\ HeaderNumber(answer) \in Nat
      /\ taken' = HeaderLen(answer) /\ wanted' = HeaderNumber(answer)
    BY <1>1, PrefixHeader DEF ReadHeader, Received
<1>3. handler \in {"wait", "over"}
    BY <1>2 DEF EarlyInv, TypeOK
<1>4. /\ client' \in {"unchanged", "refused", "panic",
                     "readText", "readUrl", "readStream"}
      /\ client' = "readUrl" => Flags(answer) = 3 /\ answer[3] = 0
      /\ client' = "readStream" => Flags(answer) = 3 /\ answer[3] # 0
      /\ Flags(answer) = 1 /\ HeaderNumber(answer) > MaxAlloc => client' = "panic"
      /\ connection' \in {connection, "closed"} /\ session' \in {session, "closed"}
    BY <1>2, AllocAssumption DEF ReadHeader, FetchEnds
<1>5. /\ UNCHANGED <<updater, handler, program, output, toClient, toProgram>>
      /\ UNCHANGED <<refusing, answer, delivered, written>>
    BY DEF ReadHeader, programVars, syncVars
<1>6. TypeOK'
    BY <1>2, <1>4, <1>5 DEF TypeOK, Results
<1>7. EarlyInv' /\ KindInv' /\ ProgressInv'
    BY <1>2, <1>3, <1>4, <1>5 DEF EarlyInv, KindInv, ProgressInv
<1>8. ClientInv'
    BY <1>2, <1>4, <1>5 DEF ClientInv
<1>9. RefusalInv'
    <2>1. ASSUME refusing PROVE client' = "panic"
        <3>1. PICK t \in Texts : answer = ErrorF(t)
            BY <1>3, <2>1 DEF KindInv, ProgramRefusals
        <3>2. /\ Flags(answer) = 1
              /\ HeaderLen(answer) <= Len(answer) => HeaderNumber(answer) > MaxAlloc
            BY <3>1, RefusalHeader
        <3> QED BY <1>1, <1>2, <1>4, <3>2
    <2> QED BY <1>5, <2>1 DEF RefusalInv
<1> QED BY <1>6, <1>7, <1>8, <1>9

\* The handler answers, or has the updater answer, when nothing moved yet.
LEMMA AnswerInv ==
    ASSUME IInv, handler \in {"version", "execute"}, handler' \in {"wait", "over"},
           UNCHANGED <<updater, client, connection, taken, wanted, written, output>>,
           toClient' = toClient, toProgram' \in {"none", "start"},
           program' \in {"none", "running"}, session' \in {session, "closed"},
           refusing' \in BOOLEAN,
           answer' \in IF refusing' THEN ProgramRefusals ELSE ProgramAnswers,
           delivered' \in {0, Len(answer')}
    PROVE  IInv'
<1>1. answer' \in Seq(0..(Base - 1)) /\ Len(answer') \in Nat
    <2>1. answer' \in Seq(Bytes)
        BY Answers DEF AnswerIs
    <2> QED BY <2>1 DEF Bytes
<1>2. client \in {"header", "failed"} /\ written = 0 /\ taken = 0 /\ toClient = "none"
    BY DEF IInv, EarlyInv
<1>3. TypeOK'
    BY <1>1 DEF IInv, TypeOK
<1>4. EarlyInv' /\ KindInv' /\ ProgressInv' /\ ClientInv' /\ RefusalInv'
    BY <1>1, <1>2 DEF EarlyInv, KindInv, ProgressInv, ClientInv, RefusalInv
<1> QED BY <1>3, <1>4 DEF IInv

\* Every step preserves the invariant.
LEMMA NextInv == IInv /\ [Next]_vars => IInv'
<1> SUFFICES ASSUME IInv, [Next]_vars PROVE IInv'
    OBVIOUS
<1> USE DEF vars, clientVars, programVars, syncVars, CloseSession
<1>1. CASE Start
    BY <1>1 DEF Start, IInv, TypeOK, EarlyInv, KindInv, ProgressInv, ClientInv,
                RefusalInv, Results
<1>2. CASE ReadHeader
    BY <1>2, ReadHeaderInv
<1>3. CASE ReadUrl
    BY <1>3 DEF ReadUrl, FetchEnds, Available, IInv, TypeOK, EarlyInv, KindInv,
                ProgressInv, ClientInv, RefusalInv, Results
<1>4. CASE ReadText
    BY <1>4 DEF ReadText, FetchEnds, Available, IInv, TypeOK, EarlyInv, KindInv,
                ProgressInv, ClientInv, RefusalInv, Results
<1>5. CASE ReadStream
    BY <1>5 DEF ReadStream, FetchEnds, Available, IInv, TypeOK, EarlyInv, KindInv,
                ProgressInv, ClientInv, RefusalInv, Results
<1>6. CASE ReadEnds
    BY <1>6 DEF ReadEnds, FetchEnds, IInv, TypeOK, EarlyInv, KindInv, ProgressInv,
                ClientInv, RefusalInv, Results
<1>7. CASE SyncStart
    BY <1>7 DEF SyncStart, IInv, TypeOK, EarlyInv, KindInv, ProgressInv, ClientInv,
                RefusalInv
<1>8. CASE SyncPrint
    BY <1>8 DEF SyncPrint, IInv, TypeOK, EarlyInv, KindInv, ProgressInv, ClientInv,
                RefusalInv
<1>9. CASE ToProgramEnds
    BY <1>9 DEF ToProgramEnds, IInv, TypeOK, EarlyInv, KindInv, ProgressInv,
                ClientInv, RefusalInv
<1>10. CASE CopyAnswer
    BY <1>10 DEF CopyAnswer, IInv, TypeOK, EarlyInv, KindInv, ProgressInv,
                 ClientInv, RefusalInv
<1>11. CASE ToClientEnds
    BY <1>11 DEF ToClientEnds, IInv, TypeOK, EarlyInv, KindInv, ProgressInv,
                 ClientInv, RefusalInv
<1>12. CASE Version
    <2>1. CASE handler' = "execute"
        BY <1>12, <2>1 DEF Version, Answer, IInv, TypeOK, EarlyInv, KindInv,
                           ProgressInv, ClientInv, RefusalInv
    <2>2. CASE handler' # "execute"
        <3>1. PICK a : /\ a \in IF refusing' THEN ProgramRefusals ELSE ProgramAnswers
                       /\ Answer(a, refusing') /\ refusing' \in BOOLEAN
            BY <1>12, <2>2 DEF Version, Answer, ProgramRefusals, ProgramAnswers
        <3>2. program = "none" /\ toProgram = "none"
            BY <1>12 DEF Version, IInv, EarlyInv
        <3> QED BY <1>12, <2>2, <3>1, <3>2, AnswerInv DEF Version, Answer
    <2> QED BY <2>1, <2>2
<1>13. CASE Execute
    <2>1. program = "none" /\ toProgram = "none" /\ delivered = 0
        BY <1>13 DEF Execute, IInv, EarlyInv
    <2>2. CASE \E t \in Texts : /\ Answer(ErrorF(t), TRUE)
                             /\ UNCHANGED <<program, toProgram>>
        <3>1. PICK t \in Texts : /\ Answer(ErrorF(t), TRUE)
                             /\ UNCHANGED <<program, toProgram>>
            BY <2>2
        <3>2. ErrorF(t) \in ProgramRefusals
            BY DEF ProgramRefusals
        <3> QED BY <1>13, <2>1, <3>1, <3>2, AnswerInv DEF Execute, Answer
    <2>3. CASE handler' = "wait"
        BY <1>13, <2>1, <2>3, AnswerInv DEF Execute, Answer
    <2> QED BY <1>13, <2>2, <2>3 DEF Execute
<1>14. CASE HandlerEnds
    BY <1>14 DEF HandlerEnds, IInv, TypeOK, EarlyInv, KindInv, ProgressInv,
                 ClientInv, RefusalInv
<1>15. CASE ProgramWrites
    BY <1>15 DEF ProgramWrites, IInv, TypeOK, EarlyInv, KindInv, ProgressInv,
                 ClientInv, RefusalInv
<1>16. CASE ProgramEnds
    BY <1>16 DEF ProgramEnds, IInv, TypeOK, EarlyInv, KindInv, ProgressInv,
                 ClientInv, RefusalInv
<1>17. CASE Lose
    BY <1>17 DEF Lose, IInv, TypeOK, EarlyInv, KindInv, ProgressInv, ClientInv,
                 RefusalInv
<1>18. CASE UNCHANGED vars
    BY <1>18 DEF IInv, TypeOK, EarlyInv, KindInv, ProgressInv, ClientInv, RefusalInv
<1> QED
    BY <1>1, <1>2, <1>3, <1>4, <1>5, <1>6, <1>7, <1>8, <1>9, <1>10, <1>11, <1>12,
       <1>13, <1>14, <1>15, <1>16, <1>17, <1>18 DEF Next, Fetch, Sync, Handler

-----------------------------------------------------------------------------
(* What the client takes.                                                  *)

\* The invariant holds.
LEMMA Reachable == Spec => []IInv
<1> QED BY InitInv, NextInv, PTL DEF Spec

\* Every variable of a fetch keeps its type: what is read for a number, and every
\* count of bytes, is a natural number, and every byte written a byte.
THEOREM UpdateTypeOK == Spec => []TypeOK
<1>1. IInv => TypeOK
    BY DEF IInv
<1> QED BY <1>1, Reachable, PTL

\* Wherever the copiers and Cmd.Wait cut the answer (updater.go:45,
\* updater_cmd.go:95), the client takes for a URL only a whole one, cut to what its
\* length field can say, and for an update only the beginning of the one sent, which
\* is all of it if all was delivered (upgrade.go:114): for all messages and widths.
THEOREM UpdateAnswerAsSent == Spec => []AnswerAsSent
<1>1. ASSUME IInv PROVE AnswerAsSent
    <2> SUFFICES ASSUME client \in {"url", "binary"} PROVE AnswerAsSent
        BY DEF AnswerAsSent
    <2>1. /\ Flags(answer) = 3 /\ wanted = HeaderNumber(answer)
          /\ client = "binary" <=> answer[3] # 0
          /\ ~refusing /\ handler \in {"wait", "over"}
          /\ wanted \in Nat /\ taken \in Nat /\ delivered \in Nat
          /\ HeaderLen(answer) <= taken /\ taken <= delivered
          /\ delivered <= Len(answer)
        BY <1>1 DEF IInv, TypeOK, ClientInv, RefusalInv, EarlyInv, ProgressInv
    <2>2. AnswerIs(answer)
        BY <1>1, <2>1, Answers DEF IInv, KindInv
    <2>3. HeaderLen(answer) \in Nat
        BY WidthAssumption DEF HeaderLen, Flags, NumberWidth
    <2>4. CASE client = "url"
        <3>1. PICK u \in Urls : answer = WriteUrl(u)
            BY <2>1, <2>2, <2>4 DEF AnswerIs
        <3>2. /\ u \in Seq(Bytes) /\ answer \in Seq(Bytes)
              /\ Len(answer) = HeaderLen(answer) + Len(u)
              /\ \A i \in 1..Len(u) : answer[HeaderLen(answer) + i] = u[i]
              /\ wanted = Len(u) % Power[LenWidth]
            BY <2>1, <3>1, UrlHeader
        <3>3. taken = HeaderLen(answer) + wanted
            BY <1>1, <2>4 DEF IInv, ClientInv
        <3>4. wanted \in 0..Len(u)
            BY <2>1, <2>3, <3>2, <3>3
        <3>5. SubSeq(answer, HeaderLen(answer) + 1, HeaderLen(answer) + wanted)
                = SubSeq(u, 1, wanted)
            BY <2>3, <3>2, <3>4, PartOfMessage
        <3>6. Payload = SubSeq(u, 1, Len(u) % Power[LenWidth])
            BY <3>2, <3>3, <3>5 DEF Payload
        <3> QED BY <2>4, <3>1, <3>6 DEF AnswerAsSent
    <2>5. CASE client = "binary"
        <3>1. PICK s \in Streams : answer = WriteStream(s)
            BY <2>1, <2>2, <2>5 DEF AnswerIs
        <3>2. /\ s \in Seq(Bytes) /\ answer \in Seq(Bytes)
              /\ Len(answer) = HeaderLen(answer) + Len(s)
              /\ \A i \in 1..Len(s) : answer[HeaderLen(answer) + i] = s[i]
              /\ wanted = Len(s)
            BY <2>1, <3>1, StreamHeader
        <3> DEFINE k == taken - HeaderLen(answer)
        <3>3. k \in 0..Len(s) /\ taken = HeaderLen(answer) + k
            BY <2>1, <2>3, <3>2
        <3>4. delivered = Len(answer) => k = Len(s)
            BY <1>1, <2>1, <2>3, <2>5, <3>2 DEF IInv, ClientInv
        <3> HIDE DEF k
        <3>5. SubSeq(answer, HeaderLen(answer) + 1, HeaderLen(answer) + k)
                = SubSeq(s, 1, k)
            BY <2>3, <3>2, <3>3, PartOfMessage
        <3>6. Payload = SubSeq(s, 1, k)
            BY <3>3, <3>5 DEF Payload
        <3>7. Len(Payload) = k /\ SubSeq(Payload, 1, k) = SubSeq(s, 1, k)
            BY <3>2, <3>3, <3>6
        <3>8. IsPrefix(Payload, s)
            BY <3>2, <3>3, <3>7 DEF IsPrefix
        <3>9. delivered = Len(answer) => Payload = s
            BY <3>2, <3>4, <3>6
        <3> QED BY <2>5, <3>1, <3>8, <3>9 DEF AnswerAsSent
    <2> QED BY <2>4, <2>5
<1> QED BY <1>1, Reachable, PTL

\* A refusal that ErrorF wrote, in a narrower field than is read, never passes for
\* an answer, and its text is never read (upgrade.go:71, 148): whatever the message,
\* the size that is read where it was written is beyond any slice.
THEOREM UpdateRefusalNeverRead == Spec => []RefusalNeverRead
<1>1. IInv => RefusalNeverRead
    BY DEF IInv, RefusalInv, RefusalNeverRead, Results
<1> QED BY <1>1, Reachable, PTL
=============================================================================

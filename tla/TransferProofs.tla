--------------------------- MODULE TransferProofs ---------------------------
(***************************************************************************)
(* A fetch of objects, for any graph of objects: cycles, unknown names and *)
(* objects the server has lost or cannot read included.  First the numbers *)
(* of the pack format: what is written is what is read.  Then SendInv: the *)
(* server sends exactly what has to be sent.  Then the entries of a pack:  *)
(* each is read as it was written, and none that is cut short.  Then       *)
(* WireInv: the client stores every object that was sent, and nothing      *)
(* else, before it moves a ref.  And last the deltas a pack may hold: each *)
(* restores the content it was made for.                                   *)
(***************************************************************************)
EXTENDS Transfer, Delta, FiniteSetTheorems, WellFoundedInduction, NaturalsInduction,
        FunctionTheorems, TLAPS

Below == {p \in Nat \X Nat : p[1] < p[2]}

LEMMA BelowWF == IsWellFoundedOn(Below, Nat)
  BY NatLessThanWellFounded DEF OpToRel, Below

(* A set with 0 and the successor of each of its members up to n has them. *)
LEMMA Counting ==
    ASSUME NEW n \in Nat, NEW S, 0 \in S, \A k \in 0..(n - 1) : k \in S => k + 1 \in S
    PROVE  0..n \subseteq S
<1> DEFINE missing == (0..n) \ S
<1> SUFFICES ASSUME missing # {} PROVE FALSE
  OBVIOUS
<1>1. missing \in SUBSET Nat
  OBVIOUS
<1>2. PICK m \in missing : \A k \in missing : <<k, m>> \notin Below
  <2> HIDE DEF missing
  <2> QED  BY <1>1, BelowWF, WFMin
<1>3. m - 1 \in 0..(n - 1)
  OBVIOUS
<1>4. <<m - 1, m>> \in Below
  BY <1>3 DEF Below
<1>5. m - 1 \in S
  BY <1>2, <1>3, <1>4
<1>6. (m - 1) + 1 \in S
  BY <1>3, <1>5
<1> QED  BY <1>3, <1>6

(* A function on 0..n can be defined from one value to the next.           *)
Follows(g, n, x, step) ==
    g[0] = x /\ \A i \in 1..n : g[i] = step[<<i, g[i - 1]>>]

LEMMA Recursion ==
    ASSUME NEW n \in Nat, NEW X, NEW x \in X, NEW step \in [(1..n) \X X -> X]
    PROVE  \E g \in [0..n -> X] : Follows(g, n, x, step)
<1> DEFINE able == {k \in 0..n : \E g \in [0..k -> X] : Follows(g, k, x, step)}
<1>1. 0 \in able
  <2> DEFINE g == [i \in 0..0 |-> x]
  <2>1. g \in [0..0 -> X] /\ Follows(g, 0, x, step)  BY DEF Follows
  <2> HIDE DEF g
  <2>2. \E h \in [0..0 -> X] : Follows(h, 0, x, step)  BY <2>1
  <2> QED  BY <2>2
<1>2. ASSUME NEW k \in 0..(n - 1), k \in able PROVE k + 1 \in able
  <2>1. PICK g \in [0..k -> X] : Follows(g, k, x, step)  BY <1>2
  <2> DEFINE last == step[<<k + 1, g[k]>>]
             h == [i \in 0..(k + 1) |-> IF i = k + 1 THEN last ELSE g[i]]
  <2>2. last \in X
    <3>1. g[k] \in X /\ k + 1 \in 1..n  OBVIOUS
    <3> QED  BY <3>1
  <2>3. h \in [0..(k + 1) -> X]  BY <2>2
  <2>4. h[0] = x  BY <2>1 DEF Follows
  <2>5. ASSUME NEW i \in 1..(k + 1) PROVE h[i] = step[<<i, h[i - 1]>>]
    <3>1. h[i - 1] = g[i - 1]  OBVIOUS
    <3>2. CASE i = k + 1
      <4>1. h[i] = last /\ i - 1 = k  BY <3>2
      <4> QED  BY <3>1, <3>2, <4>1
    <3>3. CASE i \in 1..k
      <4>1. h[i] = g[i]  BY <3>3
      <4> QED  BY <2>1, <3>1, <3>3, <4>1 DEF Follows
    <3> QED  BY <3>2, <3>3
  <2> HIDE DEF h
  <2>6. Follows(h, k + 1, x, step)  BY <2>4, <2>5 DEF Follows
  <2>7. \E f \in [0..(k + 1) -> X] : Follows(f, k + 1, x, step)  BY <2>3, <2>6
  <2> QED  BY <2>7
<1>3. n \in able
  <2> HIDE DEF able
  <2>1. \A k \in 0..(n - 1) : k \in able => k + 1 \in able  BY <1>2
  <2>2. 0..n \subseteq able  BY <1>1, <2>1, Counting
  <2> QED  BY <2>2
<1> QED  BY <1>3

-----------------------------------------------------------------------------
(* The members of a sequence that grows at its end and shrinks at its head.*)
LEMMA SetOfAppend ==
    ASSUME NEW S, NEW s \in Seq(S), NEW x \in S
    PROVE  ToSet(Append(s, x)) = ToSet(s) \cup {x}
<1>1. /\ DOMAIN Append(s, x) = 1..(Len(s) + 1)
      /\ \A i \in 1..(Len(s) + 1) : Append(s, x)[i] = IF i = Len(s) + 1 THEN x ELSE s[i]
  OBVIOUS
<1>2. Len(s) \in Nat /\ DOMAIN s = 1..Len(s)
  OBVIOUS
<1>3. ASSUME NEW y \in ToSet(s) PROVE y \in ToSet(Append(s, x))
  <2>1. PICK i \in 1..Len(s) : y = s[i]  BY <1>2 DEF ToSet
  <2>2. Append(s, x)[i] = s[i] /\ i \in DOMAIN Append(s, x)  BY <1>1, <1>2
  <2> QED  BY <2>1, <2>2 DEF ToSet
<1>4. x \in ToSet(Append(s, x))
  <2>1. Append(s, x)[Len(s) + 1] = x /\ Len(s) + 1 \in DOMAIN Append(s, x)  BY <1>1, <1>2
  <2> QED  BY <2>1 DEF ToSet
<1>5. ASSUME NEW y \in ToSet(Append(s, x)) PROVE y \in ToSet(s) \cup {x}
  <2>1. PICK i \in DOMAIN Append(s, x) : y = Append(s, x)[i]  BY DEF ToSet
  <2> QED  BY <1>1, <1>2, <2>1 DEF ToSet
<1> QED  BY <1>3, <1>4, <1>5

LEMMA WiderSeq ==
    ASSUME NEW S, NEW T, S \subseteq T, NEW s \in Seq(S)
    PROVE  s \in Seq(T)
<1>1. Len(s) \in Nat /\ s \in [1..Len(s) -> S]  OBVIOUS
<1>2. s \in [1..Len(s) -> T]  BY <1>1
<1> QED  BY <1>1, <1>2

LEMMA SetOfTail ==
    ASSUME NEW S, NEW s \in Seq(S), s # <<>>
    PROVE  /\ Head(s) \in S /\ Tail(s) \in Seq(S)
           /\ ToSet(s) = {Head(s)} \cup ToSet(Tail(s))
<1>1. Len(s) \in Nat \ {0} /\ DOMAIN s = 1..Len(s) /\ Head(s) = s[1]
  OBVIOUS
<1>2. /\ DOMAIN Tail(s) = 1..(Len(s) - 1)
      /\ \A i \in 1..(Len(s) - 1) : Tail(s)[i] = s[i + 1]
  BY <1>1
<1>3. ASSUME NEW y \in ToSet(s) PROVE y = s[1] \/ y \in ToSet(Tail(s))
  <2>1. PICK i \in 1..Len(s) : y = s[i]  BY <1>1 DEF ToSet
  <2>2. CASE i # 1
    <3>1. i - 1 \in DOMAIN Tail(s) /\ Tail(s)[i - 1] = s[i]  BY <1>1, <1>2, <2>2
    <3> QED  BY <2>1, <3>1 DEF ToSet
  <2> QED  BY <2>1, <2>2
<1>4. ASSUME NEW y \in ToSet(Tail(s)) PROVE y \in ToSet(s)
  <2>1. PICK i \in 1..(Len(s) - 1) : y = s[i + 1]  BY <1>2 DEF ToSet
  <2> QED  BY <1>1, <2>1 DEF ToSet
<1>5. s[1] \in ToSet(s)  BY <1>1 DEF ToSet
<1> QED  BY <1>1, <1>3, <1>4, <1>5

LEMMA SetOfConcat ==
    ASSUME NEW S, NEW s \in Seq(S), NEW t \in Seq(S)
    PROVE  /\ s \o t \in Seq(S)
           /\ ToSet(s \o t) = ToSet(s) \cup ToSet(t)
<1>1. /\ Len(s) \in Nat /\ DOMAIN s = 1..Len(s)
      /\ Len(t) \in Nat /\ DOMAIN t = 1..Len(t)
  OBVIOUS
<1>2. /\ DOMAIN (s \o t) = 1..(Len(s) + Len(t))
      /\ \A i \in 1..(Len(s) + Len(t)) :
            (s \o t)[i] = IF i <= Len(s) THEN s[i] ELSE t[i - Len(s)]
  BY <1>1
<1>3. ASSUME NEW y \in ToSet(s \o t) PROVE y \in ToSet(s) \cup ToSet(t)
  <2>1. PICK i \in 1..(Len(s) + Len(t)) : y = (s \o t)[i]  BY <1>2 DEF ToSet
  <2>2. CASE i <= Len(s)  BY <1>1, <1>2, <2>1, <2>2 DEF ToSet
  <2>3. CASE i > Len(s)
    <3>1. y = t[i - Len(s)] /\ i - Len(s) \in DOMAIN t  BY <1>1, <1>2, <2>1, <2>3
    <3> QED  BY <3>1 DEF ToSet
  <2> QED  BY <1>1, <2>2, <2>3
<1>4. ASSUME NEW y \in ToSet(s) PROVE y \in ToSet(s \o t)
  <2>1. PICK i \in 1..Len(s) : y = s[i]  BY <1>1 DEF ToSet
  <2>2. y = (s \o t)[i] /\ i \in DOMAIN (s \o t)  BY <1>1, <1>2, <2>1
  <2> QED  BY <2>2 DEF ToSet
<1>5. ASSUME NEW y \in ToSet(t) PROVE y \in ToSet(s \o t)
  <2>1. PICK i \in 1..Len(t) : y = t[i]  BY <1>1 DEF ToSet
  <2>2. y = (s \o t)[i + Len(s)] /\ i + Len(s) \in DOMAIN (s \o t)  BY <1>1, <1>2, <2>1
  <2> QED  BY <2>2 DEF ToSet
<1> QED  BY <1>3, <1>4, <1>5

-----------------------------------------------------------------------------
LEMMA Divide ==
    ASSUME NEW b \in Nat, b >= 2, NEW a \in Int
    PROVE  /\ a \div b \in Int /\ a % b \in 0..(b - 1)
           /\ a = (a \div b) * b + (a % b)
           /\ a >= 1 => a \div b <= a - 1
           /\ a >= b => a \div b >= 1
           /\ a <= 0 => a \div b <= 0
           /\ a \in 0..(b - 1) => a \div b = 0 /\ a % b = a
<1>1. a \div b \in Int /\ a % b \in 0..(b - 1)  OBVIOUS
<1>2. a = (a \div b) * b + (a % b)  OBVIOUS
<1>3. a >= 1 => a \div b <= a - 1  OBVIOUS
<1>4. a >= b => a \div b >= 1  OBVIOUS
<1>5. a <= 0 => a \div b <= 0  OBVIOUS
<1>6. a \in 0..(b - 1) => a \div b = 0 /\ a % b = a  OBVIOUS
<1> QED  BY <1>1, <1>2, <1>3, <1>4, <1>5, <1>6

(* The library's minimum of a set of numbers.                              *)
LEMMA LeastIs ==
    ASSUME NEW S \in SUBSET Nat, S # {}
    PROVE  Min(S) \in S /\ \A n \in S : Min(S) <= n
<1>1. PICK m \in S : \A n \in S : <<n, m>> \notin Below
  BY BelowWF, WFMin
<1>2. ASSUME NEW n \in S PROVE m <= n
  <2>1. n \in Nat /\ m \in Nat /\ <<n, m>> \notin Below  BY <1>1
  <2>2. ~(n < m)  BY <2>1 DEF Below
  <2> QED  BY <2>1, <2>2
<1> QED  BY <1>2 DEF Min

QuotientRule(f, v, bias) ==
    f = [k \in 0..v |-> IF k = 0 THEN v ELSE (f[k - 1] \div Base) - bias]

LEMMA QuotientsIs ==
    \A v, bias : Quotients(v, bias) = CHOOSE f : QuotientRule(f, v, bias)
  BY DEF Quotients, QuotientRule

(* The quotients sink by one at least, so that one of them is a digit.     *)
LEMMA QuotientsAre ==
    ASSUME NEW v \in Nat, NEW bias \in {0, 1}
    PROVE  /\ Quotients(v, bias) \in [0..v -> Int]
           /\ Quotients(v, bias)[0] = v
           /\ \A k \in 1..v : Quotients(v, bias)[k] = (Quotients(v, bias)[k - 1] \div Base) - bias
           /\ \A k \in 0..v : Quotients(v, bias)[k] <= v - k
<1> DEFINE q == Quotients(v, bias)
           step == [p \in (1..v) \X Int |-> (p[2] \div Base) - bias]
<1>1. Base \in Nat /\ Base >= 2  BY RadixAssumption
<1>2. \E f : QuotientRule(f, v, bias)
  <2>1. step \in [(1..v) \X Int -> Int]  BY <1>1, Divide
  <2>2. v \in Int  OBVIOUS
  <2>3. \A k \in 1..v, a \in Int : step[<<k, a>>] = (a \div Base) - bias  OBVIOUS
  <2> HIDE DEF step
  <2>4. PICK f \in [0..v -> Int] : Follows(f, v, v, step)  BY <2>1, <2>2, Recursion
  <2>5. ASSUME NEW k \in 1..v PROVE f[k] = (f[k - 1] \div Base) - bias
    <3>1. f[k - 1] \in Int  OBVIOUS
    <3> QED  BY <2>3, <2>4, <3>1 DEF Follows
  <2>6. QuotientRule(f, v, bias)  BY <2>4, <2>5 DEF Follows, QuotientRule
  <2> QED  BY <2>6
<1>3. QuotientRule(q, v, bias)  BY <1>2, QuotientsIs
<1> HIDE DEF q
<1>4. DOMAIN q = 0..v /\ q[0] = v /\ \A k \in 1..v : q[k] = (q[k - 1] \div Base) - bias
  BY <1>3 DEF QuotientRule
<1>5. q = [k \in 0..v |-> q[k]]  BY <1>3 DEF QuotientRule
<1> DEFINE good == {k \in 0..v : q[k] \in Int /\ q[k] <= v - k}
<1>6. 0 \in good  BY <1>4
<1>7. ASSUME NEW k \in 0..(v - 1), k \in good PROVE k + 1 \in good
  <2>1. q[k + 1] = (q[k] \div Base) - bias  BY <1>4
  <2>2. q[k] \in Int /\ q[k] <= v - k  BY <1>7
  <2>3. /\ q[k] \div Base \in Int
        /\ q[k] >= 1 => q[k] \div Base <= q[k] - 1
        /\ q[k] <= 0 => q[k] \div Base <= 0
    BY <1>1, <2>2, Divide
  <2> QED  BY <2>1, <2>2, <2>3
<1>8. 0..v \subseteq good
  <2> HIDE DEF good
  <2>1. \A k \in 0..(v - 1) : k \in good => k + 1 \in good  BY <1>7
  <2> QED  BY <1>6, <2>1, Counting
<1>9. \A k \in 0..v : q[k] \in Int /\ q[k] <= v - k  BY <1>8
<1>10. q \in [0..v -> Int]  BY <1>5, <1>9
<1> QED  BY <1>4, <1>9, <1>10 DEF q

(* The digits are those of the quotients down to the first that is a digit.*)
LEMMA DigitsAre ==
    ASSUME NEW v \in Nat, NEW bias \in {0, 1}
    PROVE  \E last \in 0..v :
              LET q == Quotients(v, bias)
              IN  /\ Digits(v, bias) = [i \in 1..(last + 1) |-> q[last + 1 - i] % Base]
                  /\ q[last] \in 0..(Base - 1)
                  /\ \A k \in 0..last : q[k] \in Nat
<1> DEFINE q == Quotients(v, bias)
           small == {k \in 0..v : q[k] < Base}
           last == Min(small)
<1>1. Base \in Nat /\ Base >= 2  BY RadixAssumption
<1>2. /\ q \in [0..v -> Int] /\ q[0] = v
      /\ \A k \in 1..v : q[k] = (q[k - 1] \div Base) - bias
      /\ \A k \in 0..v : q[k] <= v - k
  BY QuotientsAre
<1>3. Digits(v, bias) = [i \in 1..(last + 1) |-> q[last + 1 - i] % Base]
  BY DEF Digits
<1> HIDE DEF q
<1>4. v \in small
  <2>1. v \in 0..v /\ q[v] <= v - v /\ q[v] \in Int  BY <1>2
  <2> QED  BY <1>1, <2>1
<1>5. last \in small /\ \A k \in small : last <= k
  <2>1. small \in SUBSET Nat /\ small # {}  BY <1>4
  <2> HIDE DEF small
  <2> QED  BY <2>1, LeastIs
<1> HIDE DEF last
<1>6. last \in 0..v /\ q[last] < Base  BY <1>5
<1>7. \A k \in 0..v : k < last => q[k] >= Base
  <2> TAKE k \in 0..v
  <2> HAVE k < last
  <2>1. k \notin small  BY <1>5
  <2>2. q[k] \in Int  BY <1>2
  <2> QED  BY <1>1, <2>1, <2>2
<1> DEFINE good == {k \in 0..last : q[k] \in Nat}
<1>8. 0 \in good  BY <1>2, <1>6
<1>9. ASSUME NEW k \in 0..(last - 1), k \in good PROVE k + 1 \in good
  <2>1. q[k] >= Base /\ q[k + 1] = (q[k] \div Base) - bias /\ q[k] \in Int
    <3>1. k \in 0..v /\ k < last /\ k + 1 \in 1..v /\ (k + 1) - 1 = k  BY <1>6
    <3>2. q[k + 1] = (q[(k + 1) - 1] \div Base) - bias  BY <1>2, <3>1
    <3> QED  BY <1>2, <1>7, <3>1, <3>2
  <2>2. q[k] \div Base >= 1 /\ q[k] \div Base \in Int  BY <1>1, <2>1, Divide
  <2>3. k + 1 \in 0..last  BY <1>6
  <2>4. q[k + 1] \in Nat  BY <2>1, <2>2
  <2> QED  BY <2>3, <2>4
<1>10. 0..last \subseteq good
  <2>1. last \in Nat  BY <1>6
  <2> HIDE DEF good
  <2>2. \A k \in 0..(last - 1) : k \in good => k + 1 \in good  BY <1>9
  <2> QED  BY <1>8, <2>1, <2>2, Counting
<1>11. last \in 0..last  BY <1>6
<1>12. q[last] \in Nat  BY <1>10, <1>11
<1> QED  BY <1>1, <1>3, <1>6, <1>10, <1>12 DEF q

NumberRule(f, digits, bias) ==
    f = [k \in 0..Len(digits) |->
            IF k = 0 THEN -bias ELSE (f[k - 1] + bias) * Base + digits[k]]

LEMMA NumberIs ==
    \A digits, bias :
        Number(digits, bias) = (CHOOSE f : NumberRule(f, digits, bias))[Len(digits)]
  BY DEF Number, NumberRule

(* Digits with partial sums x up to the number.                            *)
LEMMA NumberOf ==
    ASSUME NEW digits \in Seq(Nat), NEW bias \in {0, 1}, NEW x \in [0..Len(digits) -> Int],
           x[0] = -bias,
           \A k \in 1..Len(digits) : x[k] = (x[k - 1] + bias) * Base + digits[k]
    PROVE  Number(digits, bias) = x[Len(digits)]
<1> DEFINE n == Len(digits)
           f == CHOOSE g : NumberRule(g, digits, bias)
<1>1. NumberRule(x, digits, bias)  BY DEF NumberRule
<1>2. NumberRule(f, digits, bias)  BY <1>1
<1>3. n \in Nat  OBVIOUS
<1> HIDE DEF f
<1> DEFINE good == {k \in 0..n : f[k] = x[k]}
<1>4. 0 \in good  BY <1>2, <1>3 DEF NumberRule
<1>5. ASSUME NEW k \in 0..(n - 1), k \in good PROVE k + 1 \in good
  <2>1. k + 1 \in 1..n /\ (k + 1) - 1 = k  BY <1>3
  <2>2. f[k + 1] = (f[k] + bias) * Base + digits[k + 1]
    <3>1. f[k + 1] = (f[(k + 1) - 1] + bias) * Base + digits[k + 1]
      BY <1>2, <2>1 DEF NumberRule
    <3> QED  BY <2>1, <3>1
  <2>3. x[k + 1] = (x[(k + 1) - 1] + bias) * Base + digits[k + 1]  BY <2>1
  <2>4. f[k] = x[k]  BY <1>5
  <2> QED  BY <2>1, <2>2, <2>3, <2>4
<1>6. 0..n \subseteq good
  <2> HIDE DEF good, n
  <2>1. \A k \in 0..(n - 1) : k \in good => k + 1 \in good  BY <1>5
  <2> QED  BY <1>3, <1>4, <2>1, Counting
<1>7. f[n] = x[n]  BY <1>3, <1>6
<1> QED  BY <1>7, NumberIs DEF f

(* The digits of a number make the number.                                 *)
LEMMA NumberOfDigits ==
    ASSUME NEW v \in Nat, NEW bias \in {0, 1}
    PROVE  /\ Digits(v, bias) \in Seq(0..(Base - 1)) /\ Len(Digits(v, bias)) >= 1
           /\ Number(Digits(v, bias), bias) = v
<1> DEFINE q == Quotients(v, bias)
           d == Digits(v, bias)
<1>1. Base \in Nat /\ Base >= 2  BY RadixAssumption
<1>2. /\ q \in [0..v -> Int] /\ q[0] = v
      /\ \A k \in 1..v : q[k] = (q[k - 1] \div Base) - bias
  BY QuotientsAre
<1>3. PICK last \in 0..v :
          /\ d = [i \in 1..(last + 1) |-> q[last + 1 - i] % Base]
          /\ q[last] \in 0..(Base - 1) /\ \A k \in 0..last : q[k] \in Nat
  BY DigitsAre
<1> HIDE DEF q, d
<1>4. \A i \in 1..(last + 1) : last + 1 - i \in 0..last  OBVIOUS
<1>5. ASSUME NEW i \in 1..(last + 1) PROVE d[i] \in 0..(Base - 1)
  <2>1. d[i] = q[last + 1 - i] % Base /\ q[last + 1 - i] \in Int  BY <1>3, <1>4
  <2> QED  BY <1>1, <2>1, Divide
<1>6. d \in Seq(0..(Base - 1)) /\ Len(d) = last + 1
  BY <1>3, <1>5
<1>7. d \in Seq(Nat)
  <2>1. \A i \in 1..(last + 1) : d[i] \in Nat  BY <1>5
  <2> QED  BY <1>3, <2>1
<1> DEFINE x == [k \in 0..(last + 1) |-> IF k = 0 THEN -bias ELSE q[last + 1 - k]]
<1>8. x \in [0..(last + 1) -> Int]  BY <1>3, <1>4
<1>9. ASSUME NEW k \in 1..(last + 1) PROVE x[k] = (x[k - 1] + bias) * Base + d[k]
  <2> DEFINE j == last + 1 - k
  <2>1. j \in 0..last /\ q[j] \in Int /\ x[k] = q[j]  BY <1>3
  <2>2. d[k] = q[j] % Base  BY <1>3
  <2>3. q[j] = (q[j] \div Base) * Base + (q[j] % Base)  BY <1>1, <2>1, Divide
  <2>4. x[k - 1] + bias = q[j] \div Base
    <3>1. CASE k = 1
      <4>1. j = last /\ x[k - 1] = -bias  BY <3>1
      <4>2. q[j] \div Base = 0  BY <1>1, <1>3, <4>1, Divide
      <4> QED  BY <4>1, <4>2
    <3>2. CASE k # 1
      <4>1. x[k - 1] = q[j + 1] /\ j + 1 \in 1..v /\ (j + 1) - 1 = j  BY <3>2
      <4>2. q[j + 1] = (q[(j + 1) - 1] \div Base) - bias  BY <1>2, <4>1
      <4>3. q[j] \div Base \in Int  BY <1>1, <2>1, Divide
      <4> QED  BY <4>1, <4>2, <4>3
    <3> QED  BY <3>1, <3>2
  <2>5. x[k] = (x[k - 1] + bias) * Base + d[k]
    <3> HIDE DEF x, j
    <3> QED  BY <2>1, <2>2, <2>3, <2>4
  <2> QED  BY <2>5
<1>10. x[0] = -bias /\ x[last + 1] = v  BY <1>2
<1> HIDE DEF x
<1>11. Number(d, bias) = x[last + 1]  BY <1>6, <1>7, <1>8, <1>9, <1>10, NumberOf
<1> QED  BY <1>6, <1>10, <1>11 DEF d

-----------------------------------------------------------------------------
(* Sequences are functions on 1..n, and what \o makes of two.              *)
LEMMA SeqIs ==
    ASSUME NEW S, NEW s \in Seq(S)
    PROVE  /\ Len(s) \in Nat /\ DOMAIN s = 1..Len(s)
           /\ s = [i \in 1..Len(s) |-> s[i]]
           /\ \A i \in 1..Len(s) : s[i] \in S
  OBVIOUS

LEMMA IsSeq ==
    ASSUME NEW S, NEW n \in Nat, NEW s, s = [i \in 1..n |-> s[i]], \A i \in 1..n : s[i] \in S
    PROVE  s \in Seq(S) /\ Len(s) = n /\ DOMAIN s = 1..n
<1>1. s \in [1..n -> S]  OBVIOUS
<1> QED  BY <1>1

LEMMA SameSeq ==
    ASSUME NEW S, NEW s \in Seq(S), NEW t \in Seq(S), Len(s) = Len(t),
           \A i \in 1..Len(s) : s[i] = t[i]
    PROVE  s = t
<1> DEFINE n == Len(s)
<1>1. s = [i \in 1..n |-> s[i]] /\ t = [i \in 1..n |-> t[i]]  BY SeqIs
<1>2. \A i \in 1..n : s[i] = t[i]  OBVIOUS
<1> HIDE DEF n
<1>3. [i \in 1..n |-> s[i]] = [i \in 1..n |-> t[i]]  BY <1>2
<1> QED  BY <1>1, <1>3

LEMMA TailIs ==
    ASSUME NEW S, NEW s \in Seq(S), Len(s) >= 1
    PROVE  /\ Tail(s) \in Seq(S) /\ Len(Tail(s)) = Len(s) - 1
           /\ \A i \in 1..(Len(s) - 1) : Tail(s)[i] = s[i + 1]
<1>1. s # <<>>  OBVIOUS
<1>2. Tail(s) \in Seq(S) /\ Len(Tail(s)) = Len(s) - 1  BY <1>1
<1>3. \A i \in 1..(Len(s) - 1) : Tail(s)[i] = s[i + 1]  BY <1>1
<1> QED  BY <1>2, <1>3

LEMMA ConcatIs ==
    ASSUME NEW S, NEW s \in Seq(S), NEW t \in Seq(S)
    PROVE  /\ s \o t \in Seq(S) /\ Len(s \o t) = Len(s) + Len(t)
           /\ DOMAIN (s \o t) = 1..(Len(s) + Len(t))
           /\ \A i \in 1..Len(s) : (s \o t)[i] = s[i]
           /\ \A i \in 1..Len(t) : (s \o t)[Len(s) + i] = t[i]
  BY SeqIs

(* Pieces can be put together in any order of steps.                       *)
LEMMA ConcatAssoc ==
    \A r, s, t \in Seq(Nat) : (r \o s) \o t = r \o (s \o t)
<1> TAKE r, s, t \in Seq(Nat)
<1> DEFINE left == (r \o s) \o t
           right == r \o (s \o t)
           a == Len(r)
           b == Len(s)
           c == Len(t)
<1>1. a \in Nat /\ b \in Nat /\ c \in Nat  BY SeqIs
<1>2. /\ r \o s \in Seq(Nat) /\ Len(r \o s) = a + b
      /\ \A i \in 1..a : (r \o s)[i] = r[i]
      /\ \A i \in 1..b : (r \o s)[a + i] = s[i]
  BY ConcatIs
<1>3. /\ s \o t \in Seq(Nat) /\ Len(s \o t) = b + c
      /\ \A i \in 1..b : (s \o t)[i] = s[i]
      /\ \A i \in 1..c : (s \o t)[b + i] = t[i]
  BY ConcatIs
<1>4. /\ left \in Seq(Nat) /\ Len(left) = (a + b) + c
      /\ \A i \in 1..(a + b) : left[i] = (r \o s)[i]
      /\ \A i \in 1..c : left[(a + b) + i] = t[i]
  BY <1>2, ConcatIs
<1>5. /\ right \in Seq(Nat) /\ Len(right) = a + (b + c)
      /\ \A i \in 1..a : right[i] = r[i]
      /\ \A i \in 1..(b + c) : right[a + i] = (s \o t)[i]
  BY <1>3, ConcatIs
<1> HIDE DEF left, right, a, b, c
<1>6. ASSUME NEW i \in 1..Len(left) PROVE left[i] = right[i]
  <2>1. CASE i \in 1..a
    <3>1. i \in 1..(a + b)  BY <1>1, <2>1
    <3> QED  BY <1>2, <1>4, <1>5, <2>1, <3>1
  <2>2. CASE i \in (a + 1)..(a + b)
    <3> DEFINE j == i - a
    <3>1. j \in 1..b /\ j \in 1..(b + c) /\ i = a + j /\ i \in 1..(a + b)
      BY <1>1, <2>2
    <3> HIDE DEF j
    <3>2. left[i] = s[j]  BY <1>2, <1>4, <3>1
    <3>3. right[i] = s[j]  BY <1>3, <1>5, <3>1
    <3> QED  BY <3>2, <3>3
  <2>3. CASE i \in ((a + b) + 1)..((a + b) + c)
    <3> DEFINE j == i - (a + b)
    <3>1. j \in 1..c /\ b + j \in 1..(b + c) /\ i = (a + b) + j /\ i = a + (b + j)
      BY <1>1, <2>3
    <3> HIDE DEF j
    <3>2. left[i] = t[j]  BY <1>4, <3>1
    <3>3. right[i] = t[j]  BY <1>3, <1>5, <3>1
    <3> QED  BY <3>2, <3>3
  <2> QED  BY <1>1, <1>4, <2>1, <2>2, <2>3
<1>7. Len(left) = Len(right)  BY <1>1, <1>4, <1>5
<1>8. left = right  BY <1>4, <1>5, <1>6, <1>7, SameSeq
<1> QED  BY <1>8 DEF left, right

LEMMA ConsIs ==
    ASSUME NEW S, NEW x \in S, NEW t \in Seq(S)
    PROVE  /\ <<x>> \o t \in Seq(S) /\ Len(<<x>> \o t) = 1 + Len(t)
           /\ (<<x>> \o t)[1] = x
           /\ \A i \in 1..Len(t) : (<<x>> \o t)[1 + i] = t[i]
           /\ Tail(<<x>> \o t) = t
<1>1. <<x>> \in Seq(S) /\ Len(<<x>>) = 1 /\ <<x>>[1] = x  OBVIOUS
<1>2. /\ <<x>> \o t \in Seq(S) /\ Len(<<x>> \o t) = 1 + Len(t)
      /\ (<<x>> \o t)[1] = x
      /\ \A i \in 1..Len(t) : (<<x>> \o t)[1 + i] = t[i]
  <2> DEFINE h == <<x>>
  <2>1. h \in Seq(S) /\ Len(h) = 1 /\ h[1] = x  BY <1>1
  <2> HIDE DEF h
  <2>2. /\ h \o t \in Seq(S) /\ Len(h \o t) = 1 + Len(t) /\ (h \o t)[1] = x
        /\ \A i \in 1..Len(t) : (h \o t)[1 + i] = t[i]
    BY <2>1, ConcatIs
  <2> QED  BY <2>2 DEF h
<1>3. Tail(<<x>> \o t) = t
  <2> DEFINE c == <<x>> \o t
  <2>1. c \in Seq(S) /\ Len(c) = 1 + Len(t) /\ \A i \in 1..Len(t) : c[1 + i] = t[i]
    BY <1>2
  <2> HIDE DEF c
  <2>2. Len(t) \in Nat /\ t = [i \in 1..Len(t) |-> t[i]]  BY SeqIs
  <2>3. /\ Tail(c) \in Seq(S) /\ Len(Tail(c)) = Len(t)
        /\ \A i \in 1..Len(t) : Tail(c)[i] = c[i + 1]
    BY <2>1, <2>2, TailIs
  <2>4. \A i \in 1..Len(t) : Tail(c)[i] = t[i]  BY <2>1, <2>2, <2>3
  <2>5. Tail(c) = t  BY <2>3, <2>4, SameSeq
  <2> QED  BY <2>5 DEF c
<1> QED  BY <1>2, <1>3

-----------------------------------------------------------------------------
(* What is read up to the first byte without the continuation bit.         *)
LEMMA TakenIs ==
    ASSUME NEW bytes \in Seq(Nat), NEW m \in 1..Len(bytes), bytes[m] < More,
           \A i \in 1..(m - 1) : bytes[i] >= More
    PROVE  Taken(bytes) = SubSeq(bytes, 1, m) /\ EndsIn(bytes)
<1> DEFINE ends == {i \in 1..Len(bytes) : bytes[i] < More}
<1>1. More \in Nat  BY DEF More
<1>2. ends \in SUBSET Nat /\ m \in ends  OBVIOUS
<1>3. Min(ends) \in ends /\ Min(ends) <= m
  <2> HIDE DEF ends
  <2> QED  BY <1>2, LeastIs
<1>4. Min(ends) = m
  <2> DEFINE k == Min(ends)
  <2>1. k \in 1..Len(bytes) /\ bytes[k] < More /\ k <= m  BY <1>3
  <2> HIDE DEF k
  <2>2. ~(k \in 1..(m - 1))  BY <1>1, <2>1
  <2>3. k = m  BY <2>1, <2>2
  <2> QED  BY <2>3 DEF k
<1>5. Taken(bytes) = SubSeq(bytes, 1, m)
  <2>1. Taken(bytes) = LET last == IF ends # {} THEN Min(ends) ELSE 0
                       IN  IF last = 0 THEN bytes ELSE SubSeq(bytes, 1, last)
    BY DEF Taken, SelectInSeq
  <2> HIDE DEF ends
  <2> QED  BY <1>2, <1>4, <2>1
<1>6. m \in DOMAIN bytes  OBVIOUS
<1> QED  BY <1>5, <1>6 DEF EndsIn

(* Flagged digits are read back, whatever follows them.                    *)
LEMMA FlaggedIs ==
    ASSUME NEW d \in Seq(0..(Base - 1)), Len(d) >= 1
    PROVE  /\ Flagged(d) \in Seq(0..255) /\ Flagged(d) \in Seq(Nat)
           /\ Len(Flagged(d)) = Len(d)
           /\ \A i \in 1..(Len(d) - 1) : Flagged(d)[i] >= More
           /\ Flagged(d)[Len(d)] < More
           /\ Unflagged(Flagged(d)) = d
<1> DEFINE f == Flagged(d)
           n == Len(d)
<1>1. Base \in Nat /\ Base <= 128 /\ More = 128  BY RadixAssumption DEF More
<1>2. n \in Nat /\ n >= 1 /\ d = [i \in 1..n |-> d[i]] /\ \A i \in 1..n : d[i] \in 0..127
  <2>1. n \in Nat /\ d = [i \in 1..n |-> d[i]] /\ \A i \in 1..n : d[i] \in 0..(Base - 1)
    BY SeqIs
  <2> HIDE DEF n
  <2>2. \A x \in 0..(Base - 1) : x \in 0..127  BY <1>1
  <2>3. n >= 1  BY DEF n
  <2> QED  BY <2>1, <2>2, <2>3
<1>3. f = [i \in 1..n |-> IF i < n THEN More + d[i] ELSE d[i]]  BY DEF Flagged
<1> HIDE DEF f, n
<1>4. \A i \in 1..n : f[i] \in 0..255 /\ f[i] \in Nat /\ f[i] % More = d[i]
  <2> TAKE i \in 1..n
  <2>1. d[i] \in 0..127  BY <1>2
  <2>2. f[i] = IF i < n THEN 128 + d[i] ELSE d[i]  BY <1>1, <1>3
  <2>3. (128 + d[i]) % 128 = d[i] /\ d[i] % 128 = d[i]
    <3>1. \A x \in 0..127 : (128 + x) % 128 = x /\ x % 128 = x  OBVIOUS
    <3> QED  BY <2>1, <3>1
  <2> DEFINE x == d[i]
             y == f[i]
  <2>4. x \in 0..127 /\ y = (IF i < n THEN 128 + x ELSE x) /\ (128 + x) % 128 = x /\ x % 128 = x
    BY <2>1, <2>2, <2>3
  <2> HIDE DEF x, y
  <2>5. y \in 0..255 /\ y \in Nat /\ y % 128 = x  BY <2>4
  <2> QED  BY <1>1, <2>5 DEF x, y
<1>5. f \in Seq(0..255) /\ f \in Seq(Nat) /\ Len(f) = n
  <2>1. f = [i \in 1..n |-> f[i]]  BY <1>3
  <2>2. ASSUME NEW S, \A i \in 1..n : f[i] \in S PROVE f \in Seq(S) /\ Len(f) = n
    BY <1>2, <2>1, <2>2, IsSeq
  <2>3. \A i \in 1..n : f[i] \in 0..255  BY <1>4
  <2>4. \A i \in 1..n : f[i] \in Nat  BY <1>4
  <2>5. f \in Seq(0..255) /\ Len(f) = n
    <3> DEFINE B == 0..255
    <3>1. \A i \in 1..n : f[i] \in B  BY <2>3
    <3> HIDE DEF B
    <3>2. f \in Seq(B) /\ Len(f) = n  BY <2>2, <3>1
    <3> QED  BY <3>2 DEF B
  <2>6. f \in Seq(Nat)  BY <2>2, <2>4
  <2> QED  BY <2>5, <2>6
<1>6. \A i \in 1..(n - 1) : f[i] >= More
  BY <1>1, <1>2, <1>3
<1>7. f[n] < More
  BY <1>1, <1>2, <1>3
<1>8. Unflagged(f) = d
  <2>1. Unflagged(f) = [i \in 1..n |-> f[i] % More]  BY <1>5 DEF Unflagged
  <2> QED  BY <1>2, <1>4, <2>1
<1> QED  BY <1>5, <1>6, <1>7, <1>8 DEF f, n

LEMMA ReadFlagged ==
    ASSUME NEW d \in Seq(0..(Base - 1)), Len(d) >= 1, NEW rest \in Seq(Nat)
    PROVE  /\ Taken(Flagged(d) \o rest) = Flagged(d)
           /\ EndsIn(Flagged(d) \o rest)
<1> DEFINE f == Flagged(d)
           n == Len(d)
           bytes == f \o rest
<1>1. /\ f \in Seq(Nat) /\ Len(f) = n /\ n \in Nat /\ n >= 1
      /\ \A i \in 1..(n - 1) : f[i] >= More
      /\ f[n] < More
  BY FlaggedIs
<1> HIDE DEF f, n
<1>2. bytes \in Seq(Nat) /\ Len(bytes) = n + Len(rest) /\ Len(rest) \in Nat
  BY <1>1, ConcatIs, SeqIs
<1>3. \A i \in 1..n : bytes[i] = f[i]  BY <1>1, ConcatIs
<1>4. n \in 1..Len(bytes) /\ bytes[n] < More /\ \A i \in 1..(n - 1) : bytes[i] >= More
  BY <1>1, <1>2, <1>3
<1>5. Taken(bytes) = SubSeq(bytes, 1, n) /\ EndsIn(bytes)
  <2> HIDE DEF bytes
  <2> QED  BY <1>2, <1>4, TakenIs
<1>6. SubSeq(bytes, 1, n) = f  BY <1>1
<1> QED  BY <1>5, <1>6 DEF f

(* encodeOfsDelta and readOfsDelta are inverse: the distance to a base is  *)
(* read back as it was written, whatever follows it on the wire, and it is *)
(* refused only beyond the limit (pack_encode.go 160, pack_decode.go 259). *)
THEOREM OfsRoundTrip ==
    ASSUME NEW v \in Nat, NEW rest \in Seq(Nat)
    PROVE  /\ EncodeOfs(v) \in Seq(Nat) /\ Len(EncodeOfs(v)) >= 1
           /\ EndsIn(EncodeOfs(v) \o rest)
           /\ Taken(EncodeOfs(v) \o rest) = EncodeOfs(v)
           /\ ReadOfs(EncodeOfs(v) \o rest).value = v
           /\ ReadOfs(EncodeOfs(v) \o rest).ok <=> v <= MaxDistance
<1> DEFINE d == Digits(v, 1)
<1>1. d \in Seq(0..(Base - 1)) /\ Len(d) >= 1 /\ Number(d, 1) = v
  BY NumberOfDigits
<1>2. EncodeOfs(v) = Flagged(d)  BY DEF EncodeOfs
<1> HIDE DEF d
<1>3. /\ Flagged(d) \in Seq(Nat) /\ Len(Flagged(d)) = Len(d) /\ Unflagged(Flagged(d)) = d
  BY <1>1, FlaggedIs
<1>4. Taken(Flagged(d) \o rest) = Flagged(d) /\ EndsIn(Flagged(d) \o rest)
  BY <1>1, ReadFlagged
<1> QED  BY <1>1, <1>2, <1>3, <1>4 DEF ReadOfs

LEMMA ReverseIs ==
    ASSUME NEW S, NEW s \in Seq(S)
    PROVE  Reverse(s) \in Seq(S) /\ Len(Reverse(s)) = Len(s) /\ Reverse(Reverse(s)) = s
<1> DEFINE n == Len(s)
           r == Reverse(s)
<1>1. n \in Nat /\ s = [i \in 1..n |-> s[i]] /\ \A i \in 1..n : s[i] \in S  OBVIOUS
<1>2. r = [i \in 1..n |-> s[(n - i) + 1]]  BY DEF Reverse
<1> HIDE DEF n, r
<1>3. r \in Seq(S) /\ Len(r) = n
  <2>1. \A i \in 1..n : (n - i) + 1 \in 1..n  BY <1>1
  <2>2. r = [i \in 1..n |-> r[i]] /\ \A i \in 1..n : r[i] \in S  BY <1>1, <1>2, <2>1
  <2> QED  BY <1>1, <2>2, IsSeq
<1>4. Reverse(r) = [i \in 1..n |-> r[(n - i) + 1]]  BY <1>3 DEF Reverse
<1>5. \A i \in 1..n : r[(n - i) + 1] = s[i]
  <2> TAKE i \in 1..n
  <2>1. (n - i) + 1 \in 1..n /\ (n - ((n - i) + 1)) + 1 = i  BY <1>1
  <2> QED  BY <1>2, <2>1
<1> QED  BY <1>1, <1>3, <1>4, <1>5 DEF n, r

(* encodeVarintLE and readVarintLE are inverse: a size is read back as it  *)
(* was written, with the bytes it took (delta.go 105, 122).                *)
THEOREM VarintRoundTrip ==
    ASSUME NEW v \in Nat, NEW rest \in Seq(Nat)
    PROVE  /\ VarintLE(v) \in Seq(Nat) /\ Len(VarintLE(v)) >= 1
           /\ EndsIn(VarintLE(v) \o rest)
           /\ ReadVarintLE(VarintLE(v) \o rest) = [value |-> v, n |-> Len(VarintLE(v))]
<1> DEFINE d == Digits(v, 0)
           r == Reverse(d)
<1>1. d \in Seq(0..(Base - 1)) /\ Len(d) >= 1 /\ Number(d, 0) = v
  BY NumberOfDigits
<1>2. VarintLE(v) = Flagged(r)  BY DEF VarintLE
<1>3. r \in Seq(0..(Base - 1)) /\ Len(r) >= 1 /\ Reverse(r) = d
  <2> HIDE DEF d
  <2> QED  BY <1>1, ReverseIs
<1> HIDE DEF d, r
<1>4. /\ Flagged(r) \in Seq(Nat) /\ Len(Flagged(r)) = Len(r) /\ Unflagged(Flagged(r)) = r
  BY <1>3, FlaggedIs
<1>5. Taken(Flagged(r) \o rest) = Flagged(r) /\ EndsIn(Flagged(r) \o rest)
  BY <1>3, ReadFlagged
<1> QED  BY <1>1, <1>2, <1>3, <1>4, <1>5 DEF ReadVarintLE

(* What WriteObject starts an entry with, readObject reads: the type and   *)
(* the size, however many bytes these take, and it refuses a size only     *)
(* beyond the limit (pack_encode.go 72, pack_decode.go 144).               *)
THEOREM EntryHeadRoundTrip ==
    ASSUME NEW type \in 0..7, NEW size \in Nat, NEW rest \in Seq(Nat)
    PROVE  /\ EntryHead(type, size) \in Seq(Nat) /\ Len(EntryHead(type, size)) >= 1
           /\ EndsIn(EntryHead(type, size) \o rest)
           /\ ReadEntryHead(EntryHead(type, size) \o rest)
                 = [type |-> type, size |-> size, n |-> Len(EntryHead(type, size)),
                    ok |-> size <= MaxObject]
<1> DEFINE low == size % Low
           high == size \div Low
           first == type * 16 + low
           head == EntryHead(type, size)
           bytes == head \o rest
<1>1. Low \in Nat /\ Low >= 2 /\ Low <= 16 /\ More = 128 /\ LowBits = 16
  BY RadixAssumption DEF More, LowBits
<1>8. size <= MaxObject => Len(head) <= MaxHead
  <2>1. ASSUME size <= MaxObject PROVE size \in 0..MaxObject
    <3>1. MaxObject \in Nat  BY LimitAssumption
    <3> QED  BY <2>1, <3>1
  <2> QED  BY <2>1, LimitAssumption
<1>2. /\ low \in 0..(Low - 1) /\ high \in Nat /\ size = high * Low + low
      /\ size < Low => high = 0 /\ low = size
  <2>1. /\ high \in Int /\ low \in 0..(Low - 1) /\ size = high * Low + low
        /\ size \in 0..(Low - 1) => high = 0 /\ low = size
        /\ size >= Low => high >= 1
    <3>1. size \in Int  OBVIOUS
    <3> QED  BY <1>1, <3>1, Divide
  <2> HIDE DEF high, low
  <2> QED  BY <1>1, <2>1
<1>3. /\ head = IF size < Low THEN <<first>> ELSE <<128 + first>> \o VarintLE(high)
  BY <1>1 DEF EntryHead
<1> HIDE DEF low, high, head
<1>4. first \in 0..127 /\ first \div 16 = type /\ first % 16 = low
  <2>1. low \in 0..15  BY <1>1, <1>2
  <2> QED  BY <2>1
<1>5. first % 128 = first /\ (128 + first) % 128 = first
  <2> HIDE DEF first
  <2> QED  BY <1>4
<1> HIDE DEF first
<1>6. CASE size < Low
  <2>1. head = <<first>>  BY <1>3, <1>6
  <2>2. bytes = <<first>> \o rest /\ bytes[1] = first /\ 1 \in DOMAIN bytes
    BY <1>4, <2>1
  <2>3. EndsIn(bytes)  BY <1>1, <1>4, <2>2 DEF EndsIn
  <2>4. ReadEntryHead(bytes) = [type |-> type, size |-> low + Low * 0, n |-> 1 + 0,
                                ok |-> 1 + 0 <= MaxHead /\ low + Low * 0 <= MaxObject]
    BY <1>1, <1>4, <1>5, <2>2 DEF ReadEntryHead
  <2>5. low + Low * 0 = size /\ Len(head) = 1 + 0  BY <1>1, <1>2, <1>4, <1>6, <2>1
  <2>6. (1 + 0 <= MaxHead /\ low + Low * 0 <= MaxObject) <=> size <= MaxObject
    BY <1>8, <2>5
  <2> QED  BY <1>4, <2>1, <2>3, <2>4, <2>5, <2>6 DEF head
<1>7. CASE ~(size < Low)
  <2> DEFINE more == VarintLE(high)
  <2>1. head = <<128 + first>> \o more  BY <1>3, <1>7
  <2>2. /\ more \in Seq(Nat) /\ Len(more) >= 1 /\ EndsIn(more \o rest)
        /\ ReadVarintLE(more \o rest) = [value |-> high, n |-> Len(more)]
    BY <1>2, VarintRoundTrip
  <2> HIDE DEF more
  <2>3. head \in Seq(Nat) /\ Len(head) = 1 + Len(more)
    <3>1. 128 + first \in Nat  BY <1>4
    <3> QED  BY <2>1, <2>2, <3>1, ConsIs
  <2> DEFINE tail == more \o rest
             byte == 128 + first
  <2>4. /\ bytes \in Seq(Nat) /\ Len(bytes) = 1 + Len(tail)
        /\ bytes[1] = byte /\ Tail(bytes) = tail
        /\ \A i \in 1..Len(tail) : bytes[1 + i] = tail[i]
    <3>1. byte \in Nat  BY <1>4
    <3>2. tail \in Seq(Nat)  BY <2>2, ConcatIs
    <3>3. bytes = <<byte>> \o tail
      <4> DEFINE h == <<byte>>
      <4>1. h \in Seq(Nat)  BY <3>1
      <4>2. head = h \o more  BY <2>1
      <4> HIDE DEF h
      <4>3. (h \o more) \o rest = h \o (more \o rest)
        <5>1. more \in Seq(Nat)  BY <2>2
        <5> HIDE DEF tail, bytes
        <5> QED  BY <4>1, <5>1, ConcatAssoc, Zenon
      <4> QED  BY <4>2, <4>3 DEF h
    <3> HIDE DEF byte, tail, bytes
    <3> QED  BY <3>1, <3>2, <3>3, ConsIs
  <2>5. EndsIn(bytes)
    <3>1. tail \in Seq(Nat)  BY <2>2, ConcatIs
    <3>2. PICK i \in DOMAIN tail : tail[i] < More  BY <2>2 DEF EndsIn
    <3> HIDE DEF tail, bytes
    <3>3. i \in 1..Len(tail) /\ Len(tail) \in Nat  BY <3>1, <3>2, SeqIs
    <3>4. 1 + i \in DOMAIN bytes  BY <2>4, <3>3, SeqIs
    <3> QED  BY <2>4, <3>2, <3>3, <3>4 DEF EndsIn
  <2> DEFINE z == low + Low * high
             k == 1 + Len(more)
  <2>6. ReadEntryHead(bytes) = [type |-> type, size |-> z, n |-> k,
                                ok |-> k <= MaxHead /\ z <= MaxObject]
    <3>1. byte % 128 = first /\ ~(byte < 128)  BY <1>4, <1>5
    <3>2. ReadVarintLE(tail) = [value |-> high, n |-> Len(more)]  BY <2>2
    <3> HIDE DEF bytes, tail, byte
    <3>3. bytes[1] % More = first /\ ~(bytes[1] < More) /\ Tail(bytes) = tail
      BY <1>1, <2>4, <3>1
    <3>4. ReadEntryHead(bytes) = [type |-> first \div 16,
                                  size |-> (first % 16) + Low * ReadVarintLE(tail).value,
                                  n |-> 1 + ReadVarintLE(tail).n,
                                  ok |-> /\ 1 + ReadVarintLE(tail).n <= MaxHead
                                         /\ (first % 16) + Low * ReadVarintLE(tail).value
                                              <= MaxObject]
      BY <1>1, <3>3 DEF ReadEntryHead
    <3>5. 1 + ReadVarintLE(tail).n = k /\ (first % 16) + Low * ReadVarintLE(tail).value = z
      BY <1>4, <3>2
    <3>6. first \div 16 = type  BY <1>4
    <3> HIDE DEF z, k
    <3> QED  BY <3>4, <3>5, <3>6
  <2>7. z = size /\ Len(head) = k  BY <1>1, <1>2, <2>3
  <2> HIDE DEF z, k
  <2>8. (k <= MaxHead /\ z <= MaxObject) <=> size <= MaxObject  BY <1>8, <2>7
  <2> QED  BY <2>2, <2>3, <2>5, <2>6, <2>7, <2>8 DEF head
<1> QED  BY <1>6, <1>7

-----------------------------------------------------------------------------
(* A sequence without repetitions is as long as the set of its members.    *)
LEMMA NoRepetition ==
    ASSUME NEW S, NEW s \in Seq(S), IsInjective(s)
    PROVE  Cardinality(ToSet(s)) = Len(s)
<1>1. Len(s) \in Nat /\ DOMAIN s = 1..Len(s)  OBVIOUS
<1>2. s \in [1..Len(s) -> ToSet(s)]  BY <1>1 DEF ToSet
<1>3. s \in Injection(1..Len(s), ToSet(s)) /\ s \in Surjection(1..Len(s), ToSet(s))
  BY <1>1, <1>2 DEF Injection, Surjection, IsInjective, ToSet
<1>4. IsFiniteSet(1..Len(s)) /\ Cardinality(1..Len(s)) = Len(s)  BY <1>1, FS_Interval
<1> QED  BY <1>3, <1>4, FS_Surjection

LEMMA AppendNew ==
    ASSUME NEW S, NEW s \in Seq(S), IsInjective(s), NEW x \in S, x \notin ToSet(s)
    PROVE  IsInjective(Append(s, x))
<1>1. /\ DOMAIN Append(s, x) = 1..(Len(s) + 1) /\ DOMAIN s = 1..Len(s) /\ Len(s) \in Nat
      /\ \A i \in 1..(Len(s) + 1) : Append(s, x)[i] = IF i = Len(s) + 1 THEN x ELSE s[i]
  OBVIOUS
<1>2. \A i \in 1..Len(s) : s[i] # x  BY <1>1 DEF ToSet
<1>3. \A i, j \in 1..Len(s) : s[i] = s[j] => i = j  BY <1>1 DEF IsInjective
<1> QED  BY <1>1, <1>2, <1>3 DEF IsInjective

-----------------------------------------------------------------------------
(* What is left of a sequence without the members of a set.                *)
KeptRule(f, s, S) ==
    f = [n \in 0..Len(s) |->
            IF n = 0 THEN <<>>
            ELSE IF s[n] \in S THEN f[n - 1]
            ELSE Append(f[n - 1], s[n])]

LEMMA WithoutRule == \A s, S : Without(s, S) = (CHOOSE f : KeptRule(f, s, S))[Len(s)]
  BY DEF Without, KeptRule

LEMMA WithoutIs ==
    ASSUME NEW E, NEW L \in Seq(E), NEW G
    PROVE  /\ Without(L, G) \in Seq(E)
           /\ ToSet(Without(L, G)) = ToSet(L) \ G
           /\ IsInjective(L) => IsInjective(Without(L, G))
<1> DEFINE n == Len(L)
           Next1(i, s) == IF L[i] \in G THEN s ELSE Append(s, L[i])
           Rule(g) == g = [i \in 0..n |-> IF i = 0 THEN <<>>
                                          ELSE IF L[i] \in G THEN g[i - 1]
                                          ELSE Append(g[i - 1], L[i])]
           f == CHOOSE g : Rule(g)
<1>1. n \in Nat /\ DOMAIN L = 1..n /\ \A i \in 1..n : L[i] \in E
  OBVIOUS
<1>2. \E g : Rule(g)
  <2> DEFINE step == [p \in (1..n) \X Seq(E) |-> Next1(p[1], p[2])]
  <2>1. \A i \in 1..n, s \in Seq(E) : Next1(i, s) \in Seq(E)  BY <1>1
  <2>2. step \in [(1..n) \X Seq(E) -> Seq(E)]  BY <2>1
  <2>3. \A i \in 1..n, s \in Seq(E) : step[<<i, s>>] = Next1(i, s)  OBVIOUS
  <2>4. <<>> \in Seq(E)  OBVIOUS
  <2>5. PICK g \in [0..n -> Seq(E)] : Follows(g, n, <<>>, step)
    <3>1. n \in Nat  BY <1>1
    <3> HIDE DEF step, n
    <3> QED  BY <2>2, <2>4, <3>1, Recursion
  <2>6. ASSUME NEW i \in 1..n PROVE g[i] = Next1(i, g[i - 1])
    <3>1. g[i - 1] \in Seq(E)  BY <1>1
    <3>2. step[<<i, g[i - 1]>>] = Next1(i, g[i - 1])  BY <2>3, <3>1
    <3> HIDE DEF step, Next1
    <3> QED  BY <2>5, <3>2 DEF Follows
  <2>7. g = [i \in 0..n |-> IF i = 0 THEN <<>> ELSE Next1(i, g[i - 1])]
    <3> HIDE DEF Next1
    <3> QED  BY <1>1, <2>5, <2>6 DEF Follows
  <2>8. Rule(g)  BY <2>7
  <2> QED  BY <2>8
<1>3. Without(L, G) = f[n]  BY WithoutRule DEF KeptRule
<1>4. Rule(f)
  <2> HIDE DEF Rule
  <2> QED  BY <1>2
<1> HIDE DEF f
<1>5. f[0] = <<>> /\ \A i \in 1..n : f[i] = Next1(i, f[i - 1])
  <2>1. 0 \in 0..n /\ \A i \in 1..n : i \in 0..n /\ i # 0  BY <1>1
  <2> HIDE DEF n
  <2> QED  BY <1>4, <2>1
<1> HIDE DEF Rule
<1> DEFINE Upto(i) == {L[j] : j \in 1..i} \ G
           good == {i \in 0..n : /\ f[i] \in Seq(E) /\ ToSet(f[i]) = Upto(i)
                                 /\ IsInjective(L) => IsInjective(f[i])}
<1>6. 0 \in good
  <2>1. Upto(0) = {}  OBVIOUS
  <2>2. f[0] \in Seq(E) /\ ToSet(f[0]) = {} /\ IsInjective(f[0])
    BY <1>5 DEF ToSet, IsInjective
  <2>3. 0 \in 0..n  BY <1>1
  <2> HIDE DEF n, Upto
  <2> QED  BY <2>1, <2>2, <2>3
<1>7. ASSUME NEW k \in 0..(n - 1), k \in good PROVE k + 1 \in good
  <2> DEFINE x == L[k + 1]
  <2>1. x \in E /\ k + 1 \in 0..n  BY <1>1
  <2>2. f[k] \in Seq(E) /\ ToSet(f[k]) = Upto(k) /\ (IsInjective(L) => IsInjective(f[k]))
    BY <1>7
  <2>3. f[k + 1] = IF x \in G THEN f[k] ELSE Append(f[k], x)
    <3>1. f[k + 1] = Next1(k + 1, f[(k + 1) - 1])  BY <1>5, <1>1
    <3>2. (k + 1) - 1 = k  OBVIOUS
    <3> QED  BY <3>1, <3>2
  <2>4. Upto(k + 1) = IF x \in G THEN Upto(k) ELSE Upto(k) \cup {x}
    <3>1. 1..(k + 1) = (1..k) \cup {k + 1}  OBVIOUS
    <3> QED  BY <3>1
  <2>5. IsInjective(L) => x \notin Upto(k)
    <3>1. \A j \in 1..k : j \in DOMAIN L /\ k + 1 \in DOMAIN L /\ j # k + 1  BY <1>1
    <3> QED  BY <3>1 DEF IsInjective
  <2> HIDE DEF x, Upto
  <2>6. ToSet(Append(f[k], x)) = ToSet(f[k]) \cup {x}  BY <2>1, <2>2, SetOfAppend
  <2>7. Append(f[k], x) \in Seq(E)  BY <2>1, <2>2
  <2>8. IsInjective(L) => IsInjective(Append(f[k], x))
    BY <2>1, <2>2, <2>5, AppendNew
  <2> QED  BY <2>1, <2>2, <2>3, <2>4, <2>6, <2>7, <2>8
<1>8. f[n] \in Seq(E) /\ ToSet(f[n]) = Upto(n) /\ (IsInjective(L) => IsInjective(f[n]))
  <2> HIDE DEF good
  <2>1. \A k \in 0..(n - 1) : k \in good => k + 1 \in good  BY <1>7
  <2>2. 0..n \subseteq good  BY <1>1, <1>6, <2>1, Counting
  <2>3. n \in good  BY <1>1, <2>2
  <2> QED  BY <2>3 DEF good
<1>9. {L[j] : j \in 1..n} = ToSet(L)  BY <1>1 DEF ToSet
<1> HIDE DEF n
<1> QED  BY <1>3, <1>8, <1>9

(* The names of an object are its links without the submodules.            *)
LEMMA Kept ==
    ASSUME NEW o \in Objects
    PROVE  /\ RefsOf(o) \in Seq(Nat)
           /\ ToSet(RefsOf(o)) = Kids(o)
<1>1. Links[o] \in Seq(Nat)  BY TransferAssumption
<1> QED  BY <1>1, WithoutIs DEF RefsOf, Kids

-----------------------------------------------------------------------------
(* What is reachable is the least set that is closed under the links.      *)
More1(s, known) == s \cup (known \cap UNION {Kids(o) : o \in s})

Closed(s, known) == \A o \in s : Kids(o) \cap known \subseteq s

LeastClosed(s, known) ==
    {o \in known : \A t \in SUBSET known : s \subseteq t /\ Closed(t, known) => o \in t}

GrowRule(f, known) ==
    f = [s \in SUBSET known |->
            IF More1(s, known) = s THEN s ELSE f[More1(s, known)]]

GrownIn(known) == CHOOSE f : GrowRule(f, known)

LEMMA ReachIs == \A os, known : Reach(os, known) = GrownIn(known)[os \cap known]
  BY DEF Reach, GrownIn, GrowRule, More1

LEMMA LeastGrows ==
    ASSUME NEW known, NEW s \in SUBSET known
    PROVE  /\ More1(s, known) \in SUBSET known /\ s \subseteq More1(s, known)
           /\ LeastClosed(s, known) = IF More1(s, known) = s THEN s
                                      ELSE LeastClosed(More1(s, known), known)
<1>1. More1(s, known) \in SUBSET known /\ s \subseteq More1(s, known)
  BY DEF More1
<1>2. ASSUME NEW t \in SUBSET known, Closed(t, known)
      PROVE  s \subseteq t <=> More1(s, known) \subseteq t
  BY <1>2 DEF Closed, More1
<1>3. LeastClosed(s, known) = LeastClosed(More1(s, known), known)
  BY <1>2 DEF LeastClosed
<1>4. ASSUME More1(s, known) = s PROVE LeastClosed(s, known) = s
  <2>1. Closed(s, known)  BY <1>4 DEF Closed, More1
  <2> QED  BY <2>1 DEF LeastClosed
<1> QED  BY <1>1, <1>3, <1>4

LEMMA GrownIsLeast ==
    ASSUME NEW known, IsFiniteSet(known), NEW s \in SUBSET known
    PROVE  GrownIn(known)[s] = LeastClosed(s, known)
<1> DEFINE g == GrownIn(known)
           f == [r \in SUBSET known |-> LeastClosed(r, known)]
           wrong == {r \in SUBSET known : g[r] # LeastClosed(r, known)}
           left == {known \ r : r \in wrong}
<1>1. GrowRule(g, known)
  <2>1. \A r \in SUBSET known :
            f[r] = IF More1(r, known) = r THEN r ELSE f[More1(r, known)]
    BY LeastGrows
  <2>2. GrowRule(f, known)  BY <2>1 DEF GrowRule
  <2> HIDE DEF f
  <2> QED  BY <2>2 DEF GrownIn
<1> HIDE DEF g
<1>2. SUFFICES ASSUME wrong # {} PROVE FALSE
  BY DEF g
<1>3. left \subseteq FiniteSubsetsOf(known) /\ left # {}
  <2>1. \A r : IsFiniteSet(known \ r)
    <3> TAKE r
    <3>1. known \ r \in SUBSET known  OBVIOUS
    <3> QED  BY <3>1, FS_Subset
  <2>2. left # {}  BY <1>2
  <2>3. \A n \in left : n \in SUBSET known /\ IsFiniteSet(n)  BY <2>1
  <2> HIDE DEF left
  <2> QED  BY <2>2, <2>3 DEF FiniteSubsetsOf
<1>4. PICK m \in left : \A n \in left : <<n, m>> \notin StrictSubsetOrdering(known)
  <2> HIDE DEF left
  <2> QED  BY <1>3, FS_StrictSubsetOrderingWellFounded, WFMin
<1>5. PICK r \in wrong : m = known \ r
  OBVIOUS
<1>6. g[r] = IF More1(r, known) = r THEN r ELSE g[More1(r, known)]
  BY <1>1 DEF GrowRule
<1>7. More1(r, known) # r /\ More1(r, known) \in SUBSET known /\ r \subseteq More1(r, known)
  BY <1>6, LeastGrows
<1>8. known \ More1(r, known) \notin left
  BY <1>4, <1>5, <1>7 DEF StrictSubsetOrdering
<1>9. g[More1(r, known)] = LeastClosed(More1(r, known), known)
  BY <1>7, <1>8
<1> QED  BY <1>6, <1>7, <1>9, LeastGrows

LEMMA Reachable ==
    ASSUME NEW os, NEW known \in SUBSET Objects
    PROVE  /\ Reach(os, known) \subseteq known
           /\ os \cap known \subseteq Reach(os, known)
           /\ Closed(Reach(os, known), known)
           /\ \A s : os \cap known \subseteq s /\ Closed(s \cap known, known)
                     => Reach(os, known) \subseteq s
<1>1. IsFiniteSet(known)  BY TransferAssumption, FS_Subset
<1>2. Reach(os, known) = LeastClosed(os \cap known, known)
  BY <1>1, ReachIs, GrownIsLeast
<1>3. Closed(Reach(os, known), known)
  BY <1>2 DEF Closed, LeastClosed
<1>4. ASSUME NEW s, os \cap known \subseteq s, Closed(s \cap known, known)
      PROVE  Reach(os, known) \subseteq s
  <2>1. s \cap known \in SUBSET known /\ os \cap known \subseteq s \cap known  BY <1>4
  <2> QED  BY <1>2, <1>4, <2>1 DEF LeastClosed
<1> QED  BY <1>2, <1>3, <1>4 DEF LeastClosed

-----------------------------------------------------------------------------
(* The sequences made of a set have the members of the set, once each.     *)
LEMMA SetAsSeq ==
    ASSUME NEW S, IsFiniteSet(S)
    PROVE  SetToSeq(S) \in Seq(S) /\ ToSet(SetToSeq(S)) = S
<1> DEFINE n == Cardinality(S)
           f == SetToSeq(S)
<1>1. n \in Nat /\ ExistsBijection(1..n, S)
  BY FS_CardinalityType
<1>2. PICK b \in Bijection(1..n, S) : TRUE
  BY <1>1 DEF ExistsBijection
<1>3. b \in [1..n -> S] /\ IsInjective(b)
  BY <1>2 DEF Bijection, Injection, IsInjective
<1>4. f \in [1..n -> S] /\ IsInjective(f)
  BY <1>3 DEF SetToSeq
<1>5. ToSet(f) = S
  <2>1. f \in Injection(1..n, S)  BY <1>4 DEF Injection, IsInjective
  <2>2. Cardinality(1..n) = n  BY <1>1, FS_Interval
  <2>3. f \in Surjection(1..n, S)
    <3> HIDE DEF f
    <3> QED  BY <2>1, <2>2, FS_Injection
  <2> QED  BY <2>3 DEF Surjection, ToSet
<1> QED  BY <1>1, <1>4, <1>5

LEMMA OrderOfSet ==
    ASSUME NEW S, IsFiniteSet(S), NEW f \in SetToSeqs(S)
    PROVE  f \in Seq(S) /\ ToSet(f) = S /\ IsInjective(f)
<1> DEFINE n == Cardinality(S)
<1>1. n \in Nat  BY FS_CardinalityType
<1>2. f \in [1..n -> S] /\ \A i, j \in 1..n : i # j => f[i] # f[j]
  BY DEF SetToSeqs
<1>3. f \in Injection(1..n, S)  BY <1>2 DEF Injection, IsInjective
<1>4. Cardinality(1..n) = n  BY <1>1, FS_Interval
<1>5. f \in Surjection(1..n, S)  BY <1>3, <1>4, FS_Injection
<1> QED  BY <1>1, <1>2, <1>5 DEF Surjection, ToSet, IsInjective

-----------------------------------------------------------------------------
(* The inductive invariant.  While the haves are walked, what is excluded  *)
(* or waits has every ref of the client the server has, and all that the   *)
(* readable excluded objects name.  While the wants are walked, what is    *)
(* known or waits has every want and all that the chosen objects name.     *)
Fields == {"at", "peer", "wants", "todo", "exclude", "metas", "start"}

Shape ==
    /\ refs \subseteq Objects
    /\ {"at", "wants"} \subseteq DOMAIN sender
    /\ sender.wants \subseteq Served
    /\ sender.at \in {"idle", "exclude", "walk", "pack", "gone"}
    /\ sender.at \in {"exclude", "walk", "pack"} =>
          /\ Fields \subseteq DOMAIN sender
          /\ sender.exclude \subseteq Closure(refs)
          /\ sender.metas \in Seq(Objects)
    /\ sender.at \in {"exclude", "walk"} => sender.todo \in Seq(Nat)

Excluding ==
    sender.at = "exclude" =>
        LET near == sender.exclude \cup ToSet(sender.todo)
        IN  /\ sender.metas = <<>>
            /\ ToSet(sender.todo) \cap Objects \subseteq Closure(refs)
            /\ refs \cap Has \subseteq near
            /\ \A o \in sender.exclude \ damaged : Kids(o) \cap Has \subseteq near

Walking ==
    sender.at = "walk" =>
        LET sent == ToSet(sender.metas)
            near == sent \cup sender.exclude \cup ToSet(sender.todo)
        IN  /\ IsInjective(sender.metas)
            /\ sent \cap sender.exclude = {}
            /\ Reach(refs, Has \ damaged) \subseteq sender.exclude
            /\ sender.wants \subseteq near
            /\ \A o \in sent : Kids(o) \subseteq near
            /\ sent \cup ToSet(sender.todo) \subseteq Closure(sender.wants)

SendInv == Shape /\ Excluding /\ Walking /\ SentExactly

LEMMA Graph ==
    /\ Objects \subseteq Nat /\ Served \subseteq Objects /\ Has \subseteq Objects
    /\ IsFiniteSet(Objects)
    /\ \A S \in SUBSET Objects : IsFiniteSet(S)
  BY TransferAssumption, FS_Subset DEF Has

(* What the closure of the client's refs promises.                         *)
LEMMA ClosureIs ==
    ASSUME NEW os \in SUBSET Objects
    PROVE  /\ Closure(os) \subseteq Objects
           /\ os \subseteq Closure(os)
           /\ \A o \in Closure(os) : Kids(o) \cap Objects \subseteq Closure(os)
           /\ \A s : os \subseteq s /\ Closed(s \cap Objects, Objects) => Closure(os) \subseteq s
<1>1. os \cap Objects = os  OBVIOUS
<1> QED  BY <1>1, Reachable DEF Closure, Closed

LEMMA InitSend == Init => SendInv
<1> SUFFICES ASSUME Init PROVE SendInv  OBVIOUS
<1>1. sender = [at |-> "idle", wants |-> {}]  BY DEF Init, Idle
<1>2. refs \subseteq Objects  BY TransferAssumption DEF Init
<1>3. /\ sender.at = "idle" /\ sender.wants = {} /\ {"at", "wants"} \subseteq DOMAIN sender
  BY <1>1
<1> QED  BY <1>2, <1>3 DEF SendInv, Shape, Excluding, Walking, SentExactly

(* A step that leaves the sender neither walking nor packing.              *)
LEMMA Quiet ==
    ASSUME {"at", "wants"} \subseteq DOMAIN sender', sender'.at \in {"idle", "gone"},
           sender'.wants \subseteq Served, refs' \subseteq Objects
    PROVE  SendInv'
<1>1. sender'.at \notin {"exclude", "walk", "pack"}  OBVIOUS
<1>2. Shape'  BY <1>1 DEF Shape
<1>3. Excluding' /\ Walking' /\ SentExactly'  BY <1>1 DEF Excluding, Walking, SentExactly
<1> QED  BY <1>2, <1>3 DEF SendInv

LEMMA GiveUpQuiet ==
    ASSUME Shape, refs' = refs, sender' = [sender EXCEPT !.at = "gone"]
    PROVE  SendInv'
<1>1. /\ DOMAIN sender' = DOMAIN sender /\ sender'.at = "gone" /\ sender'.wants = sender.wants
  BY DEF Shape
<1> QED  BY <1>1, Quiet DEF Shape

(* A step that leaves alone what the invariant speaks of.                  *)
LEMMA SameSend ==
    ASSUME SendInv, refs' = refs, lost' = lost, damaged' = damaged, sender' = sender
    PROVE  SendInv'
<1>1. Has' = Has  BY DEF Has
<1>2. \A S : Closure(S)' = Closure(S)  BY DEF Closure, Reach
<1> QED  BY <1>1, <1>2 DEF SendInv, Shape, Excluding, Walking, SentExactly

-----------------------------------------------------------------------------
Server == refs' = refs /\ lost' = lost /\ damaged' = damaged

LEMMA SameServer ==
    ASSUME Server
    PROVE  Has' = Has /\ Closure(refs)' = Closure(refs)
           /\ Reach(refs, Has \ damaged)' = Reach(refs, Has \ damaged)
<1>1. Has' = Has  BY DEF Server, Has
<1> QED  BY <1>1 DEF Server, Closure, Reach

LEMMA FetchSend == ASSUME SendInv, Fetch PROVE SendInv'
<1>1. PICK tips \in Tips, peer \in {"pgit", "git"} :
          sender' = [at |-> "exclude", peer |-> peer, wants |-> tips, todo |-> SetToSeq(refs),
                     exclude |-> {}, metas |-> <<>>, start |-> [o \in {} |-> 0]]
  BY DEF Fetch
<1>2. Server  BY DEF Fetch, Server, serverVars, clientVars
<1>3. /\ sender'.at = "exclude" /\ sender'.wants = tips /\ sender'.todo = SetToSeq(refs)
      /\ sender'.exclude = {} /\ sender'.metas = <<>> /\ DOMAIN sender' = Fields
  BY <1>1 DEF Fields
<1>4. refs \subseteq Objects /\ IsFiniteSet(refs)  BY Graph DEF SendInv, Shape
<1>5. SetToSeq(refs) \in Seq(refs) /\ ToSet(SetToSeq(refs)) = refs  BY <1>4, SetAsSeq
<1>6. SetToSeq(refs) \in Seq(Nat)
  <2>1. refs \subseteq Nat  BY <1>4, Graph
  <2> QED  BY <1>5, <2>1, WiderSeq
<1>7. refs \subseteq Closure(refs)  BY <1>4, ClosureIs
<1>8. Shape'
  <2>1. tips \subseteq Served  BY TransferAssumption
  <2>2. <<>> \in Seq(Objects)  OBVIOUS
  <2> QED  BY <1>2, <1>3, <1>4, <1>6, <2>1, <2>2 DEF Shape, Server, Fields
<1>9. Excluding'  BY <1>2, <1>3, <1>5, <1>7, SameServer DEF Excluding, Server
<1>10. Walking' /\ SentExactly'  BY <1>3 DEF Walking, SentExactly
<1> QED  BY <1>8, <1>9, <1>10 DEF SendInv

LEMMA ExcludeSend == ASSUME SendInv, Exclude PROVE SendInv'
<1> DEFINE T == ToSet(sender.todo)
           X == sender.exclude
           o == Head(sender.todo)
           rest == ToSet(Tail(sender.todo))
           skip == o \in X \/ o \notin Has \/ o \in damaged
<1>1. /\ sender.at = "exclude" /\ sender.todo # <<>> /\ Server
      /\ sender' = [sender EXCEPT
              !.exclude = IF o \in Has THEN @ \cup {o} ELSE @,
              !.todo = IF skip THEN Tail(@) ELSE Tail(@) \o RefsOf(o)]
  BY DEF Exclude, Server, serverVars, clientVars
<1>2. /\ Fields \subseteq DOMAIN sender /\ sender.todo \in Seq(Nat) /\ sender.wants \subseteq Served
      /\ X \subseteq Closure(refs) /\ refs \subseteq Objects /\ sender.metas = <<>>
      /\ T \cap Objects \subseteq Closure(refs) /\ refs \cap Has \subseteq X \cup T
      /\ \A x \in X \ damaged : Kids(x) \cap Has \subseteq X \cup T
  BY <1>1 DEF SendInv, Shape, Excluding
<1>3. o \in Nat /\ Tail(sender.todo) \in Seq(Nat) /\ T = {o} \cup rest
  BY <1>1, <1>2, SetOfTail
<1>4. /\ DOMAIN sender' = DOMAIN sender /\ sender'.at = "exclude"
      /\ sender'.wants = sender.wants /\ sender'.metas = <<>>
      /\ sender'.exclude = IF o \in Has THEN X \cup {o} ELSE X
      /\ sender'.todo = IF skip THEN Tail(sender.todo) ELSE Tail(sender.todo) \o RefsOf(o)
  BY <1>1, <1>2 DEF Fields
<1>5. /\ sender'.todo \in Seq(Nat)
      /\ ToSet(sender'.todo) = IF skip THEN rest ELSE rest \cup Kids(o)
  <2>1. CASE skip  BY <1>3, <1>4, <2>1
  <2>2. CASE ~skip
    <3> DEFINE r == RefsOf(o)
               s == Tail(sender.todo)
    <3>1. o \in Objects  BY <2>2, Graph
    <3>2. r \in Seq(Nat) /\ ToSet(r) = Kids(o)  BY <3>1, Kept
    <3>3. s \in Seq(Nat) /\ ToSet(s) = rest /\ sender'.todo = s \o r  BY <1>3, <1>4, <2>2
    <3> HIDE DEF r, s, rest, skip
    <3>4. s \o r \in Seq(Nat) /\ ToSet(s \o r) = ToSet(s) \cup ToSet(r)
      BY <3>2, <3>3, SetOfConcat
    <3> QED  BY <2>2, <3>2, <3>3, <3>4
  <2> QED  BY <2>1, <2>2
<1>6. o \in Has => o \in Closure(refs) /\ Kids(o) \cap Objects \subseteq Closure(refs)
  BY <1>2, <1>3, Graph, ClosureIs
<1> HIDE DEF T, X, o, rest, skip
<1>7. Shape'
  <2>1. <<>> \in Seq(Objects)  OBVIOUS
  <2>2. sender'.exclude \subseteq Closure(refs)  BY <1>2, <1>4, <1>6
  <2> QED  BY <1>1, <1>2, <1>4, <1>5, <2>1, <2>2 DEF Shape, Server, Fields
<1>8. Excluding'
  <2> DEFINE near == X \cup T
             new == sender'.exclude \cup ToSet(sender'.todo)
  <2>1. near \cap Has \subseteq new  BY <1>3, <1>4, <1>5
  <2>2. ToSet(sender'.todo) \cap Objects \subseteq Closure(refs)
    BY <1>2, <1>3, <1>5, <1>6 DEF skip
  <2>3. refs \cap Has \subseteq new  BY <1>2, <2>1
  <2>4. ASSUME NEW x \in sender'.exclude \ damaged PROVE Kids(x) \cap Has \subseteq new
    <3>1. CASE x \in X
      <4>1. Kids(x) \cap Has \subseteq near  BY <1>2, <2>4, <3>1
      <4> QED  BY <2>1, <4>1
    <3>2. CASE x \notin X
      <4>1. x = o /\ ~skip  BY <1>4, <2>4, <3>2 DEF skip
      <4> QED  BY <1>5, <4>1
    <3> QED  BY <3>1, <3>2
  <2> QED  BY <1>1, <1>4, <2>2, <2>3, <2>4, SameServer DEF Excluding, Server
<1>9. Walking' /\ SentExactly'  BY <1>4 DEF Walking, SentExactly
<1> QED  BY <1>7, <1>8, <1>9 DEF SendInv

LEMMA ExcludeEndsSend == ASSUME SendInv, ExcludeEnds PROVE SendInv'
<1> DEFINE X == sender.exclude
           read == Has \ damaged
<1>1. PICK order \in SetToSeqs(sender.wants) :
          sender' = [sender EXCEPT !.at = "walk", !.todo = order]
  BY DEF ExcludeEnds
<1>2. sender.at = "exclude" /\ sender.todo = <<>> /\ Server
  BY DEF ExcludeEnds, Server, serverVars, clientVars
<1>3. /\ Fields \subseteq DOMAIN sender /\ sender.wants \subseteq Served
      /\ X \subseteq Closure(refs) /\ refs \subseteq Objects /\ sender.metas = <<>>
      /\ refs \cap Has \subseteq X \cup ToSet(sender.todo)
      /\ \A x \in X \ damaged : Kids(x) \cap Has \subseteq X \cup ToSet(sender.todo)
  BY <1>2 DEF SendInv, Shape, Excluding
<1>4. ToSet(sender.todo) = {}  BY <1>2 DEF ToSet
<1>5. /\ DOMAIN sender' = DOMAIN sender /\ sender'.at = "walk" /\ sender'.todo = order
      /\ sender'.wants = sender.wants /\ sender'.metas = <<>> /\ sender'.exclude = X
  BY <1>1, <1>3 DEF Fields
<1>6. order \in Seq(Nat) /\ ToSet(order) = sender.wants
  <2>1. sender.wants \subseteq Objects /\ sender.wants \subseteq Nat
        /\ IsFiniteSet(sender.wants)  BY <1>3, Graph
  <2>2. order \in Seq(sender.wants) /\ ToSet(order) = sender.wants
    BY <2>1, OrderOfSet
  <2> QED  BY <2>1, <2>2
<1>7. Reach(refs, read) \subseteq X
  <2>1. refs \cap read \subseteq X  BY <1>3, <1>4
  <2>2. Closed(X \cap read, read)  BY <1>3, <1>4 DEF Closed
  <2>3. read \in SUBSET Objects  BY Graph
  <2> HIDE DEF read, X
  <2> QED  BY <2>1, <2>2, <2>3, Reachable
<1>8. Shape'
  <2>1. <<>> \in Seq(Objects)  OBVIOUS
  <2> QED  BY <1>2, <1>3, <1>5, <1>6, <2>1 DEF Shape, Server, Fields
<1>9. Walking'
  <2>1. ToSet(sender'.metas) = {} /\ IsInjective(sender'.metas)
    BY <1>5 DEF ToSet, IsInjective
  <2>2. sender.wants \subseteq Closure(sender.wants)
    <3>1. sender.wants \in SUBSET Objects  BY <1>3, Graph
    <3> QED  BY <3>1, ClosureIs
  <2>3. ToSet(sender'.metas) \cup ToSet(sender'.todo) \subseteq Closure(sender'.wants)
    BY <1>5, <1>6, <2>1, <2>2
  <2> QED  BY <1>2, <1>5, <1>6, <1>7, <2>1, <2>3, SameServer DEF Walking
<1>10. Excluding' /\ SentExactly'  BY <1>5 DEF Excluding, SentExactly
<1> QED  BY <1>8, <1>9, <1>10 DEF SendInv

LEMMA WalkSend == ASSUME SendInv, Walk PROVE SendInv'
<1> DEFINE T == ToSet(sender.todo)
           X == sender.exclude
           M == ToSet(sender.metas)
           o == Head(sender.todo)
           rest == ToSet(Tail(sender.todo))
           near == M \cup X \cup T
           read == Reach(refs, Has \ damaged)
           asked == Closure(sender.wants)
<1>1. sender.at = "walk" /\ sender.todo # <<>> /\ Server
  BY DEF Walk, Server, serverVars, clientVars
<1>2. /\ Fields \subseteq DOMAIN sender /\ sender.todo \in Seq(Nat) /\ sender.wants \subseteq Served
      /\ X \subseteq Closure(refs) /\ refs \subseteq Objects /\ sender.metas \in Seq(Objects)
      /\ IsInjective(sender.metas) /\ M \cap X = {} /\ read \subseteq X
      /\ sender.wants \subseteq near /\ \A x \in M : Kids(x) \subseteq near
      /\ M \cup T \subseteq asked
  BY <1>1 DEF SendInv, Shape, Walking
<1>3. o \in Nat /\ Tail(sender.todo) \in Seq(Nat) /\ T = {o} \cup rest
  BY <1>1, <1>2, SetOfTail
<1>4. Contains(sender.metas, o) <=> o \in M
  <2>1. DOMAIN sender.metas = 1..Len(sender.metas)  BY <1>2
  <2> QED  BY <2>1 DEF Contains, ToSet
<1>5. CASE o \in M \/ o \in X
  <2>1. sender' = [sender EXCEPT !.todo = Tail(@)]  BY <1>4, <1>5 DEF Walk
  <2>2. /\ DOMAIN sender' = DOMAIN sender /\ sender'.at = "walk"
        /\ sender'.todo = Tail(sender.todo) /\ sender'.wants = sender.wants
        /\ sender'.metas = sender.metas /\ sender'.exclude = X
    BY <1>1, <1>2, <2>1 DEF Fields
  <2>3. Shape'  BY <1>1, <1>2, <1>3, <2>2 DEF Shape, Server, Fields
  <2>4. near = M \cup X \cup rest /\ M \cup rest \subseteq asked  BY <1>2, <1>3, <1>5
  <2>7. Closure(sender'.wants) = asked  BY <2>2
  <2> HIDE DEF T, M, o, rest, near, read, asked
  <2>5. Walking'
    BY <1>1, <1>2, <2>2, <2>4, <2>7, SameServer DEF Walking, read, M, rest, near
  <2>6. Excluding' /\ SentExactly'  BY <2>2 DEF Excluding, SentExactly
  <2> QED  BY <2>3, <2>5, <2>6 DEF SendInv
<1>6. CASE ~(o \in M \/ o \in X) /\ (o \notin Has \/ (Type[o] # Blob /\ o \in damaged))
  <2>1. sender' = [sender EXCEPT !.at = "gone"]  BY <1>4, <1>6 DEF Walk, GiveUp
  <2>2. Shape /\ refs' = refs  BY <1>1 DEF SendInv, Server
  <2> QED  BY <2>1, <2>2, GiveUpQuiet
<1>7. CASE ~(o \in M \/ o \in X) /\ ~(o \notin Has \/ (Type[o] # Blob /\ o \in damaged))
  <2> DEFINE r == RefsOf(o)
             s == Tail(sender.todo)
             m == sender.metas
  <2>1. sender' = [sender EXCEPT !.metas = Append(@, o), !.todo = Tail(@) \o RefsOf(o)]
    BY <1>4, <1>7 DEF Walk
  <2>2. /\ DOMAIN sender' = DOMAIN sender /\ sender'.at = "walk"
        /\ sender'.todo = s \o r /\ sender'.wants = sender.wants
        /\ sender'.metas = Append(m, o) /\ sender'.exclude = X
    BY <1>1, <1>2, <2>1 DEF Fields
  <2>3. o \in Objects  BY <1>7, Graph
  <2>15. Closure(sender'.wants) = asked  BY <2>2
  <2>16. o \in asked /\ Kids(o) \subseteq asked
    <3>1. sender.wants \in SUBSET Objects  BY <1>2, Graph
    <3>2. \A x \in asked : Kids(x) \cap Objects \subseteq asked  BY <3>1, ClosureIs
    <3>3. Kids(o) \subseteq Objects
      <4>1. o \in Served  BY <1>7 DEF Has
      <4> HIDE DEF o
      <4> QED  BY <4>1, TransferAssumption DEF Kids
    <3>4. o \in asked  BY <1>2, <1>3
    <3> HIDE DEF o, asked
    <3> QED  BY <3>2, <3>3, <3>4
  <2>4. r \in Seq(Nat) /\ ToSet(r) = Kids(o)  BY <2>3, Kept
  <2>5. s \in Seq(Nat) /\ m \in Seq(Objects)  BY <1>2, <1>3
  <2>6. s \o r \in Seq(Nat) /\ ToSet(s \o r) = rest \cup Kids(o)
    <3> HIDE DEF r, s
    <3>1. s \o r \in Seq(Nat) /\ ToSet(s \o r) = ToSet(s) \cup ToSet(r)
      BY <2>4, <2>5, SetOfConcat
    <3> QED  BY <2>4, <3>1 DEF s
  <2>7. ToSet(Append(m, o)) = M \cup {o} /\ Append(m, o) \in Seq(Objects)
    <3>1. m \in Seq(Objects) /\ ToSet(m) = M  BY <2>5
    <3> HIDE DEF m, o, M
    <3> QED  BY <2>3, <3>1, SetOfAppend
  <2>8. IsInjective(Append(m, o))
    <3>1. m \in Seq(Objects) /\ ToSet(m) = M /\ IsInjective(m) /\ o \notin M
      BY <1>2, <1>7
    <3> HIDE DEF m, o, M
    <3> QED  BY <2>3, <3>1, AppendNew
  <2> HIDE DEF r, s, m
  <2>9. Shape'  BY <1>1, <1>2, <2>2, <2>6, <2>7 DEF Shape, Server, Fields
  <2> DEFINE new == (M \cup {o}) \cup X \cup (rest \cup Kids(o))
  <2>10. near \subseteq new /\ Kids(o) \subseteq new  BY <1>3
  <2>11. (M \cup {o}) \cap X = {}  BY <1>2, <1>7
  <2>17. (M \cup {o}) \cup (rest \cup Kids(o)) \subseteq asked  BY <1>2, <1>3, <2>16
  <2> HIDE DEF T, M, o, rest, near, read, X, asked
  <2>12. sender.wants \subseteq new /\ \A x \in M \cup {o} : Kids(x) \subseteq new
    BY <1>2, <2>10
  <2>13. Walking'
    BY <1>1, <1>2, <2>2, <2>6, <2>7, <2>8, <2>11, <2>12, <2>15, <2>17, SameServer
    DEF Walking, read
  <2>14. Excluding' /\ SentExactly'  BY <2>2 DEF Excluding, SentExactly
  <2> QED  BY <2>9, <2>13, <2>14 DEF SendInv
<1> QED  BY <1>5, <1>6, <1>7

(* When nothing waits, what was chosen is what has to be sent.             *)
LEMMA ChosenIs ==
    ASSUME SendInv, sender.at = "walk", sender.todo = <<>>
    PROVE  Closure(sender.wants) \subseteq ToSet(sender.metas) \cup Closure(refs)
<1> DEFINE X == sender.exclude
           M == ToSet(sender.metas)
           have == Closure(refs)
           all == M \cup have
<1>1. /\ sender.wants \subseteq Served /\ X \subseteq Closure(refs) /\ refs \subseteq Objects
      /\ sender.wants \subseteq M \cup X \cup ToSet(sender.todo)
      /\ \A x \in M : Kids(x) \subseteq M \cup X \cup ToSet(sender.todo)
  BY DEF SendInv, Shape, Walking
<1>2. ToSet(sender.todo) = {}  BY DEF ToSet
<1>3. sender.wants \subseteq all /\ \A x \in M : Kids(x) \subseteq all  BY <1>1, <1>2
<1>4. \A x \in have : Kids(x) \cap Objects \subseteq have  BY <1>1, ClosureIs
<1>5. Closed(all \cap Objects, Objects)
  <2> HIDE DEF M, have
  <2> QED  BY <1>3, <1>4 DEF Closed
<1>6. sender.wants \in SUBSET Objects  BY <1>1, Graph
<1> HIDE DEF all
<1>7. Closure(sender.wants) \subseteq all  BY <1>3, <1>5, <1>6, ClosureIs
<1> QED  BY <1>7 DEF all

LEMMA StartPackSend == ASSUME SendInv, StartPack PROVE SendInv'
<1> DEFINE X == sender.exclude
           M == ToSet(sender.metas)
<1>1. sender.at = "walk" /\ sender.todo = <<>> /\ Server
  BY DEF StartPack, Server, serverVars, clientVars
<1>2. CASE sender.metas = <<>>
  <2>1. sender' = [sender EXCEPT !.at = "gone"]  BY <1>2 DEF StartPack
  <2>2. Shape /\ refs' = refs  BY <1>1 DEF SendInv, Server
  <2> QED  BY <2>1, <2>2, GiveUpQuiet
<1>3. CASE sender.metas # <<>>
  <2>1. PICK q : sender' = [sender EXCEPT !.at = "pack", !.todo = q]
    BY <1>3 DEF StartPack
  <2>2. /\ Fields \subseteq DOMAIN sender /\ sender.wants \subseteq Served
        /\ X \subseteq Closure(refs) /\ refs \subseteq Objects /\ sender.metas \in Seq(Objects)
        /\ IsInjective(sender.metas) /\ M \cap X = {}
        /\ Reach(refs, Has \ damaged) \subseteq X
        /\ M \subseteq Closure(sender.wants)
    BY <1>1 DEF SendInv, Shape, Walking
  <2>3. /\ DOMAIN sender' = DOMAIN sender /\ sender'.at = "pack"
        /\ sender'.wants = sender.wants /\ sender'.metas = sender.metas /\ sender'.exclude = X
    BY <2>1, <2>2 DEF Fields
  <2>4. Shape'  BY <1>1, <2>2, <2>3 DEF Shape, Server, Fields
  <2>5. Closure(sender.wants) \subseteq M \cup Closure(refs)  BY <1>1, ChosenIs
  <2>6. Cardinality(M) = Len(sender.metas)  BY <2>2, NoRepetition
  <2>7. Closure(sender'.wants) = Closure(sender.wants)  BY <2>3
  <2>8. SentExactly'
    BY <1>1, <2>2, <2>3, <2>5, <2>6, <2>7, SameServer DEF SentExactly
  <2>9. Excluding' /\ Walking'  BY <2>3 DEF Excluding, Walking
  <2> QED  BY <2>4, <2>8, <2>9 DEF SendInv
<1> QED  BY <1>2, <1>3

(* Writing changes neither what was asked nor what was chosen.             *)
LEMMA PackSend ==
    ASSUME SendInv, sender.at = "pack", Server,
           {"at", "peer", "wants", "exclude", "metas"} \subseteq DOMAIN sender,
           \/ sender' = [sender EXCEPT !.at = "gone"]
           \/ /\ DOMAIN sender' = DOMAIN sender
              /\ \A f \in {"at", "wants", "exclude", "metas"} : sender'[f] = sender[f]
    PROVE  SendInv'
<1>1. CASE sender' = [sender EXCEPT !.at = "gone"]
  BY <1>1, GiveUpQuiet DEF SendInv, Server
<1>2. CASE /\ DOMAIN sender' = DOMAIN sender
           /\ \A f \in {"at", "wants", "exclude", "metas"} : sender'[f] = sender[f]
  <2>1. /\ sender'.at = "pack" /\ sender'.wants = sender.wants
        /\ sender'.exclude = sender.exclude /\ sender'.metas = sender.metas
    BY <1>2
  <2>2. Shape'  BY <1>2, <2>1 DEF SendInv, Shape, Server
  <2>3. Closure(sender'.wants) = Closure(sender.wants)  BY <2>1
  <2>4. SentExactly'  BY <2>1, <2>3, SameServer DEF SendInv, SentExactly
  <2>5. Excluding' /\ Walking'  BY <2>1 DEF Excluding, Walking
  <2> QED  BY <2>2, <2>4, <2>5 DEF SendInv
<1> QED  BY <1>1, <1>2

LEMMA WriteSend ==
    ASSUME SendInv, WriteFull \/ WritePair \/ WriteForeign \/ EndPack
    PROVE  SendInv'
<1>1. sender.at = "pack" /\ Server
  BY DEF WriteFull, WritePair, WriteForeign, EndPack, Server, serverVars, clientVars
<1>2. Fields \subseteq DOMAIN sender
  BY <1>1 DEF SendInv, Shape
<1>3. \/ sender' = [sender EXCEPT !.at = "gone"]
      \/ \E q, p : sender' = [sender EXCEPT !.todo = q, !.start = p]
  <2>1. CASE WriteFull  BY <2>1 DEF WriteFull, GiveUp
  <2>2. CASE WritePair  BY <2>2 DEF WritePair, GiveUp
  <2>3. CASE WriteForeign  BY <2>3 DEF WriteForeign
  <2>4. CASE EndPack  BY <2>4 DEF EndPack
  <2> QED  BY <2>1, <2>2, <2>3, <2>4
<1> QED  BY <1>1, <1>2, <1>3, PackSend DEF Fields

(* The call returns: nobody sends any more.                                *)
LEMMA ReturnsSend ==
    ASSUME SendInv, sender' = Idle(sender.wants), refs' \in {refs, sender.wants}
    PROVE  SendInv'
<1>1. sender.wants \subseteq Served /\ Served \subseteq Objects /\ refs \subseteq Objects
  BY Graph DEF SendInv, Shape
<1>2. DOMAIN sender' = {"at", "wants"} /\ sender'.at = "idle" /\ sender'.wants = sender.wants
  BY DEF Idle
<1> QED  BY <1>1, <1>2, Quiet

LEMMA ReadSend ==
    ASSUME SendInv, ReadHead \/ NoHead \/ ReadObject \/ Starved \/ Accept
    PROVE  SendInv'
<1>1. CASE ReadHead
  BY <1>1, SameSend DEF ReadHead, serverVars, clientVars
<1>2. CASE NoHead
  BY <1>2, ReturnsSend DEF NoHead, Returns, clientVars
<1>3. CASE ReadObject
  <2>1. refs' = refs /\ lost' = lost /\ damaged' = damaged
    BY <1>3 DEF ReadObject, serverVars
  <2>2. sender' = Idle(sender.wants) \/ sender' = sender
    BY <1>3 DEF ReadObject, Returns
  <2> QED  BY <2>1, <2>2, ReturnsSend, SameSend
<1>4. CASE Starved
  BY <1>4, ReturnsSend DEF Starved, Returns, clientVars
<1>5. CASE Accept
  BY <1>5, ReturnsSend DEF Accept, Returns
<1> QED  BY <1>1, <1>2, <1>3, <1>4, <1>5

LEMMA ErrorSend == ASSUME SendInv, RemoteError PROVE SendInv'
<1>1. sender' = [sender EXCEPT !.at = "gone"] /\ refs' = refs
  BY DEF RemoteError, clientVars
<1> QED  BY <1>1, GiveUpQuiet DEF SendInv

LEMMA CutSend == ASSUME SendInv, Cut PROVE SendInv'
<1>1. sender' = [sender EXCEPT !.at = "gone"] /\ refs' = refs
  BY DEF Cut, clientVars
<1> QED  BY <1>1, GiveUpQuiet DEF SendInv

LEMMA NextSend == ASSUME SendInv, [Next]_vars PROVE SendInv'
<1>1. CASE UNCHANGED vars
  BY <1>1, SameSend DEF vars, serverVars, clientVars
<1> QED
  BY <1>1, FetchSend, ExcludeSend, ExcludeEndsSend, WalkSend, StartPackSend, WriteSend,
     ReadSend, ErrorSend, CutSend DEF Next

THEOREM Invariance == Spec => []SendInv
<1>1. Init => SendInv  BY InitSend
<1>2. SendInv /\ [Next]_vars => SendInv'  BY NextSend
<1> QED  BY <1>1, <1>2, PTL DEF Spec

(* SentExactly, for any graph of objects, any refs and haves, whatever the *)
(* server has lost or cannot read: each object once, nothing of what the   *)
(* wants reach beyond the client's refs is left out, and nothing that the  *)
(* server can follow from the haves is sent (reach.go 161-226).            *)
THEOREM SendsExactly == Spec => []SentExactly
<1>1. SendInv => SentExactly  BY DEF SendInv
<1> QED  BY <1>1, Invariance, PTL

(* The pieces that entries are made of.                                    *)
Piece == (Nat \X Nat) \cup (Nat \X Nat \X Nat)

(* As much of e as has come is there.                                      *)
Agree(rest, e) == \A i \in 1..Len(e) : i <= Len(rest) => rest[i] = e[i]

LEMMA PieceIs ==
    ASSUME NEW a \in Nat, NEW b \in Nat, NEW c \in Nat
    PROVE  <<a, b>> \in Piece /\ <<a, b, c>> \in Piece
  BY DEF Piece

LEMMA BytesAre ==
    ASSUME NEW h \in Seq(Nat)
    PROVE  /\ Bytes(h) \in Seq(Piece) /\ Len(Bytes(h)) = Len(h)
           /\ \A i \in 1..Len(h) : Bytes(h)[i] = <<Byte, h[i]>>
<1> DEFINE b == Bytes(h)
           n == Len(h)
<1>1. n \in Nat /\ DOMAIN h = 1..n /\ \A i \in 1..n : h[i] \in Nat  OBVIOUS
<1>2. b = [i \in 1..n |-> <<Byte, h[i]>>]  BY <1>1 DEF Bytes
<1>3. \A i \in 1..n : b[i] = <<Byte, h[i]>>  BY <1>2
<1>4. \A i \in 1..n : b[i] \in Piece
  <2>1. Byte \in Nat  BY DEF Byte
  <2>2. \A i \in 1..n : <<Byte, h[i]>> \in Piece  BY <1>1, <2>1, PieceIs
  <2> HIDE DEF b, n
  <2> QED  BY <1>3, <2>2
<1>5. b = [i \in 1..n |-> b[i]]  BY <1>2
<1> HIDE DEF b, n
<1>6. b \in Seq(Piece) /\ Len(b) = n  BY <1>1, <1>4, <1>5, IsSeq
<1> QED  BY <1>3, <1>6 DEF b, n

(* The bytes of an entry, as far as they have come.                        *)
LEMMA BytesCome ==
    ASSUME NEW h \in Seq(Nat), NEW S, NEW rest \in Seq(S),
           \A i \in 1..Len(h) : i <= Len(rest) => rest[i] = <<Byte, h[i]>>,
           Len(rest) > Len(h) => rest[Len(h) + 1][1] # Byte
    PROVE  BytesOf(rest) = IF Len(rest) >= Len(h) THEN h ELSE SubSeq(h, 1, Len(rest))
<1> DEFINE n == Len(h)
           m == Len(rest)
           others == {i \in 1..m : rest[i][1] # Byte}
           k == IF others # {} THEN Min(others) ELSE 0
<1>1. n \in Nat /\ m \in Nat /\ h = [i \in 1..n |-> h[i]]  OBVIOUS
<1>2. BytesOf(rest) = [i \in 1..(IF k = 0 THEN m ELSE k - 1) |-> rest[i][2]]
  BY DEF BytesOf, SelectInSeq
<1>3. \A i \in 1..n : i <= m => rest[i][1] = Byte /\ rest[i][2] = h[i]
  OBVIOUS
<1>4. others \in SUBSET Nat  BY <1>1
<1>5. CASE m > n
  <2>1. n + 1 \in others  BY <1>1, <1>5
  <2>2. \A i \in others : i >= n + 1  BY <1>1, <1>3
  <2>3. Min(others) \in others /\ Min(others) <= n + 1
    <3> HIDE DEF others
    <3> QED  BY <1>4, <2>1, LeastIs
  <2>4. Min(others) = n + 1
    <3> DEFINE x == Min(others)
    <3>1. x \in others /\ x <= n + 1 /\ x \in Nat /\ x >= n + 1  BY <1>4, <2>2, <2>3
    <3> HIDE DEF x
    <3>2. x = n + 1  BY <1>1, <3>1
    <3> QED  BY <3>2 DEF x
  <2>5. k = n + 1  BY <2>1, <2>4
  <2> HIDE DEF k
  <2>6. BytesOf(rest) = [i \in 1..n |-> rest[i][2]]  BY <1>1, <1>2, <2>5
  <2>7. \A i \in 1..n : rest[i][2] = h[i]  BY <1>1, <1>3, <1>5
  <2>8. [i \in 1..n |-> rest[i][2]] = [i \in 1..n |-> h[i]]  BY <2>7
  <2>9. BytesOf(rest) = h  BY <1>1, <2>6, <2>8, Zenon
  <2> QED  BY <1>1, <1>5, <2>9
<1>6. CASE m <= n
  <2>1. others = {}  BY <1>1, <1>3, <1>6
  <2>2. k = 0  BY <2>1
  <2> HIDE DEF k
  <2>3. BytesOf(rest) = [i \in 1..m |-> rest[i][2]]  BY <1>2, <2>2
  <2>4. \A i \in 1..m : rest[i][2] = h[i]  BY <1>1, <1>3, <1>6
  <2>5. [i \in 1..m |-> rest[i][2]] = [i \in 1..m |-> h[i]]  BY <2>4
  <2>6. SubSeq(h, 1, m) = [i \in 1..m |-> h[i]]  BY <1>1, <1>6
  <2>7. m = n => [i \in 1..m |-> h[i]] = h  BY <1>1
  <2>8. BytesOf(rest) = SubSeq(h, 1, m)  BY <2>3, <2>5, <2>6, Zenon
  <2>9. m = n => SubSeq(h, 1, m) = h  BY <2>6, <2>7, Zenon
  <2> QED  BY <1>1, <1>6, <2>8, <2>9
<1> QED  BY <1>1, <1>5, <1>6

(* No byte but the last of a head or a distance ends it.                   *)
LEMMA HeadGoesOn ==
    ASSUME NEW type \in 0..7, NEW size \in Nat
    PROVE  \A i \in 1..(Len(EntryHead(type, size)) - 1) : EntryHead(type, size)[i] >= More
<1> DEFINE low == size % Low
           high == size \div Low
           first == type * LowBits + low
           head == EntryHead(type, size)
<1>1. Low \in Nat /\ Low >= 2 /\ More = 128 /\ LowBits = 16
  BY RadixAssumption DEF More, LowBits
<1>2. low \in Nat /\ high \in Nat
  <2>1. high \in Int /\ low \in 0..(Low - 1) /\ size = high * Low + low  BY <1>1, Divide
  <2>2. size >= Low => high >= 1  BY <1>1, Divide
  <2>3. size \in 0..(Low - 1) => high = 0  BY <1>1, Divide
  <2> HIDE DEF low, high
  <2> QED  BY <1>1, <2>1, <2>2, <2>3
<1>3. CASE size < Low
  <2>1. head = <<first>>  BY <1>3 DEF EntryHead
  <2> QED  BY <2>1
<1>4. CASE ~(size < Low)
  <2> DEFINE d == Reverse(Digits(high, 0))
             more == VarintLE(high)
             byte == 128 + first
  <2>1. head = <<byte>> \o more  BY <1>1, <1>4 DEF EntryHead
  <2>2. d \in Seq(0..(Base - 1)) /\ Len(d) >= 1
    <3> DEFINE x == Digits(high, 0)
    <3>1. x \in Seq(0..(Base - 1)) /\ Len(x) >= 1  BY <1>2, NumberOfDigits
    <3>2. d = Reverse(x)  OBVIOUS
    <3> HIDE DEF x, d
    <3> QED  BY <3>1, <3>2, ReverseIs
  <2>3. more = Flagged(d)  BY DEF VarintLE
  <2> HIDE DEF d, more
  <2>4. more \in Seq(Nat) /\ \A i \in 1..(Len(more) - 1) : more[i] >= More
    BY <2>2, <2>3, FlaggedIs
  <2>5. byte \in Nat /\ byte >= More  BY <1>1, <1>2
  <2> HIDE DEF byte, head
  <2>6. /\ head \in Seq(Nat) /\ Len(head) = 1 + Len(more) /\ head[1] = byte
        /\ \A i \in 1..Len(more) : head[1 + i] = more[i]
    BY <2>1, <2>4, <2>5, ConsIs
  <2>7. ASSUME NEW i \in 1..(Len(head) - 1) PROVE head[i] >= More
    <3>1. CASE i = 1  BY <2>5, <2>6, <3>1
    <3>2. CASE i # 1
      <4> DEFINE j == i - 1
      <4>1. j \in 1..(Len(more) - 1) /\ i = 1 + j /\ j \in 1..Len(more)  BY <2>4, <2>6, <3>2
      <4> HIDE DEF j
      <4> QED  BY <2>4, <2>6, <4>1
    <3> QED  BY <3>1, <3>2
  <2> QED  BY <2>7 DEF head
<1> QED  BY <1>3, <1>4

LEMMA OfsGoesOn ==
    ASSUME NEW v \in Nat
    PROVE  \A i \in 1..(Len(EncodeOfs(v)) - 1) : EncodeOfs(v)[i] >= More
<1> DEFINE d == Digits(v, 1)
<1>1. d \in Seq(0..(Base - 1)) /\ Len(d) >= 1  BY NumberOfDigits
<1>2. EncodeOfs(v) = Flagged(d)  BY DEF EncodeOfs
<1> HIDE DEF d
<1>3. Flagged(d) \in Seq(Nat) /\ Len(Flagged(d)) = Len(d)
      /\ \A i \in 1..(Len(d) - 1) : Flagged(d)[i] >= More
  BY <1>1, FlaggedIs
<1> QED  BY <1>2, <1>3

LEMMA CutShort ==
    ASSUME NEW h \in Seq(Nat), \A i \in 1..(Len(h) - 1) : h[i] >= More,
           NEW k \in 0..(Len(h) - 1)
    PROVE  /\ SubSeq(h, 1, k) \in Seq(Nat) /\ Len(SubSeq(h, 1, k)) = k
           /\ ~EndsIn(SubSeq(h, 1, k))
<1> DEFINE s == SubSeq(h, 1, k)
<1>1. s \in Seq(Nat) /\ Len(s) = k /\ \A i \in 1..k : s[i] = h[i]  OBVIOUS
<1> HIDE DEF s
<1>2. DOMAIN s = 1..k /\ More \in Nat  BY <1>1 DEF More
<1>3. \A i \in 1..k : h[i] \in Nat /\ h[i] >= More  OBVIOUS
<1>4. ASSUME NEW i \in 1..k PROVE ~(s[i] < More)
  <2>1. s[i] = h[i] /\ h[i] \in Nat /\ h[i] >= More  BY <1>1, <1>3
  <2> QED  BY <1>2, <2>1
<1>5. ~EndsIn(s)  BY <1>2, <1>4 DEF EndsIn
<1> QED  BY <1>1, <1>5 DEF s

(* The forms of an entry: its bytes, and then what is not a byte.          *)
HeadOf(o) == EntryHead(Type[o], Size[o])

DeltaBytes(own, start) == EntryHead(OfsDelta, DeltaSize) \o EncodeOfs(own - start)

LEMMA Sizes ==
    /\ \A o \in Objects : o \in Nat /\ o # 0 /\ Type[o] \in 1..4 /\ Type[o] \in 0..7 /\ Size[o] \in Nat
    /\ DeltaSize \in Nat /\ 6 \in 0..7 /\ 7 \in 0..7
    /\ OfsDelta = 6 /\ RefDelta = 7
  BY TransferAssumption DEF OfsDelta, RefDelta

LEMMA HeadIs ==
    ASSUME NEW type \in 0..7, NEW size \in Nat
    PROVE  /\ EntryHead(type, size) \in Seq(Nat) /\ Len(EntryHead(type, size)) >= 1
           /\ EndsIn(EntryHead(type, size))
           /\ ReadEntryHead(EntryHead(type, size))
                 = [type |-> type, size |-> size, n |-> Len(EntryHead(type, size)),
                    ok |-> size <= MaxObject]
<1> DEFINE h == EntryHead(type, size)
           e == <<>>
<1>1. e \in Seq(Nat)  OBVIOUS
<1>2. /\ h \in Seq(Nat) /\ Len(h) >= 1 /\ EndsIn(h \o e)
      /\ ReadEntryHead(h \o e) = [type |-> type, size |-> size, n |-> Len(h),
                                   ok |-> size <= MaxObject]
  <2> HIDE DEF e
  <2> QED  BY <1>1, EntryHeadRoundTrip
<1> HIDE DEF h
<1>3. h \o e = h  BY <1>2
<1> QED  BY <1>2, <1>3 DEF h

LEMMA Joined ==
    ASSUME NEW s \in Seq(Piece), NEW t \in Seq(Piece)
    PROVE  /\ s \o t \in Seq(Piece) /\ Len(s \o t) = Len(s) + Len(t)
           /\ \A i \in 1..Len(s) : (s \o t)[i] = s[i]
           /\ \A i \in 1..Len(t) : (s \o t)[Len(s) + i] = t[i]
  BY ConcatIs

LEMMA JoinedBytes ==
    ASSUME NEW s \in Seq(Nat), NEW t \in Seq(Nat)
    PROVE  /\ s \o t \in Seq(Nat) /\ Len(s \o t) = Len(s) + Len(t)
           /\ \A i \in 1..Len(s) : (s \o t)[i] = s[i]
           /\ \A i \in 1..Len(t) : (s \o t)[Len(s) + i] = t[i]
  BY ConcatIs

LEMMA WithLast ==
    ASSUME NEW h \in Seq(Nat), NEW x \in Piece
    PROVE  /\ Bytes(h) \o <<x>> \in Seq(Piece)
           /\ Len(Bytes(h) \o <<x>>) = Len(h) + 1
           /\ \A i \in 1..Len(h) : (Bytes(h) \o <<x>>)[i] = <<Byte, h[i]>>
           /\ (Bytes(h) \o <<x>>)[Len(h) + 1] = x
<1> DEFINE b == Bytes(h)
           t == <<x>>
<1>1. b \in Seq(Piece) /\ Len(b) = Len(h) /\ \A i \in 1..Len(h) : b[i] = <<Byte, h[i]>>
  BY BytesAre
<1>2. t \in Seq(Piece) /\ Len(t) = 1 /\ t[1] = x  OBVIOUS
<1>3. Len(h) \in Nat  OBVIOUS
<1> HIDE DEF b, t
<1>4. /\ b \o t \in Seq(Piece) /\ Len(b \o t) = Len(b) + Len(t)
      /\ \A i \in 1..Len(b) : (b \o t)[i] = b[i]
      /\ \A i \in 1..Len(t) : (b \o t)[Len(b) + i] = t[i]
  BY <1>1, <1>2, Joined
<1> QED  BY <1>1, <1>2, <1>3, <1>4 DEF b, t

LEMMA BytesConcat ==
    ASSUME NEW g \in Seq(Nat), NEW h \in Seq(Nat)
    PROVE  Bytes(g) \o Bytes(h) = Bytes(g \o h)
<1> DEFINE a == Bytes(g)
           b == Bytes(h)
           c == Bytes(g \o h)
           gh == g \o h
<1>1. a \in Seq(Piece) /\ Len(a) = Len(g) /\ \A i \in 1..Len(g) : a[i] = <<Byte, g[i]>>
  BY BytesAre
<1>2. b \in Seq(Piece) /\ Len(b) = Len(h) /\ \A i \in 1..Len(h) : b[i] = <<Byte, h[i]>>
  BY BytesAre
<1>3. /\ gh \in Seq(Nat) /\ Len(gh) = Len(g) + Len(h)
      /\ \A i \in 1..Len(g) : gh[i] = g[i]
      /\ \A i \in 1..Len(h) : gh[Len(g) + i] = h[i]
  BY ConcatIs
<1>4. c \in Seq(Piece) /\ Len(c) = Len(gh) /\ \A i \in 1..Len(gh) : c[i] = <<Byte, gh[i]>>
  <2> HIDE DEF gh
  <2>1. Bytes(gh) \in Seq(Piece) /\ Len(Bytes(gh)) = Len(gh)
        /\ \A i \in 1..Len(gh) : Bytes(gh)[i] = <<Byte, gh[i]>>
    BY <1>3, BytesAre
  <2> QED  BY <2>1 DEF gh
<1>5. Len(g) \in Nat /\ Len(h) \in Nat  OBVIOUS
<1> HIDE DEF a, b, c, gh
<1>6. /\ a \o b \in Seq(Piece) /\ Len(a \o b) = Len(a) + Len(b)
      /\ \A i \in 1..Len(a) : (a \o b)[i] = a[i]
      /\ \A i \in 1..Len(b) : (a \o b)[Len(a) + i] = b[i]
  BY <1>1, <1>2, Joined
<1>7. ASSUME NEW i \in 1..Len(a \o b) PROVE (a \o b)[i] = c[i]
  <2>1. CASE i \in 1..Len(g)
    <3>1. (a \o b)[i] = <<Byte, g[i]>>  BY <1>1, <1>6, <2>1
    <3>2. c[i] = <<Byte, g[i]>>  BY <1>3, <1>4, <1>5, <2>1
    <3> QED  BY <3>1, <3>2
  <2>2. CASE i > Len(g)
    <3> DEFINE j == i - Len(g)
    <3>1. j \in 1..Len(h) /\ i = Len(g) + j  BY <1>1, <1>2, <1>5, <1>6, <2>2
    <3> HIDE DEF j
    <3>2. (a \o b)[i] = <<Byte, h[j]>>  BY <1>1, <1>2, <1>6, <3>1
    <3>3. i \in 1..Len(gh)  BY <1>1, <1>2, <1>3, <1>6
    <3>4. c[i] = <<Byte, h[j]>>  BY <1>3, <1>4, <3>1, <3>3
    <3> QED  BY <3>2, <3>4
  <2> QED  BY <1>5, <2>1, <2>2
<1>8. a \o b = c  BY <1>1, <1>2, <1>3, <1>4, <1>6, <1>7, SameSeq
<1> QED  BY <1>8 DEF a, b, c

LEMMA FullIs ==
    ASSUME NEW o \in Objects
    PROVE  /\ HeadOf(o) \in Seq(Nat) /\ Full(o) \in Seq(Piece)
           /\ Len(Full(o)) = Len(HeadOf(o)) + 1
           /\ \A i \in 1..Len(HeadOf(o)) : Full(o)[i] = <<Byte, HeadOf(o)[i]>>
           /\ Full(o)[Len(HeadOf(o)) + 1] = <<Deflated, o>>
<1> DEFINE h == HeadOf(o)
           x == <<Deflated, o>>
<1>1. h \in Seq(Nat)  BY Sizes, HeadIs DEF HeadOf
<1>2. x \in Piece  BY Sizes, PieceIs DEF Deflated
<1>3. Full(o) = Bytes(h) \o <<x>>  BY DEF Full, HeadOf
<1> HIDE DEF h, x
<1>4. /\ Full(o) \in Seq(Piece) /\ Len(Full(o)) = Len(h) + 1
      /\ \A i \in 1..Len(h) : Full(o)[i] = <<Byte, h[i]>>
      /\ Full(o)[Len(h) + 1] = x
  BY <1>1, <1>2, <1>3, WithLast
<1> QED  BY <1>1, <1>4 DEF h, x

LEMMA OfsIs ==
    ASSUME NEW b \in Objects, NEW o \in Objects, NEW own \in Nat, NEW start \in Nat, start <= own
    PROVE  LET h == DeltaBytes(own, start)
               e == Ofs(b, o, own, start)
           IN  /\ h \in Seq(Nat) /\ e \in Seq(Piece) /\ Len(e) = Len(h) + 1
               /\ \A i \in 1..Len(h) : e[i] = <<Byte, h[i]>>
               /\ e[Len(h) + 1] = <<Deflated, b, o>>
<1> DEFINE g == EntryHead(OfsDelta, DeltaSize)
           d == EncodeOfs(own - start)
           h == DeltaBytes(own, start)
           x == <<Deflated, b, o>>
           e == Ofs(b, o, own, start)
<1>1. g \in Seq(Nat)  BY Sizes, HeadIs
<1>2. d \in Seq(Nat)
  <2>1. own - start \in Nat /\ <<>> \in Seq(Nat)  OBVIOUS
  <2> QED  BY <2>1, OfsRoundTrip
<1>3. x \in Piece  BY Sizes, PieceIs DEF Deflated
<1>4. e = Bytes(g) \o Bytes(d) \o <<x>> /\ h = g \o d  BY DEF Ofs, DeltaBytes
<1> HIDE DEF g, d, x, h, e
<1>5. h \in Seq(Nat)  BY <1>1, <1>2, <1>4, ConcatIs
<1>6. Bytes(g) \o Bytes(d) = Bytes(h)  BY <1>1, <1>2, <1>4, BytesConcat
<1>7. e = Bytes(h) \o <<x>>  BY <1>4, <1>6
<1>8. /\ e \in Seq(Piece) /\ Len(e) = Len(h) + 1
      /\ \A i \in 1..Len(h) : e[i] = <<Byte, h[i]>>
      /\ e[Len(h) + 1] = x
  BY <1>3, <1>5, <1>7, WithLast
<1> QED  BY <1>5, <1>8 DEF h, e, x

LEMMA RefIs ==
    ASSUME NEW b \in Objects, NEW o \in Objects
    PROVE  LET h == EntryHead(RefDelta, DeltaSize)
               e == Ref(b, o)
           IN  /\ h \in Seq(Nat) /\ e \in Seq(Piece) /\ Len(e) = Len(h) + 2
               /\ \A i \in 1..Len(h) : e[i] = <<Byte, h[i]>>
               /\ e[Len(h) + 1] = <<Name, b>>
               /\ e[Len(h) + 2] = <<Deflated, b, o>>
<1> DEFINE h == EntryHead(RefDelta, DeltaSize)
           x == <<Name, b>>
           y == <<Deflated, b, o>>
           t == <<x, y>>
           c == Bytes(h)
           e == Ref(b, o)
<1>1. h \in Seq(Nat)  BY Sizes, HeadIs
<1>2. x \in Piece /\ y \in Piece  BY Sizes, PieceIs DEF Deflated, Name
<1>3. e = c \o t  BY DEF Ref
<1>4. c \in Seq(Piece) /\ Len(c) = Len(h) /\ \A i \in 1..Len(h) : c[i] = <<Byte, h[i]>>
  <2> HIDE DEF h
  <2> QED  BY <1>1, BytesAre
<1> HIDE DEF x, y, h, c, e
<1>5. t \in Seq(Piece) /\ Len(t) = 2 /\ t[1] = x /\ t[2] = y  BY <1>2
<1>6. Len(h) \in Nat  BY <1>1
<1> HIDE DEF t
<1>7. /\ c \o t \in Seq(Piece) /\ Len(c \o t) = Len(c) + Len(t)
      /\ \A i \in 1..Len(c) : (c \o t)[i] = c[i]
      /\ \A i \in 1..Len(t) : (c \o t)[Len(c) + i] = t[i]
  BY <1>4, <1>5, Joined
<1>8. /\ e \in Seq(Piece) /\ Len(e) = Len(h) + 2
      /\ \A i \in 1..Len(h) : e[i] = <<Byte, h[i]>>
      /\ e[Len(h) + 1] = x /\ e[Len(h) + 2] = y
  BY <1>3, <1>4, <1>5, <1>6, <1>7
<1> QED  BY <1>1, <1>8 DEF x, y, h, e

-----------------------------------------------------------------------------
(* What is read of an entry is what was written, and an entry of which a   *)
(* part is missing is not read.                                            *)
LEMMA Unended ==
    ASSUME NEW rest, NEW pos, ~EndsIn(BytesOf(rest))
    PROVE  EntryOf(rest, pos) = [n |-> 0]
  BY DEF EntryOf

LEMMA ReadFull ==
    ASSUME NEW o \in Objects, NEW S, NEW rest \in Seq(S), NEW pos, Agree(rest, Full(o))
    PROVE  EntryOf(rest, pos) =
              IF Len(rest) < Len(Full(o)) THEN [n |-> 0]
              ELSE [n |-> Len(Full(o)), type |-> Type[o], size |-> Size[o],
                    body |-> <<Deflated, o>>, ok |-> Size[o] <= MaxObject, base |-> 0]
<1> DEFINE h == HeadOf(o)
           n == Len(h)
           m == Len(rest)
           e == Full(o)
           x == <<Deflated, o>>
<1>1. /\ h \in Seq(Nat) /\ e \in Seq(Piece) /\ Len(e) = n + 1
      /\ \A i \in 1..n : e[i] = <<Byte, h[i]>>
      /\ e[n + 1] = x
  BY FullIs
<1>2. /\ n >= 1 /\ EndsIn(h)
      /\ ReadEntryHead(h) = [type |-> Type[o], size |-> Size[o], n |-> n,
                             ok |-> Size[o] <= MaxObject]
      /\ \A i \in 1..(n - 1) : h[i] >= More
  <2> DEFINE t == Type[o]
             z == Size[o]
  <2>1. t \in 0..7 /\ z \in Nat /\ h = EntryHead(t, z)  BY Sizes DEF HeadOf
  <2> HIDE DEF t, z, h
  <2>2. /\ n >= 1 /\ EndsIn(h)
        /\ ReadEntryHead(h) = [type |-> t, size |-> z, n |-> n, ok |-> z <= MaxObject]
    BY <2>1, HeadIs
  <2>3. \A i \in 1..(n - 1) : h[i] >= More  BY <2>1, HeadGoesOn
  <2> QED  BY <2>2, <2>3 DEF t, z
<1>10. Type[o] # OfsDelta /\ Type[o] # RefDelta  BY Sizes
<1>3. x[1] # Byte  BY DEF Byte, Deflated
<1>4. n \in Nat /\ m \in Nat  BY <1>1
<1> HIDE DEF h, e, x, n
<1>5. \A i \in 1..(n + 1) : i <= m => rest[i] = e[i]  BY <1>1 DEF Agree, e
<1>6. BytesOf(rest) = IF m >= n THEN h ELSE SubSeq(h, 1, m)
  <2>1. \A i \in 1..n : i <= m => rest[i] = <<Byte, h[i]>>  BY <1>1, <1>4, <1>5
  <2>2. m > n => rest[n + 1][1] # Byte
    <3>1. ASSUME m > n PROVE rest[n + 1] = e[n + 1]  BY <1>1, <1>4, <1>5, <3>1
    <3> QED  BY <1>1, <1>3, <3>1
  <2> QED  BY <1>1, <2>1, <2>2, BytesCome DEF n
<1>7. CASE m < n
  <2>1. m \in 0..(n - 1)  BY <1>4, <1>7
  <2>2. ~EndsIn(SubSeq(h, 1, m))  BY <1>1, <1>2, <2>1, CutShort DEF n
  <2>3. EntryOf(rest, pos) = [n |-> 0]
    <3>1. ~(m >= n)  BY <1>4, <1>7
    <3>2. BytesOf(rest) = SubSeq(h, 1, m)  BY <1>6, <3>1
    <3>3. ~EndsIn(BytesOf(rest))  BY <2>2, <3>2
    <3> QED  BY <3>3, Unended
  <2> QED  BY <1>1, <1>4, <1>7, <2>3 DEF e
<1>8. CASE m >= n
  <2>1. BytesOf(rest) = h  BY <1>6, <1>8
  <2> DEFINE fine == Size[o] <= MaxObject
             more == SubSeq(h, n + 1, Len(h))
  <2>6. ReadEntryHead(h).ok = fine  BY <1>2
  <2>7. EntryOf(rest, pos) =
           IF n + 1 + 0 > m THEN [n |-> 0]
           ELSE [n |-> n + 1 + 0, type |-> Type[o], size |-> Size[o],
                 body |-> rest[n + 1 + 0],
                 ok |-> ReadEntryHead(h).ok /\ (Type[o] = OfsDelta => ReadOfs(more).ok),
                 base |-> 0]
    <3> HIDE DEF fine
    <3> QED  BY <1>2, <1>10, <2>1 DEF EntryOf
  <2>8. (ReadEntryHead(h).ok /\ (Type[o] = OfsDelta => ReadOfs(more).ok)) = fine
    <3> DEFINE head == ReadEntryHead(h)
               t == Type[o]
               own == t = OfsDelta
    <3>1. head.ok = fine /\ ~own /\ fine \in BOOLEAN  BY <1>10, <2>6
    <3> HIDE DEF head, more, own, fine
    <3>2. (head.ok /\ (own => ReadOfs(more).ok)) = fine  BY <3>1
    <3> QED  BY <3>2 DEF head, t, own
  <2>2. EntryOf(rest, pos) =
           IF n + 1 + 0 > m THEN [n |-> 0]
           ELSE [n |-> n + 1 + 0, type |-> Type[o], size |-> Size[o],
                 body |-> rest[n + 1 + 0], ok |-> Size[o] <= MaxObject, base |-> 0]
    <3> HIDE DEF more, fine
    <3>1. EntryOf(rest, pos) =
             IF n + 1 + 0 > m THEN [n |-> 0]
             ELSE [n |-> n + 1 + 0, type |-> Type[o], size |-> Size[o],
                   body |-> rest[n + 1 + 0], ok |-> fine, base |-> 0]
      BY <2>7, <2>8
    <3> QED  BY <3>1 DEF fine
  <2>3. n + 1 + 0 = n + 1 /\ Len(e) = n + 1  BY <1>1, <1>4
  <2>4. CASE m < n + 1
    <3>1. n + 1 + 0 > m /\ m < Len(e)  BY <1>4, <2>3, <2>4
    <3> QED  BY <2>2, <3>1 DEF e
  <2>5. CASE m >= n + 1
    <3>1. ~(n + 1 + 0 > m) /\ ~(m < Len(e)) /\ n + 1 \in 1..(n + 1)  BY <1>4, <2>3, <2>5
    <3>2. rest[n + 1] = x  BY <1>1, <1>5, <2>5, <3>1
    <3> QED  BY <2>2, <2>3, <3>1, <3>2 DEF e, x
  <2> QED  BY <1>4, <2>4, <2>5
<1> QED  BY <1>4, <1>7, <1>8

LEMMA ReadRef ==
    ASSUME NEW b \in Objects, NEW o \in Objects, NEW S, NEW rest \in Seq(S), NEW pos,
           Agree(rest, Ref(b, o))
    PROVE  EntryOf(rest, pos) =
              IF Len(rest) < Len(Ref(b, o)) THEN [n |-> 0]
              ELSE [n |-> Len(Ref(b, o)), type |-> RefDelta, size |-> DeltaSize,
                    body |-> <<Deflated, b, o>>, ok |-> DeltaSize <= MaxObject, base |-> b]
<1> DEFINE h == EntryHead(RefDelta, DeltaSize)
           n == Len(h)
           m == Len(rest)
           e == Ref(b, o)
           x == <<Name, b>>
           y == <<Deflated, b, o>>
<1>1. /\ h \in Seq(Nat) /\ e \in Seq(Piece) /\ Len(e) = n + 2
      /\ \A i \in 1..n : e[i] = <<Byte, h[i]>>
      /\ e[n + 1] = x /\ e[n + 2] = y
  BY RefIs
<1>2. /\ n >= 1 /\ EndsIn(h)
      /\ ReadEntryHead(h) = [type |-> RefDelta, size |-> DeltaSize, n |-> n,
                             ok |-> DeltaSize <= MaxObject]
      /\ \A i \in 1..(n - 1) : h[i] >= More
  <2> DEFINE t == RefDelta
             z == DeltaSize
  <2>1. t \in 0..7 /\ z \in Nat /\ h = EntryHead(t, z)  BY Sizes
  <2> HIDE DEF t, z, h
  <2>2. /\ n >= 1 /\ EndsIn(h)
        /\ ReadEntryHead(h) = [type |-> t, size |-> z, n |-> n, ok |-> z <= MaxObject]
    BY <2>1, HeadIs
  <2>3. \A i \in 1..(n - 1) : h[i] >= More  BY <2>1, HeadGoesOn
  <2> QED  BY <2>2, <2>3 DEF t, z
<1>10. RefDelta # OfsDelta  BY Sizes
<1>3. x[1] # Byte /\ x[2] = b  BY DEF Byte, Name
<1>4. n \in Nat /\ m \in Nat  BY <1>1
<1> HIDE DEF h, e, x, y, n
<1>5. \A i \in 1..(n + 2) : i <= m => rest[i] = e[i]  BY <1>1 DEF Agree, e
<1>6. BytesOf(rest) = IF m >= n THEN h ELSE SubSeq(h, 1, m)
  <2>1. \A i \in 1..n : i <= m => rest[i] = <<Byte, h[i]>>  BY <1>1, <1>4, <1>5
  <2>2. m > n => rest[n + 1][1] # Byte
    <3>1. ASSUME m > n PROVE rest[n + 1] = e[n + 1]  BY <1>1, <1>4, <1>5, <3>1
    <3> QED  BY <1>1, <1>3, <3>1
  <2> QED  BY <1>1, <2>1, <2>2, BytesCome DEF n
<1>7. CASE m < n
  <2>1. m \in 0..(n - 1)  BY <1>4, <1>7
  <2>2. ~EndsIn(SubSeq(h, 1, m))  BY <1>1, <1>2, <2>1, CutShort DEF n
  <2>3. EntryOf(rest, pos) = [n |-> 0]
    <3>1. ~(m >= n)  BY <1>4, <1>7
    <3>2. BytesOf(rest) = SubSeq(h, 1, m)  BY <1>6, <3>1
    <3>3. ~EndsIn(BytesOf(rest))  BY <2>2, <3>2
    <3> QED  BY <3>3, Unended
  <2> QED  BY <1>1, <1>4, <1>7, <2>3 DEF e
<1>8. CASE m >= n
  <2>1. BytesOf(rest) = h  BY <1>6, <1>8
  <2> DEFINE fine == DeltaSize <= MaxObject
             more == SubSeq(h, n + 1, Len(h))
  <2>6. ReadEntryHead(h).ok = fine  BY <1>2
  <2>7. EntryOf(rest, pos) =
           IF n + 1 + 1 > m THEN [n |-> 0]
           ELSE [n |-> n + 1 + 1, type |-> RefDelta, size |-> DeltaSize,
                 body |-> rest[n + 1 + 1],
                 ok |-> ReadEntryHead(h).ok /\ (RefDelta = OfsDelta => ReadOfs(more).ok),
                 base |-> rest[(n + 1 + 1) - 1][2]]
    <3> HIDE DEF fine
    <3> QED  BY <1>2, <1>10, <2>1 DEF EntryOf
  <2>8. (ReadEntryHead(h).ok /\ (RefDelta = OfsDelta => ReadOfs(more).ok)) = fine
    <3> DEFINE head == ReadEntryHead(h)
               t == RefDelta
               own == t = OfsDelta
    <3>1. head.ok = fine /\ ~own /\ fine \in BOOLEAN  BY <1>10, <2>6
    <3> HIDE DEF head, more, own, fine
    <3>2. (head.ok /\ (own => ReadOfs(more).ok)) = fine  BY <3>1
    <3> QED  BY <3>2 DEF head, t, own
  <2>2. EntryOf(rest, pos) =
           IF n + 1 + 1 > m THEN [n |-> 0]
           ELSE [n |-> n + 1 + 1, type |-> RefDelta, size |-> DeltaSize,
                 body |-> rest[n + 1 + 1], ok |-> DeltaSize <= MaxObject,
                 base |-> rest[(n + 1 + 1) - 1][2]]
    <3> HIDE DEF more, fine
    <3>1. EntryOf(rest, pos) =
             IF n + 1 + 1 > m THEN [n |-> 0]
             ELSE [n |-> n + 1 + 1, type |-> RefDelta, size |-> DeltaSize,
                   body |-> rest[n + 1 + 1], ok |-> fine, base |-> rest[(n + 1 + 1) - 1][2]]
      BY <2>7, <2>8
    <3> QED  BY <3>1 DEF fine
  <2>3. n + 1 + 1 = n + 2 /\ (n + 1 + 1) - 1 = n + 1 /\ Len(e) = n + 2  BY <1>1, <1>4
  <2>4. CASE m < n + 2
    <3>1. n + 1 + 1 > m /\ m < Len(e)  BY <1>4, <2>3, <2>4
    <3> QED  BY <2>2, <3>1 DEF e
  <2>5. CASE m >= n + 2
    <3>1. /\ ~(n + 1 + 1 > m) /\ ~(m < Len(e)) /\ n + 1 <= m
          /\ n + 1 \in 1..(n + 2) /\ n + 2 \in 1..(n + 2)
      BY <1>4, <2>3, <2>5
    <3>2. rest[n + 1] = x /\ rest[n + 2] = y  BY <1>1, <1>5, <2>5, <3>1
    <3>3. rest[n + 1][2] = b  BY <1>3, <3>2
    <3> QED  BY <2>2, <2>3, <3>1, <3>2, <3>3 DEF e, y
  <2> QED  BY <1>4, <2>4, <2>5
<1> QED  BY <1>4, <1>7, <1>8

LEMMA ReadOfsEntry ==
    ASSUME NEW b \in Objects, NEW o \in Objects, NEW pos \in Nat, NEW start \in Nat, start <= pos,
           NEW S, NEW rest \in Seq(S), Agree(rest, Ofs(b, o, pos, start))
    PROVE  EntryOf(rest, pos) =
              IF Len(rest) < Len(Ofs(b, o, pos, start)) THEN [n |-> 0]
              ELSE [n |-> Len(Ofs(b, o, pos, start)), type |-> OfsDelta, size |-> DeltaSize,
                    body |-> <<Deflated, b, o>>,
                    ok |-> DeltaSize <= MaxObject /\ pos - start <= MaxDistance,
                    base |-> start]
<1> DEFINE g == EntryHead(OfsDelta, DeltaSize)
           v == pos - start
           d == EncodeOfs(v)
           h == DeltaBytes(pos, start)
           k == Len(g)
           n == Len(h)
           m == Len(rest)
           e == Ofs(b, o, pos, start)
           y == <<Deflated, b, o>>
<1>1. /\ h \in Seq(Nat) /\ e \in Seq(Piece) /\ Len(e) = n + 1
      /\ \A i \in 1..n : e[i] = <<Byte, h[i]>>
      /\ e[n + 1] = y
  BY OfsIs
<1>2. g \in Seq(Nat) /\ k >= 1 /\ \A i \in 1..(k - 1) : g[i] >= More
  <2> DEFINE t == OfsDelta
             z == DeltaSize
  <2>1. t \in 0..7 /\ z \in Nat /\ g = EntryHead(t, z)  BY Sizes
  <2> HIDE DEF t, z, g
  <2> QED  BY <2>1, HeadIs, HeadGoesOn
<1>15. RefDelta # OfsDelta  BY Sizes
<1>3. v \in Nat /\ d \in Seq(Nat) /\ Len(d) >= 1
      /\ EndsIn(d) /\ Taken(d) = d /\ ReadOfs(d).value = v
      /\ (ReadOfs(d).ok <=> v <= MaxDistance)
      /\ \A i \in 1..(Len(d) - 1) : d[i] >= More
  <2> DEFINE nil == <<>>
  <2>1. v \in Nat /\ nil \in Seq(Nat)  OBVIOUS
  <2> HIDE DEF v, nil
  <2>2. /\ d \in Seq(Nat) /\ Len(d) >= 1 /\ EndsIn(d \o nil) /\ Taken(d \o nil) = d
        /\ ReadOfs(d \o nil).value = v
        /\ ReadOfs(d \o nil).ok <=> v <= MaxDistance
    BY <2>1, OfsRoundTrip
  <2>3. \A i \in 1..(Len(d) - 1) : d[i] >= More  BY <2>1, OfsGoesOn
  <2> HIDE DEF d
  <2>4. d \o nil = d  BY <2>2 DEF nil
  <2> QED  BY <2>1, <2>2, <2>3, <2>4
<1>4. y[1] # Byte  BY DEF Byte, Deflated
<1>5. h = g \o d  BY DEF DeltaBytes
<1>6. \A r \in Seq(Nat) :
         /\ EndsIn(g \o r)
         /\ ReadEntryHead(g \o r) = [type |-> OfsDelta, size |-> DeltaSize, n |-> k,
                                     ok |-> DeltaSize <= MaxObject]
  BY Sizes, EntryHeadRoundTrip
<1>7. n \in Nat /\ m \in Nat /\ k \in Nat /\ Len(d) \in Nat  BY <1>1, <1>2, <1>3
<1> HIDE DEF g, d, h, e, y, n, k, v
<1>8. /\ n = k + Len(d)
      /\ \A i \in 1..k : h[i] = g[i]
      /\ \A i \in 1..Len(d) : h[k + i] = d[i]
  BY <1>2, <1>3, <1>5, ConcatIs DEF n, k
<1>9. \A i \in 1..(n + 1) : i <= m => rest[i] = e[i]  BY <1>1 DEF Agree, e
<1>10. BytesOf(rest) = IF m >= n THEN h ELSE SubSeq(h, 1, m)
  <2>1. \A i \in 1..n : i <= m => rest[i] = <<Byte, h[i]>>  BY <1>1, <1>7, <1>9
  <2>2. m > n => rest[n + 1][1] # Byte  BY <1>1, <1>4, <1>7, <1>9
  <2> QED  BY <1>1, <2>1, <2>2, BytesCome DEF n
<1>11. \A r \in Seq(Nat) : SubSeq(g \o r, k + 1, Len(g \o r)) = r
  <2> TAKE r \in Seq(Nat)
  <2> DEFINE gr == g \o r
             s == SubSeq(gr, k + 1, Len(gr))
  <2>1. gr \in Seq(Nat) /\ Len(gr) = k + Len(r) /\ \A i \in 1..Len(r) : gr[k + i] = r[i]
    BY <1>2, ConcatIs DEF k
  <2>2. Len(r) \in Nat  OBVIOUS
  <2> HIDE DEF gr
  <2>3. s \in Seq(Nat) /\ Len(s) = Len(r) /\ \A i \in 1..Len(r) : s[i] = gr[k + i]
    <3> DEFINE top == Len(gr)
               low == Len(r)
    <3>1. top \in Nat /\ low \in Nat /\ k \in Nat /\ top = k + low /\ k + 1 \in 1..(top + 1)
      BY <1>7, <2>1, <2>2
    <3>2. s = [i \in 1..low |-> gr[k + i]]
      <4>1. s = [i \in 1..((top - (k + 1)) + 1) |-> gr[(i + (k + 1)) - 1]]
        BY <2>1, <3>1
      <4>2. (top - (k + 1)) + 1 = low /\ \A i \in 1..low : (i + (k + 1)) - 1 = k + i
        BY <3>1
      <4> HIDE DEF s, top, low
      <4> QED  BY <4>1, <4>2
    <3>3. \A i \in 1..low : gr[k + i] \in Nat
      <4>1. \A i \in 1..low : r[i] \in Nat  BY SeqIs
      <4> QED  BY <2>1, <4>1
    <3> HIDE DEF s, top, low
    <3>4. s = [i \in 1..low |-> s[i]] /\ \A i \in 1..low : s[i] \in Nat  BY <3>2, <3>3
    <3>5. s \in Seq(Nat) /\ Len(s) = low  BY <3>1, <3>4, IsSeq
    <3> QED  BY <3>2, <3>5 DEF low
  <2> HIDE DEF s
  <2>4. s = r  BY <2>1, <2>3, SameSeq
  <2> QED  BY <2>4 DEF s, gr
<1>12. CASE m < k
  <2>1. m \in 0..(k - 1)  BY <1>7, <1>12
  <2>2. ~EndsIn(SubSeq(g, 1, m))  BY <1>2, <2>1, CutShort DEF k
  <2>3. SubSeq(h, 1, m) = SubSeq(g, 1, m)
    <3>1. \A i \in 1..m : h[i] = g[i]  BY <1>7, <1>8, <1>12
    <3>2. m <= Len(g) /\ m <= Len(h)  BY <1>7, <1>8, <1>12 DEF k, n
    <3>3. SubSeq(h, 1, m) = [i \in 1..m |-> h[i]] /\ SubSeq(g, 1, m) = [i \in 1..m |-> g[i]]
      BY <1>1, <1>2, <1>7, <3>2
    <3>4. [i \in 1..m |-> h[i]] = [i \in 1..m |-> g[i]]  BY <3>1
    <3> QED  BY <3>3, <3>4, Zenon
  <2>4. m < n  BY <1>7, <1>8, <1>12
  <2>5. ~EndsIn(BytesOf(rest))
    <3>1. ~(m >= n)  BY <1>7, <2>4
    <3>2. BytesOf(rest) = SubSeq(h, 1, m)  BY <1>10, <3>1
    <3> QED  BY <2>2, <2>3, <3>2
  <2> QED  BY <1>1, <1>7, <2>4, <2>5, Unended DEF e
<1>13. CASE k <= m /\ m < n
  <2> DEFINE j == m - k
             r == SubSeq(d, 1, j)
  <2>1. j \in 0..(Len(d) - 1)  BY <1>7, <1>8, <1>13
  <2>2. r \in Seq(Nat) /\ Len(r) = j /\ ~EndsIn(r)  BY <1>3, <2>1, CutShort
  <2>3. \A i \in 1..j : r[i] = d[i]  BY <1>3, <2>1
  <2>4. m = k + j  BY <1>7
  <2> HIDE DEF r, j
  <2>5. SubSeq(h, 1, m) = g \o r
    <3> DEFINE s == SubSeq(h, 1, m)
               gr == g \o r
    <3>1. s \in Seq(Nat) /\ Len(s) = m /\ \A i \in 1..m : s[i] = h[i]
      BY <1>1, <1>7, <1>13 DEF n
    <3>2. /\ gr \in Seq(Nat) /\ Len(gr) = k + j
          /\ \A i \in 1..k : gr[i] = g[i]
          /\ \A i \in 1..j : gr[k + i] = r[i]
      <4>1. g \in Seq(Nat) /\ r \in Seq(Nat) /\ Len(g) = k /\ Len(r) = j  BY <1>2, <2>2 DEF k
      <4> HIDE DEF s
      <4>2. /\ g \o r \in Seq(Nat) /\ Len(g \o r) = Len(g) + Len(r)
            /\ \A i \in 1..Len(g) : (g \o r)[i] = g[i]
            /\ \A i \in 1..Len(r) : (g \o r)[Len(g) + i] = r[i]
        BY <4>1, JoinedBytes
      <4> QED  BY <4>1, <4>2
    <3> HIDE DEF s, gr
    <3>3. ASSUME NEW i \in 1..m PROVE s[i] = gr[i]
      <4>1. CASE i <= k
        <5>1. i \in 1..k  BY <1>7, <4>1
        <5> QED  BY <1>8, <3>1, <3>2, <5>1
      <4>2. CASE i > k
        <5> DEFINE q == i - k
        <5>1. q \in 1..j /\ i = k + q /\ q \in 1..Len(d)  BY <1>7, <2>1, <2>4, <4>2
        <5> HIDE DEF q
        <5>2. gr[i] = r[q] /\ r[q] = d[q]  BY <2>3, <3>2, <5>1
        <5>3. s[i] = h[i] /\ h[i] = d[q]  BY <1>8, <3>1, <5>1
        <5> QED  BY <5>2, <5>3
      <4> QED  BY <1>7, <4>1, <4>2
    <3>4. Len(s) = Len(gr)  BY <2>4, <3>1, <3>2
    <3>5. s = gr  BY <3>1, <3>2, <3>3, <3>4, SameSeq
    <3> QED  BY <3>5 DEF s, gr
  <2>6. BytesOf(rest) = g \o r  BY <1>7, <1>10, <1>13, <2>5
  <2>7. /\ EndsIn(g \o r)
        /\ ReadEntryHead(g \o r) = [type |-> OfsDelta, size |-> DeltaSize, n |-> k,
                                    ok |-> DeltaSize <= MaxObject]
        /\ SubSeq(g \o r, k + 1, Len(g \o r)) = r
    BY <1>6, <1>11, <2>2
  <2> DEFINE bytes == BytesOf(rest)
             head == ReadEntryHead(bytes)
  <2>8. /\ head = [type |-> OfsDelta, size |-> DeltaSize, n |-> k,
                   ok |-> DeltaSize <= MaxObject]
        /\ SubSeq(bytes, k + 1, Len(bytes)) = r
    BY <2>6, <2>7
  <2>9. EntryOf(rest, pos) = [n |-> 0]
    <3> HIDE DEF bytes, head
    <3>1. head.type = OfsDelta /\ ~EndsIn(SubSeq(bytes, head.n + 1, Len(bytes)))
      BY <2>2, <2>8
    <3> QED  BY <3>1 DEF EntryOf, bytes, head
  <2> QED  BY <1>1, <1>7, <1>13, <2>9 DEF e
<1>14. CASE m >= n
  <2>1. BytesOf(rest) = g \o d  BY <1>5, <1>10, <1>14
  <2>2. /\ EndsIn(g \o d)
        /\ ReadEntryHead(g \o d) = [type |-> OfsDelta, size |-> DeltaSize, n |-> k,
                                    ok |-> DeltaSize <= MaxObject]
        /\ SubSeq(g \o d, k + 1, Len(g \o d)) = d
    BY <1>3, <1>6, <1>11
  <2> DEFINE l == Len(d)
             back == ReadOfs(d).value
             fine == DeltaSize <= MaxObject /\ v <= MaxDistance
             bytes == BytesOf(rest)
             head == ReadEntryHead(bytes)
             more == SubSeq(bytes, head.n + 1, Len(bytes))
  <2>3. EndsIn(bytes) /\ head = [type |-> OfsDelta, size |-> DeltaSize, n |-> k,
                                   ok |-> DeltaSize <= MaxObject]
        /\ SubSeq(bytes, k + 1, Len(bytes)) = d
    BY <2>1, <2>2
  <2>4. EntryOf(rest, pos) =
           IF k + 1 + l > m THEN [n |-> 0]
           ELSE [n |-> k + 1 + l, type |-> OfsDelta, size |-> DeltaSize,
                 body |-> rest[k + 1 + l], ok |-> fine, base |-> pos - back]
    <3> HIDE DEF bytes, head
    <3>1. head.type = OfsDelta /\ head.n = k /\ head.size = DeltaSize /\ more = d
      BY <2>3
    <3>2. EndsIn(more) /\ Len(Taken(more)) = l /\ ReadOfs(more).value = back
      BY <1>3, <3>1
    <3>6. (head.ok /\ (head.type = OfsDelta => ReadOfs(more).ok)) = fine
      <4>1. head.ok = (DeltaSize <= MaxObject)  BY <2>3
      <4>2. ReadOfs(more).ok <=> v <= MaxDistance  BY <1>3, <3>1
      <4> HIDE DEF head, more
      <4> QED  BY <3>1, <4>1, <4>2
    <3> HIDE DEF more
    <3>3. EntryOf(rest, pos) =
             LET x == head.n + 1 + CASE head.type = OfsDelta -> Len(Taken(more))
                            [] head.type = RefDelta -> 1
                            [] OTHER -> 0
             IN  IF x > m THEN [n |-> 0]
                 ELSE [n |-> x, type |-> head.type, size |-> head.size, body |-> rest[x],
                       ok |-> head.ok /\ (head.type = OfsDelta => ReadOfs(more).ok),
                       base |-> CASE head.type = OfsDelta -> pos - ReadOfs(more).value
                         [] head.type = RefDelta -> rest[x - 1][2]
                         [] OTHER -> 0]
      BY <2>3, <3>2 DEF EntryOf, bytes, head, more
    <3>4. (CASE head.type = OfsDelta -> Len(Taken(more))
             [] head.type = RefDelta -> 1
             [] OTHER -> 0) = l
      BY <1>15, <3>1, <3>2
    <3>5. \A x : (CASE head.type = OfsDelta -> pos - ReadOfs(more).value
             [] head.type = RefDelta -> rest[x - 1][2]
             [] OTHER -> 0) = pos - back
      BY <1>15, <3>1, <3>2
    <3> HIDE DEF l, back, fine
    <3> QED  BY <3>1, <3>3, <3>4, <3>5, <3>6
  <2>8. fine = (DeltaSize <= MaxObject /\ pos - start <= MaxDistance)  BY DEF v
  <2>5. k + 1 + l = n + 1 /\ Len(e) = n + 1 /\ pos - back = start
    <3>1. back = v  BY <1>3
    <3> HIDE DEF back
    <3> QED  BY <1>1, <1>7, <1>8, <3>1 DEF v
  <2> HIDE DEF l, back, fine
  <2>6. CASE m < n + 1
    <3>1. k + 1 + l > m /\ m < Len(e)  BY <1>7, <2>5, <2>6
    <3> QED  BY <2>4, <3>1 DEF e
  <2>7. CASE m >= n + 1
    <3>1. ~(k + 1 + l > m) /\ ~(m < Len(e)) /\ n + 1 \in 1..(n + 1)  BY <1>7, <2>5, <2>7
    <3>2. rest[n + 1] = y  BY <1>1, <1>9, <2>7, <3>1
    <3> QED  BY <2>4, <2>5, <2>8, <3>1, <3>2 DEF e, y
  <2> QED  BY <1>7, <2>6, <2>7
<1> QED  BY <1>7, <1>12, <1>13, <1>14

-----------------------------------------------------------------------------
(* A pack w that has come to hold the objects objs, each in an entry that   *)
(* starts after p[i] pieces and needs no base but an earlier one or one in  *)
(* have.                                                                   *)
IsEntry(e, i, objs, p, have) ==
    LET o == objs[i]
    IN  \/ e = Full(o)
        \/ \E k \in 1..(i - 1) : e = Ofs(objs[k], o, p[i], p[k])
        \/ \E b \in have \cup {objs[k] : k \in 1..(i - 1)} : e = Ref(b, o)

Holds(w, from, e) == \A j \in 1..Len(e) : w[from + j] = e[j]

Laid(w, objs, p, have) ==
    /\ w \in Seq(Piece) /\ objs \in Seq(Objects)
    /\ p \in [1..(Len(objs) + 1) -> Nat]
    /\ p[1] = 1 /\ p[Len(objs) + 1] = Len(w)
    /\ \A i, j \in 1..(Len(objs) + 1) : i < j => p[i] < p[j]
    /\ \A i \in 1..Len(objs) :
          \E e : IsEntry(e, i, objs, p, have) /\ Holds(w, p[i], e) /\ p[i + 1] = p[i] + Len(e)

LEMMA EntryPieces ==
    ASSUME NEW have \in SUBSET Objects, NEW objs \in Seq(Objects), NEW i \in 1..Len(objs),
           NEW p \in [1..(Len(objs) + 1) -> Nat],
           \A k \in 1..(i - 1) : p[k] < p[i],
           NEW e, IsEntry(e, i, objs, p, have)
    PROVE  e \in Seq(Piece) /\ Len(e) \in Nat /\ Len(e) >= 1
<1> DEFINE o == objs[i]
<1>1. o \in Objects /\ Len(objs) \in Nat  BY SeqIs
<1>2. \A k \in 1..(i - 1) : objs[k] \in Objects /\ p[k] \in Nat /\ p[k] <= p[i] /\ p[i] \in Nat
  <2> TAKE k \in 1..(i - 1)
  <2>1. k \in 1..Len(objs) /\ k \in 1..(Len(objs) + 1) /\ i \in 1..(Len(objs) + 1)  BY <1>1
  <2>2. objs[k] \in Objects  BY <2>1, SeqIs
  <2> QED  BY <2>1, <2>2
<1>3. \A b \in have \cup {objs[k] : k \in 1..(i - 1)} : b \in Objects  BY <1>2
<1>4. CASE e = Full(o)
  <2>1. e \in Seq(Piece) /\ Len(e) = Len(HeadOf(o)) + 1 /\ HeadOf(o) \in Seq(Nat)
    BY <1>1, <1>4, FullIs
  <2>2. Len(HeadOf(o)) \in Nat  BY <2>1
  <2> QED  BY <2>1, <2>2
<1>5. ASSUME NEW k \in 1..(i - 1), e = Ofs(objs[k], o, p[i], p[k])
      PROVE  e \in Seq(Piece) /\ Len(e) \in Nat /\ Len(e) >= 1
  <2> DEFINE h == DeltaBytes(p[i], p[k])
             b == objs[k]
             own == p[i]
             start == p[k]
  <2>1. b \in Objects /\ start \in Nat /\ own \in Nat /\ start <= own  BY <1>2
  <2>2. h = DeltaBytes(own, start) /\ e = Ofs(b, o, own, start)  BY <1>5
  <2> HIDE DEF h, b, own, start, o
  <2>3. e \in Seq(Piece) /\ Len(e) = Len(h) + 1 /\ h \in Seq(Nat)
    BY <1>1, <2>1, <2>2, OfsIs
  <2>4. Len(h) \in Nat  BY <2>3
  <2> QED  BY <2>3, <2>4
<1>6. ASSUME NEW b \in have \cup {objs[k] : k \in 1..(i - 1)}, e = Ref(b, o)
      PROVE  e \in Seq(Piece) /\ Len(e) \in Nat /\ Len(e) >= 1
  <2> DEFINE h == EntryHead(RefDelta, DeltaSize)
  <2>1. e \in Seq(Piece) /\ Len(e) = Len(h) + 2 /\ h \in Seq(Nat)
    BY <1>1, <1>3, <1>6, RefIs
  <2>2. Len(h) \in Nat  BY <2>1
  <2> QED  BY <2>1, <2>2
<1> QED  BY <1>4, <1>5, <1>6 DEF IsEntry

(* A pack grows by an entry for any object.                                *)
LEMMA Extend ==
    ASSUME NEW w, NEW objs, NEW p, NEW have \in SUBSET Objects, Laid(w, objs, p, have),
           NEW o \in Objects, NEW e,
           \/ e = Full(o)
           \/ \E k \in 1..Len(objs) : e = Ofs(objs[k], o, Len(w), p[k])
           \/ \E b \in have \cup {objs[k] : k \in 1..Len(objs)} : e = Ref(b, o)
    PROVE  /\ \E q : /\ Laid(w \o e, Append(objs, o), q, have)
                     /\ \A k \in 1..(Len(objs) + 1) : q[k] = p[k]
           /\ \A i \in 1..Len(w) : (w \o e)[i] = w[i]
<1> DEFINE n == Len(objs)
           all == Append(objs, o)
           q == [i \in 1..(n + 2) |-> IF i = n + 2 THEN Len(w) + Len(e) ELSE p[i]]
<1>1. /\ w \in Seq(Piece) /\ objs \in Seq(Objects) /\ p \in [1..(n + 1) -> Nat]
      /\ p[1] = 1 /\ p[n + 1] = Len(w)
      /\ \A i, j \in 1..(n + 1) : i < j => p[i] < p[j]
      /\ \A i \in 1..n : \E x : /\ IsEntry(x, i, objs, p, have) /\ Holds(w, p[i], x)
                                /\ p[i + 1] = p[i] + Len(x)
  BY DEF Laid
<1>2. n \in Nat /\ Len(w) \in Nat  BY <1>1
<1>3. /\ all \in Seq(Objects) /\ Len(all) = n + 1
      /\ all[n + 1] = o
      /\ \A i \in 1..n : all[i] = objs[i]
  BY <1>1
<1> HIDE DEF all
<1>4. \A i \in 1..(n + 1) : q[i] = p[i]  BY <1>2
<1>5. q[n + 2] = Len(w) + Len(e)  BY <1>2
<1>6. IsEntry(e, n + 1, all, q, have)
  <2>1. q[n + 1] = Len(w) /\ (n + 1) - 1 = n  BY <1>1, <1>2, <1>4
  <2>2. \A k \in 1..n : all[k] = objs[k] /\ q[k] = p[k]  BY <1>2, <1>3, <1>4
  <2>3. {objs[k] : k \in 1..n} = {all[k] : k \in 1..n}  BY <2>2
  <2> HIDE DEF q, n
  <2>4. CASE e = Full(o)  BY <1>3, <2>4 DEF IsEntry
  <2>5. ASSUME NEW k \in 1..n, e = Ofs(objs[k], o, Len(w), p[k])
        PROVE  IsEntry(e, n + 1, all, q, have)
    <3>1. e = Ofs(all[k], all[n + 1], q[n + 1], q[k])  BY <1>3, <2>1, <2>2, <2>5
    <3> QED  BY <2>1, <3>1 DEF IsEntry
  <2>6. ASSUME NEW b \in have \cup {objs[k] : k \in 1..n}, e = Ref(b, o)
        PROVE  IsEntry(e, n + 1, all, q, have)
    <3>1. b \in have \cup {all[k] : k \in 1..n} /\ e = Ref(b, all[n + 1])
      BY <1>3, <2>3, <2>6
    <3> QED  BY <2>1, <3>1 DEF IsEntry
  <2> QED  BY <2>4, <2>5, <2>6 DEF n
<1>7. e \in Seq(Piece) /\ Len(e) \in Nat /\ Len(e) >= 1
  <2> DEFINE x == Len(w) + 1
             r == [i \in 1..(n + 2) |-> IF i = n + 2 THEN x ELSE p[i]]
  <2>1. r \in [1..(Len(all) + 1) -> Nat]  BY <1>1, <1>2, <1>3
  <2>2. \A k \in 1..(n + 1) : r[k] = q[k]  BY <1>2, <1>4
  <2>3. \A k \in 1..n : r[k] < r[n + 1]
    <3>1. \A k \in 1..n : p[k] < p[n + 1]  BY <1>1, <1>2
    <3> QED  BY <1>2, <1>4, <2>2, <3>1
  <2>4. IsEntry(e, n + 1, all, r, have)
    <3>1. n + 1 \in 1..(n + 1) /\ (n + 1) - 1 = n /\ \A k \in 1..n : k \in 1..(n + 1)  BY <1>2
    <3> HIDE DEF r, q, n
    <3> QED  BY <1>6, <2>2, <3>1 DEF IsEntry
  <2>5. n + 1 \in 1..Len(all) /\ (n + 1) - 1 = n  BY <1>2, <1>3
  <2> HIDE DEF r, q, n
  <2> QED  BY <1>3, <2>1, <2>3, <2>4, <2>5, EntryPieces
<1>8. /\ w \o e \in Seq(Piece) /\ Len(w \o e) = Len(w) + Len(e)
      /\ \A i \in 1..Len(w) : (w \o e)[i] = w[i]
      /\ \A i \in 1..Len(e) : (w \o e)[Len(w) + i] = e[i]
  BY <1>1, <1>7, Joined
<1>9. q \in [1..(Len(all) + 1) -> Nat]
  <2>1. Len(all) + 1 = n + 2  BY <1>2, <1>3
  <2>2. \A i \in 1..(n + 2) : i = n + 2 \/ i \in 1..(n + 1)  BY <1>2
  <2>3. \A i \in 1..(n + 1) : p[i] \in Nat  BY <1>1
  <2>4. Len(w) + Len(e) \in Nat  BY <1>2, <1>7
  <2>5. q \in [1..(n + 2) -> Nat]
    <3> HIDE DEF n
    <3> QED  BY <2>2, <2>3, <2>4
  <2> HIDE DEF q
  <2> QED  BY <2>1, <2>5
<1>10. q[1] = 1 /\ q[Len(all) + 1] = Len(w \o e)  BY <1>1, <1>2, <1>3, <1>4, <1>5, <1>8
<1>11. ASSUME NEW i \in 1..(Len(all) + 1), NEW j \in 1..(Len(all) + 1), i < j
       PROVE  q[i] < q[j]
  <2>1. CASE j = n + 2
    <3>1. i \in 1..(n + 1)  BY <1>2, <1>3, <1>11, <2>1
    <3>2. p[i] <= p[n + 1] /\ p[i] \in Nat
      <4>1. i = n + 1 \/ i < n + 1  BY <1>2, <3>1
      <4>2. n + 1 \in 1..(n + 1)  BY <1>2
      <4>3. p[i] \in Nat /\ p[n + 1] \in Nat  BY <1>1, <3>1, <4>2
      <4> QED  BY <1>1, <3>1, <4>1, <4>2, <4>3
    <3>3. q[i] = p[i] /\ q[j] = Len(w) + Len(e)  BY <1>4, <1>5, <2>1, <3>1
    <3> HIDE DEF q
    <3> QED  BY <1>1, <1>2, <1>7, <3>2, <3>3
  <2>2. CASE j # n + 2
    <3>1. i \in 1..(n + 1) /\ j \in 1..(n + 1)  BY <1>2, <1>3, <1>11, <2>2
    <3> HIDE DEF q
    <3> QED  BY <1>1, <1>4, <1>11, <3>1
  <2> QED  BY <2>1, <2>2
<1>12. ASSUME NEW i \in 1..Len(all)
       PROVE  \E x : /\ IsEntry(x, i, all, q, have) /\ Holds(w \o e, q[i], x)
                     /\ q[i + 1] = q[i] + Len(x)
  <2>1. CASE i = n + 1
    <3>1. q[i] = Len(w) /\ q[i + 1] = Len(w) + Len(e)
      <4>1. i + 1 = n + 2 /\ i \in 1..(n + 1)  BY <1>2, <2>1
      <4> HIDE DEF q
      <4> QED  BY <1>1, <1>4, <1>5, <2>1, <4>1
    <3> HIDE DEF q
    <3>2. Holds(w \o e, q[i], e)  BY <1>8, <3>1 DEF Holds
    <3> QED  BY <1>6, <2>1, <3>1, <3>2
  <2>2. CASE i # n + 1
    <3>1. i \in 1..n /\ i \in 1..(n + 1) /\ i + 1 \in 1..(n + 1) /\ n + 1 \in 1..(n + 1)
      BY <1>2, <1>3, <2>2
    <3>2. PICK x : /\ IsEntry(x, i, objs, p, have) /\ Holds(w, p[i], x)
                   /\ p[i + 1] = p[i] + Len(x)
      BY <1>1, <3>1
    <3>3. q[i] = p[i] /\ q[i + 1] = p[i + 1]  BY <1>4, <3>1
    <3>4. x \in Seq(Piece) /\ Len(x) \in Nat
      <4>1. \A k \in 1..(i - 1) : p[k] < p[i]
        <5> TAKE k \in 1..(i - 1)
        <5>1. k \in 1..(n + 1) /\ k < i  BY <1>2, <3>1
        <5> QED  BY <1>1, <3>1, <5>1
      <4> HIDE DEF q
      <4> QED  BY <1>1, <3>1, <3>2, <4>1, EntryPieces
    <3>5. p[i + 1] <= Len(w) /\ p[i] \in Nat /\ p[i + 1] \in Nat
      <4>1. i + 1 = n + 1 \/ i + 1 < n + 1  BY <1>2, <3>1
      <4>2. p[i] \in Nat /\ p[i + 1] \in Nat /\ p[n + 1] \in Nat  BY <1>1, <3>1
      <4>3. i + 1 < n + 1 => p[i + 1] < p[n + 1]
        <5> HIDE DEF q
        <5> QED  BY <1>1, <3>1
      <4>4. p[i + 1] <= p[n + 1]
        <5> HIDE DEF q
        <5> QED  BY <4>1, <4>2, <4>3
      <4> HIDE DEF q
      <4> QED  BY <1>1, <4>2, <4>4
    <3> HIDE DEF q
    <3>6. Holds(w \o e, q[i], x)
      <4> SUFFICES ASSUME NEW k \in 1..Len(x) PROVE (w \o e)[p[i] + k] = x[k]
        BY <3>3 DEF Holds
      <4>1. p[i] + k \in 1..Len(w)  BY <1>2, <3>2, <3>4, <3>5
      <4> QED  BY <1>8, <3>2, <4>1 DEF Holds
    <3>7. IsEntry(x, i, all, q, have)
      <4>1. \A k \in 1..(i - 1) : all[k] = objs[k] /\ q[k] = p[k]
        <5> TAKE k \in 1..(i - 1)
        <5>1. k \in 1..n /\ k \in 1..(n + 1)  BY <1>2, <3>1
        <5> QED  BY <1>3, <1>4, <5>1
      <4>2. all[i] = objs[i] /\ q[i] = p[i]  BY <1>3, <3>1, <3>3
      <4>3. {objs[k] : k \in 1..(i - 1)} = {all[k] : k \in 1..(i - 1)}  BY <4>1
      <4> QED  BY <3>2, <4>1, <4>2, <4>3 DEF IsEntry
    <3> QED  BY <3>2, <3>3, <3>6, <3>7
  <2> QED  BY <2>1, <2>2
<1> HIDE DEF q
<1>13. Laid(w \o e, all, q, have)
  BY <1>3, <1>8, <1>9, <1>10, <1>11, <1>12 DEF Laid
<1> QED  BY <1>4, <1>8, <1>13 DEF all

(* What the decoder makes of the entry of objs[j]; what is beyond a limit   *)
(* is not ok.                                                              *)
Decoded(x, j, objs, p, have) ==
    LET o == objs[j]
    IN  \/ /\ x.type = Type[o] /\ x.size = Size[o] /\ x.body = <<Deflated, o>>
           /\ x.ok \/ ~(Size[o] <= MaxObject)
        \/ /\ x.type = OfsDelta /\ x.size = DeltaSize
           /\ x.ok \/ ~(DeltaSize <= MaxObject) \/ p[j] > MaxDistance
           /\ \E k \in 1..(j - 1) : x.base = p[k] /\ x.body = <<Deflated, objs[k], o>>
        \/ /\ x.type = RefDelta /\ x.size = DeltaSize
           /\ x.ok \/ ~(DeltaSize <= MaxObject)
           /\ \E b \in have \cup {objs[k] : k \in 1..(j - 1)} :
                 x.base = b /\ x.body = <<Deflated, b, o>>

(* Read where it starts, an entry is what was written, or has not all come.*)
LEMMA LaidRead ==
    ASSUME NEW w, NEW objs, NEW p, NEW have \in SUBSET Objects, Laid(w, objs, p, have),
           NEW j \in 1..Len(objs), NEW S, NEW rest \in Seq(S),
           \A i \in 1..(p[j + 1] - p[j]) : i <= Len(rest) => rest[i] = w[p[j] + i]
    PROVE  LET n == p[j + 1] - p[j]
               x == EntryOf(rest, p[j])
           IN  /\ n \in Nat /\ n >= 1
               /\ Len(rest) < n => x.n = 0
               /\ Len(rest) >= n => x.n = n /\ Decoded(x, j, objs, p, have)
<1> DEFINE n == p[j + 1] - p[j]
           x == EntryOf(rest, p[j])
           o == objs[j]
           from == p[j]
<1>1. /\ objs \in Seq(Objects) /\ p \in [1..(Len(objs) + 1) -> Nat]
      /\ \A i, k \in 1..(Len(objs) + 1) : i < k => p[i] < p[k]
      /\ Len(objs) \in Nat
  <2> HIDE DEF n, x, o, from
  <2>1. objs \in Seq(Objects) /\ p \in [1..(Len(objs) + 1) -> Nat]  BY DEF Laid
  <2>2. \A i, k \in 1..(Len(objs) + 1) : i < k => p[i] < p[k]  BY DEF Laid
  <2> QED  BY <2>1, <2>2
<1>2. /\ o \in Objects /\ from \in Nat /\ p[j + 1] \in Nat
      /\ \A k \in 1..(j - 1) : objs[k] \in Objects /\ p[k] \in Nat /\ p[k] < from
  <2>1. j \in 1..(Len(objs) + 1) /\ j + 1 \in 1..(Len(objs) + 1)  BY <1>1
  <2>2. \A k \in 1..(j - 1) : k \in 1..Len(objs) /\ k \in 1..(Len(objs) + 1) /\ k < j  BY <1>1
  <2>3. \A k \in 1..Len(objs) : objs[k] \in Objects  BY <1>1, SeqIs
  <2> QED  BY <1>1, <2>1, <2>2, <2>3
<1>3. PICK e : IsEntry(e, j, objs, p, have) /\ Holds(w, from, e) /\ p[j + 1] = from + Len(e)
  BY DEF Laid
<1>4. e \in Seq(Piece) /\ Len(e) \in Nat /\ Len(e) >= 1
  <2> HIDE DEF x, n
  <2> QED  BY <1>1, <1>2, <1>3, EntryPieces
<1>5. n = Len(e)  BY <1>2, <1>3, <1>4
<1>6. Agree(rest, e)
  <2> SUFFICES ASSUME NEW i \in 1..Len(e), i <= Len(rest) PROVE rest[i] = e[i]
    BY DEF Agree
  <2>1. rest[i] = w[from + i]  BY <1>5
  <2> QED  BY <1>3, <2>1 DEF Holds
<1>7. Len(rest) \in Nat  OBVIOUS
<1> HIDE DEF n, o, from
<1>8. CASE e = Full(o)
  <2>1. x = IF Len(rest) < Len(e) THEN [n |-> 0]
            ELSE [n |-> Len(e), type |-> Type[o], size |-> Size[o],
                  body |-> <<Deflated, o>>, ok |-> Size[o] <= MaxObject, base |-> 0]
    BY <1>2, <1>6, <1>8, ReadFull DEF from
  <2> HIDE DEF x
  <2>2. Len(rest) < n => x.n = 0  BY <1>5, <2>1
  <2>3. ASSUME Len(rest) >= n PROVE x.n = n /\ Decoded(x, j, objs, p, have)
    <3>1. ~(Len(rest) < Len(e))  BY <1>4, <1>5, <1>7, <2>3
    <3>2. /\ x.n = n /\ x.type = Type[o] /\ x.size = Size[o] /\ x.body = <<Deflated, o>>
          /\ x.ok \/ ~(Size[o] <= MaxObject)
      BY <1>5, <2>1, <3>1
    <3> QED  BY <3>2 DEF Decoded, o
  <2> QED  BY <1>4, <1>5, <2>2, <2>3 DEF x, n, from
<1>9. ASSUME NEW k \in 1..(j - 1), e = Ofs(objs[k], o, from, p[k])
      PROVE  /\ Len(rest) < n => x.n = 0
             /\ Len(rest) >= n => x.n = n /\ Decoded(x, j, objs, p, have)
  <2> DEFINE b == objs[k]
             start == p[k]
  <2>1. b \in Objects /\ start \in Nat /\ start <= from /\ e = Ofs(b, o, from, start)
    BY <1>2, <1>9
  <2> HIDE DEF b, start
  <2>2. x = IF Len(rest) < Len(e) THEN [n |-> 0]
            ELSE [n |-> Len(e), type |-> OfsDelta, size |-> DeltaSize,
                  body |-> <<Deflated, b, o>>,
                  ok |-> DeltaSize <= MaxObject /\ from - start <= MaxDistance,
                  base |-> start]
    <3>1. EntryOf(rest, from) =
             IF Len(rest) < Len(e) THEN [n |-> 0]
             ELSE [n |-> Len(e), type |-> OfsDelta, size |-> DeltaSize,
                   body |-> <<Deflated, b, o>>,
                   ok |-> DeltaSize <= MaxObject /\ from - start <= MaxDistance,
                   base |-> start]
      BY <1>2, <1>6, <2>1, ReadOfsEntry
    <3>2. x = EntryOf(rest, from)  BY DEF from
    <3> HIDE DEF x
    <3> QED  BY <3>1, <3>2
  <2> HIDE DEF x
  <2>3. Len(rest) < n => x.n = 0  BY <1>5, <2>2
  <2>4. ASSUME Len(rest) >= n PROVE x.n = n /\ Decoded(x, j, objs, p, have)
    <3>1. ~(Len(rest) < Len(e))  BY <1>4, <1>5, <1>7, <2>4
    <3>2. /\ x.n = n /\ x.type = OfsDelta /\ x.size = DeltaSize
          /\ x.body = <<Deflated, b, o>> /\ x.base = start
          /\ x.ok <=> DeltaSize <= MaxObject /\ from - start <= MaxDistance
      BY <1>5, <2>2, <3>1
    <3>3. from - start <= MaxDistance \/ from > MaxDistance
      BY <1>2, <2>1, LimitAssumption
    <3>4. x.ok \/ ~(DeltaSize <= MaxObject) \/ p[j] > MaxDistance
      BY <3>2, <3>3 DEF from
    <3> QED  BY <3>2, <3>4 DEF Decoded, o, b, start
  <2> QED  BY <2>3, <2>4
<1>10. ASSUME NEW b \in have \cup {objs[k] : k \in 1..(j - 1)}, e = Ref(b, o)
       PROVE  /\ Len(rest) < n => x.n = 0
              /\ Len(rest) >= n => x.n = n /\ Decoded(x, j, objs, p, have)
  <2>1. b \in Objects  BY <1>2
  <2>2. x = IF Len(rest) < Len(e) THEN [n |-> 0]
            ELSE [n |-> Len(e), type |-> RefDelta, size |-> DeltaSize,
                  body |-> <<Deflated, b, o>>, ok |-> DeltaSize <= MaxObject, base |-> b]
    BY <1>2, <1>6, <1>10, <2>1, ReadRef DEF from
  <2> HIDE DEF x
  <2>3. Len(rest) < n => x.n = 0  BY <1>5, <2>2
  <2>4. ASSUME Len(rest) >= n PROVE x.n = n /\ Decoded(x, j, objs, p, have)
    <3>1. ~(Len(rest) < Len(e))  BY <1>4, <1>5, <1>7, <2>4
    <3>2. /\ x.n = n /\ x.type = RefDelta /\ x.size = DeltaSize
          /\ x.body = <<Deflated, b, o>> /\ x.base = b
          /\ x.ok \/ ~(DeltaSize <= MaxObject)
      BY <1>5, <2>2, <3>1
    <3> QED  BY <3>2 DEF Decoded, o
  <2> QED  BY <2>3, <2>4
<1>11. IsEntry(e, j, objs, p, have) <=>
         \/ e = Full(o)
         \/ \E k \in 1..(j - 1) : e = Ofs(objs[k], o, from, p[k])
         \/ \E b \in have \cup {objs[k] : k \in 1..(j - 1)} : e = Ref(b, o)
  BY DEF IsEntry, o, from
<1> HIDE DEF x
<1>12. /\ Len(rest) < n => x.n = 0
       /\ Len(rest) >= n => x.n = n /\ Decoded(x, j, objs, p, have)
  <2>1. CASE e = Full(o)  BY <1>8, <2>1 DEF x, n, from
  <2> QED  BY <1>3, <1>9, <1>10, <1>11, <2>1
<1> QED  BY <1>4, <1>5, <1>12 DEF x, n, from

(* What the decoder may refuse: an entry for o that starts after n pieces.   *)
Beyond(o, n) == Size[o] > MaxObject \/ DeltaSize > MaxObject \/ n > MaxDistance

(* readObject stores the very object that was sent, or refuses one that is  *)
(* beyond a limit.                                                         *)
LEMMA ResultIs ==
    ASSUME NEW objs \in Seq(Objects), NEW p, NEW have \in SUBSET Objects, NEW j \in 1..Len(objs),
           NEW x, Decoded(x, j, objs, p, have),
           \A i \in 1..(j - 1) : p[i] \in DOMAIN reader.offsets,
           \A i \in 1..(j - 1) : reader.offsets[p[i]] = objs[i],
           \A i \in 1..(j - 1) : objs[i] \in store,
           have \subseteq store
    PROVE  /\ ResultsOf(x) \subseteq {objs[j]}
           /\ ResultsOf(x) = {} => Beyond(objs[j], p[j])
<1> DEFINE o == objs[j]
           large == \/ ~(Size[o] <= MaxObject)
                    \/ ~(DeltaSize <= MaxObject)
                    \/ p[j] > MaxDistance
           wish == ResultsOf(x) \subseteq {o} /\ (ResultsOf(x) = {} => large)
<1>1. o \in Objects /\ \A k \in 1..(j - 1) : objs[k] \in Objects
  <2>1. Len(objs) \in Nat  OBVIOUS
  <2>2. \A k \in 1..(j - 1) : k \in 1..Len(objs)  BY <2>1
  <2> QED  BY <2>2, SeqIs
<1>2. ASSUME NEW b \in Objects, NEW body, body = <<Deflated, b, o>>
      PROVE  Patch(b, body) = {o} \/ (Patch(b, body) = {} /\ ~(Size[o] <= MaxObject))
  <2>1. body[2] = b /\ body[3] = o  BY <1>2
  <2>2. Size[o] > MaxObject => ~(Size[o] <= MaxObject)
    <3>1. Size[o] \in Nat /\ MaxObject \in Nat  BY <1>1, Sizes, LimitAssumption
    <3> HIDE DEF o
    <3> QED  BY <3>1
  <2> QED  BY <2>1, <2>2 DEF Patch
<1>8. ~x.ok => ResultsOf(x) = {}  BY DEF ResultsOf
<1>3. OfsDelta # RefDelta /\ Type[o] \notin {OfsDelta, RefDelta}
  <2> DEFINE t == Type[o]
  <2>1. t \in 1..4 /\ OfsDelta = 6 /\ RefDelta = 7  BY <1>1, Sizes
  <2> HIDE DEF t
  <2>2. t # OfsDelta /\ t # RefDelta /\ OfsDelta # RefDelta  BY <2>1
  <2> QED  BY <2>2 DEF t
<1>4. Garbage \notin Objects  BY Sizes DEF Garbage
<1>5. ASSUME x.type = Type[o], x.size = Size[o], x.body = <<Deflated, o>>,
             x.ok \/ ~(Size[o] <= MaxObject)
      PROVE  wish
  <2>1. x.body[2] = o  BY <1>5
  <2>2. ASSUME x.ok PROVE ResultsOf(x) = {o}
    <3>1. ResultsOf(x) = {y \in {x.body[2]} : Size[y] = x.size /\ Type[y] = x.type}
      BY <1>3, <1>5, <2>2 DEF ResultsOf
    <3> HIDE DEF o
    <3> QED  BY <1>5, <2>1, <3>1
  <2> HIDE DEF o
  <2> QED  BY <1>5, <1>8, <2>2
<1>6. ASSUME x.type = OfsDelta, x.size = DeltaSize, NEW k \in 1..(j - 1), x.base = p[k],
             x.body = <<Deflated, objs[k], o>>,
             x.ok \/ ~(DeltaSize <= MaxObject) \/ p[j] > MaxDistance
      PROVE  wish
  <2> DEFINE b == objs[k]
             bases == {reader.offsets[i] : i \in DOMAIN reader.offsets \cap {x.base}}
  <2>1. b \in Objects /\ b \in store  BY <1>1
  <2>2. bases = {b}
    <3>1. DOMAIN reader.offsets \cap {x.base} = {p[k]}  BY <1>6
    <3> QED  BY <3>1
  <2>3. x.ok => ResultsOf(x) = UNION {Patch(y, x.body) : y \in bases \cap (store \ {Garbage})}
    BY <1>3, <1>6 DEF ResultsOf
  <2>4. bases \cap (store \ {Garbage}) = {b}  BY <1>4, <2>1, <2>2
  <2>5. Patch(b, x.body) = {o} \/ (Patch(b, x.body) = {} /\ ~(Size[o] <= MaxObject))
    BY <1>2, <1>6, <2>1
  <2> DEFINE patch == Patch(b, x.body)
  <2>6. x.ok => ResultsOf(x) = patch
    <3> HIDE DEF bases, b
    <3>1. UNION {Patch(y, x.body) : y \in {b}} = Patch(b, x.body)  OBVIOUS
    <3> QED  BY <2>3, <2>4, <3>1
  <2> HIDE DEF patch, b, bases, o
  <2>7. patch = {o} \/ (patch = {} /\ ~(Size[o] <= MaxObject))  BY <2>5 DEF patch
  <2> QED  BY <1>6, <1>8, <2>6, <2>7
<1>7. ASSUME x.type = RefDelta, x.size = DeltaSize,
             NEW b \in have \cup {objs[k] : k \in 1..(j - 1)}, x.base = b,
             x.body = <<Deflated, b, o>>,
             x.ok \/ ~(DeltaSize <= MaxObject)
      PROVE  wish
  <2>1. b \in Objects /\ b \in store  BY <1>1
  <2>2. x.ok => ResultsOf(x) = UNION {Patch(y, x.body) : y \in {b} \cap (store \ {Garbage})}
    BY <1>3, <1>7 DEF ResultsOf
  <2>3. {b} \cap (store \ {Garbage}) = {b}  BY <1>4, <2>1
  <2>4. Patch(b, x.body) = {o} \/ (Patch(b, x.body) = {} /\ ~(Size[o] <= MaxObject))
    BY <1>2, <1>7, <2>1
  <2> DEFINE patch == Patch(b, x.body)
  <2>5. x.ok => ResultsOf(x) = patch
    <3>1. UNION {Patch(y, x.body) : y \in {b}} = Patch(b, x.body)  OBVIOUS
    <3> QED  BY <2>2, <2>3, <3>1
  <2> HIDE DEF patch, o
  <2>6. patch = {o} \/ (patch = {} /\ ~(Size[o] <= MaxObject))  BY <2>4 DEF patch
  <2> QED  BY <1>7, <1>8, <2>5, <2>6
<1>9. wish  BY <1>5, <1>6, <1>7 DEF Decoded
<1>10. large => Beyond(o, p[j])
  <2>1. Size[o] \in Nat /\ DeltaSize \in Nat /\ MaxObject \in Nat
    BY <1>1, Sizes, LimitAssumption
  <2> HIDE DEF o
  <2> QED  BY <2>1 DEF Beyond
<1> QED  BY <1>9, <1>10

-----------------------------------------------------------------------------
(* The inductive invariant of the delivery.  Who is at what:               *)
ReaderFields == {"at", "pos", "left", "offsets"}

Phases ==
    /\ reader.at \in {"idle", "head", "objects"}
    /\ sender.at = "idle" <=> reader.at = "idle"
    /\ sender.at \in {"exclude", "walk", "pack"} => ended = "open" /\ reader.at = "head"
    /\ sender.at = "gone" => ended \in {"flush", "eof", "broken", "error"}
    /\ sender.at \in {"exclude", "walk"} => wire = <<>> /\ DOMAIN sender.start = {}
    /\ sender.at = "walk" => ToSet(sender.todo) \subseteq Served
    /\ reader.at # "idle" => DOMAIN reader = ReaderFields /\ outcome = "none"
    /\ reader.at = "head" => reader.pos = 0 /\ DOMAIN reader.offsets = {}
    /\ faults \in Nat
    /\ faults = 0 => lost = {} /\ damaged = {}
    /\ ended \in {"eof", "broken"} => faults # 0

(* A pack for n objects of which objs are written.                         *)
Packed(w, objs, p, n) ==
    /\ Laid(w, objs, p, Closure(refs))
    /\ w[1] = <<Count, n>> /\ n \in Nat /\ Len(objs) <= n

(* What is chosen and not written yet waits; each base is where the sender *)
(* takes it to be.                                                         *)
PackOf(w, todo, metas, start, objs, p) ==
    /\ Packed(w, objs, p, Len(metas))
    /\ todo \in Seq(Objects)
    /\ Len(objs) + Len(todo) = Len(metas)
    /\ ToSet(metas) = ToSet(objs) \cup ToSet(todo)
    /\ \A b \in DOMAIN start : \E k \in 1..Len(objs) : objs[k] = b /\ p[k] = start[b]

PackAt(objs, p) == PackOf(wire, sender.todo, sender.metas, sender.start, objs, p)

Packing == sender.at = "pack" => \E objs, p : PackAt(objs, p)

(* What arrives is the pack w, with its checksum or without, or a part.    *)
Carried(w) ==
    /\ wire \in Seq(Piece \cup {SumOf(w)})
    /\ Len(wire) <= Len(w) + 1
    /\ \A i \in 1..Len(wire) : wire[i] = IF i <= Len(w) THEN w[i] ELSE SumOf(w)

Arrives(w, objs, p, n) ==
    /\ Packed(w, objs, p, n)
    /\ Carried(w)
    /\ ToSet(objs) \subseteq Closure(sender.wants)
    /\ Len(wire) > Len(w) =>
          Len(objs) = n /\ Closure(sender.wants) \subseteq Closure(refs) \cup ToSet(objs)
    /\ ended = "flush" => Len(wire) > Len(w)
    /\ ended = "eof" => Len(wire) = Len(w)

(* The reader has read the first j - 1 objects, where they were written.   *)
ReadUpto(j, objs, p, n) ==
    /\ reader.pos = p[j] /\ p[j] <= Len(wire) /\ reader.left = n - (j - 1)
    /\ DOMAIN reader.offsets = {p[i] : i \in 1..(j - 1)}
    /\ \A i \in 1..(j - 1) : reader.offsets[p[i]] = objs[i]
    /\ \A i \in 1..(j - 1) : objs[i] \in store

Nothing ==
    /\ wire = <<>> /\ reader.at = "head"
    /\ ended = "flush" => Closure(sender.wants) \subseteq Closure(refs)

Something(w, objs, p, n) ==
    /\ Arrives(w, objs, p, n)
    /\ reader.at = "objects" => \E j \in 1..(Len(objs) + 1) : ReadUpto(j, objs, p, n)

Delivery == sender.at = "gone" => Nothing \/ \E w, objs, p, n : Something(w, objs, p, n)

WireInv == Phases /\ Packing /\ Delivery /\ Complete /\ Genuine /\ NeverRefused

-----------------------------------------------------------------------------
LEMMA SameClosure ==
    ASSUME refs' = refs, sender'.wants = sender.wants
    PROVE  Closure(refs)' = Closure(refs) /\ Closure(sender.wants)' = Closure(sender.wants)
  BY DEF Closure, Reach

LEMMA StoreKept ==
    ASSUME WireInv, UNCHANGED <<refs, store>>, outcome' = "none"
    PROVE  Complete' /\ Genuine' /\ NeverRefused'
<1>1. Closure(refs)' = Closure(refs)  BY DEF Closure, Reach
<1>2. Complete'  BY <1>1 DEF WireInv, Complete
<1>3. Genuine'  BY DEF WireInv, Genuine
<1>4. NeverRefused'  BY DEF NeverRefused
<1> QED  BY <1>2, <1>3, <1>4

LEMMA InitWire == Init => WireInv
<1> SUFFICES ASSUME Init PROVE WireInv  OBVIOUS
<1>1. /\ sender.at = "idle" /\ reader.at = "idle" /\ ended = "open" /\ outcome = "none"
      /\ store = Closure(refs)
  BY DEF Init, Idle
<1>2. refs \subseteq Objects  BY TransferAssumption DEF Init
<1>3. faults \in Nat /\ (faults = 0 => lost = {} /\ damaged = {})
  <2>1. IsFiniteSet(lost) /\ IsFiniteSet(damaged)  BY FS_EmptySet, FS_Singleton DEF Init
  <2>2. /\ Cardinality(lost) \in Nat /\ Cardinality(damaged) \in Nat
        /\ Cardinality(lost) = 0 <=> lost = {}
        /\ Cardinality(damaged) = 0 <=> damaged = {}
    BY <2>1, FS_CardinalityType, FS_EmptySet
  <2>3. faults = Cardinality(lost) + Cardinality(damaged)  BY DEF Init
  <2> DEFINE a == Cardinality(lost)
             b == Cardinality(damaged)
  <2>4. a \in Nat /\ b \in Nat /\ faults = a + b  BY <2>2, <2>3
  <2>5. a = 0 <=> lost = {}  BY <2>2
  <2>6. b = 0 <=> damaged = {}  BY <2>2
  <2> HIDE DEF a, b
  <2> QED  BY <2>4, <2>5, <2>6
<1>4. Phases  BY <1>1, <1>3 DEF Phases
<1>5. Packing /\ Delivery  BY <1>1 DEF Packing, Delivery
<1>6. Complete /\ Genuine  BY <1>1, <1>2, ClosureIs DEF Complete, Genuine
<1>7. NeverRefused  BY <1>1 DEF NeverRefused
<1> QED  BY <1>4, <1>5, <1>6, <1>7 DEF WireInv

LEMMA SameWire == ASSUME WireInv, UNCHANGED vars PROVE WireInv'
<1>1. /\ refs' = refs /\ store' = store /\ sender' = sender /\ wire' = wire /\ ended' = ended
      /\ reader' = reader /\ outcome' = outcome /\ faults' = faults /\ lost' = lost
      /\ damaged' = damaged
  BY DEF vars, serverVars, clientVars
<1>2. Closure(refs)' = Closure(refs) /\ Closure(sender.wants)' = Closure(sender.wants)
  BY <1>1 DEF Closure, Reach
<1>3. Phases'  BY <1>1 DEF WireInv, Phases
<1>4. \A w, objs, p, n : Packed(w, objs, p, n)' <=> Packed(w, objs, p, n)
  BY <1>1, <1>2 DEF Packed
<1>5. Packing'
  BY <1>1, <1>2 DEF WireInv, Packing, PackAt, PackOf, Packed
<1>6. Delivery'
  <2>1. Nothing' <=> Nothing  BY <1>1, <1>2 DEF Nothing
  <2>2. \A j, objs, p, n : ReadUpto(j, objs, p, n)' <=> ReadUpto(j, objs, p, n)
    BY <1>1 DEF ReadUpto
  <2>3. \A w, objs, p, n : Arrives(w, objs, p, n)' <=> Arrives(w, objs, p, n)
    BY <1>1, <1>2, <1>4 DEF Arrives, Carried
  <2>4. \A w, objs, p, n : Something(w, objs, p, n)' <=> Something(w, objs, p, n)
    BY <1>1, <2>2, <2>3 DEF Something
  <2> QED  BY <1>1, <2>1, <2>4 DEF WireInv, Delivery
<1>7. Complete' /\ Genuine' /\ NeverRefused'
  BY <1>1, <1>2 DEF WireInv, Complete, Genuine, NeverRefused, TooLarge
<1> QED  BY <1>3, <1>5, <1>6, <1>7 DEF WireInv

LEMMA FetchWire == ASSUME WireInv, Fetch PROVE WireInv'
<1>1. PICK tips \in Tips, peer \in {"pgit", "git"} :
          sender' = [at |-> "exclude", peer |-> peer, wants |-> tips, todo |-> SetToSeq(refs),
                     exclude |-> {}, metas |-> <<>>, start |-> [o \in {} |-> 0]]
  BY DEF Fetch
<1>2. reader' = [at |-> "head", pos |-> 0, left |-> 0, offsets |-> [p \in {} |-> 0]]
  BY DEF Fetch
<1>3. /\ sender'.at = "exclude" /\ DOMAIN sender'.start = {}
      /\ reader'.at = "head" /\ reader'.pos = 0 /\ DOMAIN reader'.offsets = {}
      /\ DOMAIN reader' = ReaderFields
  BY <1>1, <1>2 DEF ReaderFields
<1>4. /\ wire' = <<>> /\ ended' = "open" /\ outcome' = "none" /\ faults' = faults
      /\ refs' = refs /\ store' = store /\ lost' = lost /\ damaged' = damaged
  BY DEF Fetch, serverVars, clientVars
<1>5. Phases'  BY <1>3, <1>4 DEF WireInv, Phases
<1>6. Packing' /\ Delivery'  BY <1>3 DEF Packing, Delivery
<1> QED  BY <1>4, <1>5, <1>6, StoreKept DEF WireInv

(* What a step of the server leaves alone.                                 *)
Unheard ==
    /\ UNCHANGED <<refs, store, lost, damaged, reader, outcome, faults>>

LEMMA SearchWire ==
    ASSUME WireInv, Unheard, sender.at \in {"exclude", "walk"},
           sender'.at \in {"exclude", "walk"}, DOMAIN sender'.start = {},
           sender'.at = "walk" => ToSet(sender'.todo) \subseteq Served,
           wire' = wire, ended' = ended
    PROVE  WireInv'
<1>1. reader.at = "head" /\ wire = <<>> /\ ended = "open" /\ outcome = "none"
  BY DEF WireInv, Phases
<1>2. Phases'  BY <1>1 DEF WireInv, Phases, Unheard
<1>3. Packing' /\ Delivery'  BY DEF Packing, Delivery
<1> QED  BY <1>1, <1>2, <1>3, StoreKept DEF WireInv, Unheard

(* A sender that is gone leaves what it has written.                       *)
LEMMA LeftWire ==
    ASSUME WireInv, UNCHANGED <<refs, store, lost, damaged, reader, outcome>>,
           sender.at \in {"walk", "pack"}, sender' = [sender EXCEPT !.at = "gone"],
           "at" \in DOMAIN sender, faults' = faults,
           ended' \in {"flush", "eof", "error"}, ended' = "eof" => faults # 0,
           Delivery'
    PROVE  WireInv'
<1>1. sender'.at = "gone"  OBVIOUS
<1>2. reader.at = "head" /\ outcome = "none"  BY DEF WireInv, Phases
<1>3. Phases'  BY <1>1, <1>2 DEF WireInv, Phases
<1>4. Packing'  BY <1>1 DEF Packing
<1> QED  BY <1>2, <1>3, <1>4, StoreKept DEF WireInv

-----------------------------------------------------------------------------
LEMMA LaidIs ==
    ASSUME NEW w, NEW objs, NEW p, NEW have, Laid(w, objs, p, have)
    PROVE  /\ Len(objs) \in Nat /\ Len(w) \in Nat /\ Len(w) >= 1
           /\ w \in Seq(Piece) /\ objs \in Seq(Objects)
           /\ p[1] = 1 /\ p[Len(objs) + 1] = Len(w)
           /\ \A j \in 1..(Len(objs) + 1) : p[j] \in Nat /\ 1 <= p[j] /\ p[j] <= Len(w)
           /\ \A i, j \in 1..(Len(objs) + 1) : i < j => p[i] < p[j]
<1> DEFINE n == Len(objs)
<1>1. /\ w \in Seq(Piece) /\ objs \in Seq(Objects) /\ p \in [1..(n + 1) -> Nat]
      /\ p[1] = 1 /\ p[n + 1] = Len(w)
      /\ \A i, j \in 1..(n + 1) : i < j => p[i] < p[j]
  BY DEF Laid
<1>2. n \in Nat /\ Len(w) \in Nat  BY <1>1
<1> HIDE DEF n
<1>3. ASSUME NEW j \in 1..(n + 1) PROVE p[j] \in Nat /\ 1 <= p[j] /\ p[j] <= Len(w)
  <2>1. 1 \in 1..(n + 1) /\ n + 1 \in 1..(n + 1)  BY <1>2
  <2>2. p[j] \in Nat  BY <1>1
  <2>3. j = 1 \/ p[1] < p[j]  BY <1>1, <1>2, <2>1
  <2>4. j = n + 1 \/ p[j] < p[n + 1]  BY <1>1, <1>2, <2>1
  <2> QED  BY <1>1, <1>2, <2>2, <2>3, <2>4
<1>4. Len(w) >= 1
  <2>1. n + 1 \in 1..(n + 1)  BY <1>2
  <2> QED  BY <1>1, <1>3, <2>1
<1> QED  BY <1>1, <1>2, <1>3, <1>4 DEF n

LEMMA ExcludeWire == ASSUME SendInv, WireInv, Exclude PROVE WireInv'
<1>1. /\ Unheard /\ wire' = wire /\ ended' = ended /\ sender.at = "exclude"
      /\ \E x, t : sender' = [sender EXCEPT !.exclude = x, !.todo = t]
  BY DEF Exclude, Unheard, serverVars, clientVars
<1>2. Fields \subseteq DOMAIN sender  BY <1>1 DEF SendInv, Shape
<1>3. sender'.at = "exclude" /\ sender'.start = sender.start  BY <1>1, <1>2 DEF Fields
<1>4. DOMAIN sender.start = {}  BY <1>1 DEF WireInv, Phases
<1> QED  BY <1>1, <1>3, <1>4, SearchWire

LEMMA ExcludeEndsWire == ASSUME SendInv, WireInv, ExcludeEnds PROVE WireInv'
<1>1. /\ Unheard /\ wire' = wire /\ ended' = ended /\ sender.at = "exclude"
  BY DEF ExcludeEnds, Unheard, serverVars, clientVars
<1>2. PICK order \in SetToSeqs(sender.wants) :
          sender' = [sender EXCEPT !.at = "walk", !.todo = order]
  BY DEF ExcludeEnds
<1>3. Fields \subseteq DOMAIN sender /\ sender.wants \subseteq Served
  BY <1>1 DEF SendInv, Shape
<1>4. /\ sender'.at = "walk" /\ sender'.start = sender.start /\ sender'.todo = order
  BY <1>2, <1>3 DEF Fields
<1>5. DOMAIN sender.start = {}  BY <1>1 DEF WireInv, Phases
<1>6. ToSet(order) = sender.wants
  <2>1. IsFiniteSet(sender.wants)  BY <1>3, Graph
  <2> QED  BY <2>1, OrderOfSet
<1> QED  BY <1>1, <1>3, <1>4, <1>5, <1>6, SearchWire

LEMMA WalkWire == ASSUME SendInv, WireInv, Walk PROVE WireInv'
<1> DEFINE o == Head(sender.todo)
           s == Tail(sender.todo)
           known == Contains(sender.metas, o) \/ o \in sender.exclude
           fails == o \notin Has \/ (Type[o] # Blob /\ o \in damaged)
<1>1. Unheard /\ sender.at = "walk" /\ sender.todo # <<>>
  BY DEF Walk, Unheard, serverVars, clientVars
<1>2. Fields \subseteq DOMAIN sender /\ sender.todo \in Seq(Nat)
  BY <1>1 DEF SendInv, Shape
<1>3. /\ wire = <<>> /\ DOMAIN sender.start = {} /\ ToSet(sender.todo) \subseteq Served
      /\ faults = 0 => lost = {} /\ damaged = {}
      /\ reader.at = "head"
  BY <1>1 DEF WireInv, Phases
<1>4. o \in Served /\ s \in Seq(Nat) /\ ToSet(s) \subseteq Served
  BY <1>1, <1>2, <1>3, SetOfTail
<1>5. CASE known
  <2>1. sender' = [sender EXCEPT !.todo = s] /\ wire' = wire /\ ended' = ended
    BY <1>5 DEF Walk
  <2>2. sender'.at = "walk" /\ sender'.start = sender.start /\ sender'.todo = s
    BY <1>1, <1>2, <2>1 DEF Fields
  <2> QED  BY <1>1, <1>3, <1>4, <2>1, <2>2, SearchWire
<1>6. CASE ~known /\ fails
  <2>1. sender' = [sender EXCEPT !.at = "gone"] /\ ended' = "eof" /\ wire' = wire
    BY <1>6 DEF Walk, GiveUp
  <2>2. faults # 0  BY <1>3, <1>4, <1>6 DEF Has
  <2>3. Nothing'  BY <1>1, <1>3, <2>1 DEF Nothing, Unheard
  <2>4. Delivery'  BY <2>3 DEF Delivery
  <2> QED  BY <1>1, <1>2, <2>1, <2>2, <2>4, LeftWire DEF Unheard, Fields
<1>7. CASE ~known /\ ~fails
  <2> DEFINE r == RefsOf(o)
  <2>1. /\ sender' = [sender EXCEPT !.metas = Append(@, o), !.todo = s \o r]
        /\ wire' = wire /\ ended' = ended
    BY <1>7 DEF Walk
  <2>2. sender'.at = "walk" /\ sender'.start = sender.start /\ sender'.todo = s \o r
    BY <1>1, <1>2, <2>1 DEF Fields
  <2>3. r \in Seq(Nat) /\ ToSet(r) \subseteq Served
    <3>1. o \in Objects /\ Kids(o) \subseteq Served
      BY <1>4, Graph, TransferAssumption DEF Kids
    <3> QED  BY <3>1, Kept
  <2> HIDE DEF r, s
  <2>4. ToSet(s \o r) = ToSet(s) \cup ToSet(r)  BY <1>4, <2>3, SetOfConcat
  <2> QED  BY <1>1, <1>3, <1>4, <2>1, <2>2, <2>3, <2>4, SearchWire
<1> QED  BY <1>5, <1>6, <1>7

LEMMA StillPacking ==
    ASSUME WireInv, Unheard, sender.at \in {"walk", "pack"}, sender'.at = "pack",
           ended' = ended, Packing'
    PROVE  WireInv'
<1>1. reader.at = "head" /\ ended = "open" /\ outcome = "none"  BY DEF WireInv, Phases
<1>2. Phases'  BY <1>1 DEF WireInv, Phases, Unheard
<1>3. Delivery'  BY DEF Delivery
<1> QED  BY <1>1, <1>2, <1>3, StoreKept DEF WireInv, Unheard

(* What waits when the pack starts is what was chosen, in another order.   *)
LEMMA Reordered ==
    ASSUME NEW m \in Seq(Objects), IsInjective(m),
           NEW B \in SUBSET ToSet(m), NEW blobs \in SetToSeqs(B)
    PROVE  LET t == Without(m, ToSet(blobs)) \o blobs
           IN  t \in Seq(Objects) /\ Len(t) = Len(m) /\ ToSet(t) = ToSet(m)
<1> DEFINE M == ToSet(m)
           a == Without(m, ToSet(blobs))
<1>1. IsFiniteSet(M) /\ M \subseteq Objects
  <2>1. DOMAIN m = 1..Len(m) /\ \A i \in 1..Len(m) : m[i] \in Objects  OBVIOUS
  <2>2. M \subseteq Objects  BY <2>1 DEF ToSet
  <2> QED  BY <2>2, Graph
<1>2. IsFiniteSet(B) /\ B \subseteq Objects  BY <1>1, FS_Subset
<1>3. blobs \in Seq(B) /\ ToSet(blobs) = B /\ IsInjective(blobs)  BY <1>2, OrderOfSet
<1>4. blobs \in Seq(Objects)  BY <1>2, <1>3, WiderSeq
<1>5. a \in Seq(Objects) /\ ToSet(a) = M \ B /\ IsInjective(a)
  BY <1>3, WithoutIs
<1> HIDE DEF a, M
<1>6. Cardinality(M \ B) = Len(a) /\ Cardinality(B) = Len(blobs)
  BY <1>3, <1>4, <1>5, NoRepetition
<1>7. Cardinality(M) = Len(m)  BY NoRepetition DEF M
<1>8. Len(a) + Len(blobs) = Len(m)
  <2>1. IsFiniteSet(M \ B)  BY <1>1, FS_Subset
  <2>2. M = (M \ B) \cup B /\ (M \ B) \cap B = {}  BY DEF M
  <2>3. Cardinality(M) = Cardinality(M \ B) + Cardinality(B)
    <3>1. Cardinality((M \ B) \cup B)
             = Cardinality(M \ B) + Cardinality(B) - Cardinality((M \ B) \cap B)
      BY <1>2, <2>1, FS_Union
    <3>2. Cardinality((M \ B) \cap B) = 0  BY <2>2, FS_EmptySet
    <3>3. Cardinality(M \ B) \in Nat /\ Cardinality(B) \in Nat
      BY <1>2, <2>1, FS_CardinalityType
    <3> DEFINE x == Cardinality(M \ B)
               y == Cardinality(B)
    <3>4. Cardinality((M \ B) \cup B) = x + y - 0  BY <3>1, <3>2
    <3>5. x + y - 0 = x + y
      <4>1. x \in Nat /\ y \in Nat  BY <3>3
      <4> HIDE DEF x, y
      <4> QED  BY <4>1
    <3> QED  BY <2>2, <3>4, <3>5
  <2>4. Len(m) = Cardinality(M \ B) + Cardinality(B)  BY <1>7, <2>3, Zenon
  <2>5. Len(m) = Len(a) + Len(blobs)  BY <1>6, <2>4, Zenon
  <2> QED  BY <2>5, Zenon
<1>9. a \o blobs \in Seq(Objects) /\ ToSet(a \o blobs) = ToSet(a) \cup ToSet(blobs)
  BY <1>4, <1>5, SetOfConcat
<1>10. Len(a \o blobs) = Len(a) + Len(blobs)  BY <1>4, <1>5, ConcatIs
<1>11. ToSet(a \o blobs) = M  BY <1>3, <1>5, <1>9 DEF M
<1> QED  BY <1>8, <1>9, <1>10, <1>11 DEF a, M

LEMMA StartPackWire == ASSUME SendInv, WireInv, StartPack PROVE WireInv'
<1> DEFINE m == sender.metas
<1>1. Unheard /\ sender.at = "walk" /\ sender.todo = <<>>
  BY DEF StartPack, Unheard, serverVars, clientVars
<1>2. /\ Fields \subseteq DOMAIN sender /\ m \in Seq(Objects) /\ IsInjective(m)
  BY <1>1 DEF SendInv, Shape, Walking
<1>3. Closure(sender.wants) \subseteq ToSet(m) \cup Closure(refs)  BY <1>1, ChosenIs
<1>4. wire = <<>> /\ DOMAIN sender.start = {} /\ reader.at = "head"
  BY <1>1 DEF WireInv, Phases
<1>5. CASE m = <<>>
  <2>1. sender' = [sender EXCEPT !.at = "gone"] /\ ended' = "flush" /\ wire' = wire
    BY <1>5 DEF StartPack
  <2>2. sender'.wants = sender.wants  BY <1>2, <2>1 DEF Fields
  <2>3. Closure(sender.wants)' = Closure(sender.wants) /\ Closure(refs)' = Closure(refs)
    BY <1>1, <2>2, SameClosure DEF Unheard
  <2>4. ToSet(m) = {}  BY <1>5 DEF ToSet
  <2>5. Nothing'  BY <1>1, <1>3, <1>4, <2>1, <2>3, <2>4 DEF Nothing, Unheard
  <2>6. Delivery'  BY <2>5 DEF Delivery
  <2> QED  BY <1>1, <1>2, <2>1, <2>6, LeftWire DEF Unheard, Fields
<1>6. CASE m # <<>>
  <2> DEFINE B == {o \in ToSet(m) : Type[o] = Blob}
  <2>1. PICK blobs \in SetToSeqs(B) :
            sender' = [sender EXCEPT !.at = "pack", !.todo = Without(m, ToSet(blobs)) \o blobs]
    BY <1>6 DEF StartPack
  <2>2. wire' = <<<<Count, Len(m)>>>> /\ ended' = ended  BY <1>6 DEF StartPack
  <2> DEFINE t == Without(m, ToSet(blobs)) \o blobs
             p == [i \in 1..1 |-> 1]
             none == <<>>
  <2>3. t \in Seq(Objects) /\ Len(t) = Len(m) /\ ToSet(t) = ToSet(m)
    <3>1. B \in SUBSET ToSet(m)  OBVIOUS
    <3> HIDE DEF B, m
    <3> QED  BY <1>2, <3>1, Reordered
  <2>4. /\ sender'.at = "pack" /\ sender'.todo = t /\ sender'.metas = m
        /\ sender'.start = sender.start
    BY <1>2, <2>1 DEF Fields
  <2> HIDE DEF t
  <2>5. Len(m) \in Nat  BY <1>2
  <2> HIDE DEF m
  <2>6. Laid(wire', none, p, Closure(refs)')
    <3>1. <<Count, Len(m)>> \in Piece  BY <2>5, PieceIs DEF Count
    <3>2. wire' \in Seq(Piece) /\ Len(wire') = 1  BY <2>2, <3>1
    <3>3. none \in Seq(Objects) /\ Len(none) = 0  OBVIOUS
    <3>4. p \in [1..1 -> Nat] /\ p[1] = 1  OBVIOUS
    <3> HIDE DEF p, none
    <3> QED  BY <3>2, <3>3, <3>4 DEF Laid
  <2>7. wire'[1] = <<Count, Len(m)>>  BY <2>2
  <2>8. Packed(wire, none, p, Len(sender.metas))'
    <3>1. Len(none) = 0  OBVIOUS
    <3> HIDE DEF p, none
    <3> QED  BY <2>4, <2>5, <2>6, <2>7, <3>1 DEF Packed
  <2>9. PackAt(none, p)'
    <3>1. Len(none) = 0 /\ ToSet(none) = {}  BY DEF ToSet
    <3> HIDE DEF p, none
    <3> QED  BY <1>4, <2>3, <2>4, <2>5, <2>8, <3>1 DEF PackAt, PackOf
  <2>10. Packing'
    <3> HIDE DEF p, none
    <3> QED  BY <2>9 DEF Packing
  <2> QED  BY <1>1, <2>2, <2>4, <2>10, StillPacking
<1> QED  BY <1>5, <1>6

-----------------------------------------------------------------------------
(* One object more is written: the next one, in an entry of any form.      *)
LEMMA OneMore ==
    ASSUME refs \subseteq Objects, NEW w, NEW todo, NEW metas, NEW start, NEW objs, NEW p,
           PackOf(w, todo, metas, start, objs, p), todo # <<>>,
           NEW o, o = Head(todo), NEW e,
           \/ e = Full(o)
           \/ \E k \in 1..Len(objs) : e = Ofs(objs[k], o, Len(w), p[k])
           \/ \E b \in Closure(refs) \cup {objs[k] : k \in 1..Len(objs)} : e = Ref(b, o)
    PROVE  \E q : /\ PackOf(w \o e, Tail(todo), metas, Put(start, o, Len(w)), Append(objs, o), q)
                  /\ PackOf(w \o e, Tail(todo), metas, start, Append(objs, o), q)
                  /\ q[Len(objs) + 1] = Len(w)
<1> DEFINE have == Closure(refs)
           n == Len(metas)
           m == Len(objs)
           all == Append(objs, o)
           w2 == w \o e
           new == Put(start, o, Len(w))
<1>1. have \in SUBSET Objects  BY ClosureIs
<1>2. /\ Laid(w, objs, p, have) /\ w[1] = <<Count, n>> /\ n \in Nat
      /\ todo \in Seq(Objects) /\ m + Len(todo) = n
      /\ ToSet(metas) = ToSet(objs) \cup ToSet(todo)
      /\ \A b \in DOMAIN start : \E k \in 1..m : objs[k] = b /\ p[k] = start[b]
  BY DEF PackOf, Packed
<1>3. /\ m \in Nat /\ Len(w) \in Nat /\ Len(w) >= 1 /\ objs \in Seq(Objects)
      /\ p[m + 1] = Len(w)
  BY <1>2, LaidIs
<1>4. /\ o \in Objects /\ Tail(todo) \in Seq(Objects) /\ Len(Tail(todo)) = Len(todo) - 1
      /\ Len(todo) \in Nat /\ ToSet(todo) = {o} \cup ToSet(Tail(todo))
  <2>1. o \in Objects /\ Tail(todo) \in Seq(Objects) /\ ToSet(todo) = {o} \cup ToSet(Tail(todo))
    BY <1>2, SetOfTail
  <2> QED  BY <1>2, <2>1
<1>5. PICK q : /\ Laid(w2, all, q, have)
               /\ \A k \in 1..(m + 1) : q[k] = p[k]
  BY <1>1, <1>2, <1>4, Extend
<1>6. \A i \in 1..Len(w) : w2[i] = w[i]
  BY <1>1, <1>2, <1>4, Extend
<1>7. w2[1] = <<Count, n>>  BY <1>2, <1>3, <1>6
<1>8. /\ Len(all) = m + 1 /\ all[m + 1] = o /\ \A k \in 1..m : all[k] = objs[k]
  BY <1>3
<1>9. ToSet(all) = ToSet(objs) \cup {o}  BY <1>3, <1>4, SetOfAppend
<1>10. q[m + 1] = Len(w) /\ \A k \in 1..m : q[k] = p[k] /\ k \in 1..(m + 1)
  BY <1>3, <1>5
<1>11. /\ DOMAIN new = DOMAIN start \cup {o} /\ new[o] = Len(w)
       /\ \A b \in DOMAIN start \ {o} : new[b] = start[b]
  <2> DEFINE v == Len(w)
  <2>1. new = Put(start, o, v)  OBVIOUS
  <2> HIDE DEF v, new
  <2>2. /\ DOMAIN new = DOMAIN start \cup {o} /\ new[o] = v
        /\ \A b \in DOMAIN start \ {o} : new[b] = start[b]
    BY <2>1 DEF Put
  <2> QED  BY <2>2 DEF v
<1> HIDE DEF have, n, m, all, w2, new
<1>12. Packed(w2, all, q, n)
  <2>1. Len(all) <= n  BY <1>2, <1>3, <1>4, <1>8
  <2> QED  BY <1>2, <1>5, <1>7, <2>1 DEF Packed, have
<1>13. ASSUME NEW b \in DOMAIN start PROVE \E k \in 1..Len(all) : all[k] = b /\ q[k] = start[b]
  <2>1. PICK k \in 1..m : objs[k] = b /\ p[k] = start[b]  BY <1>2
  <2> QED  BY <1>3, <1>8, <1>10, <2>1
<1>14. ASSUME NEW b \in DOMAIN new PROVE \E k \in 1..Len(all) : all[k] = b /\ q[k] = new[b]
  <2>1. CASE b # o
    <3>1. b \in DOMAIN start /\ new[b] = start[b]  BY <1>11, <1>14, <2>1
    <3>2. PICK k \in 1..Len(all) : all[k] = b /\ q[k] = start[b]  BY <1>13, <3>1
    <3> QED  BY <3>1, <3>2
  <2>2. CASE b = o
    <3>1. new[b] = Len(w)  BY <1>11, <2>2
    <3>2. m + 1 \in 1..Len(all)  BY <1>3, <1>8
    <3> QED  BY <1>8, <1>10, <2>2, <3>1, <3>2
  <2> QED  BY <2>1, <2>2
<1>15. /\ Len(all) + Len(Tail(todo)) = n
       /\ ToSet(metas) = ToSet(all) \cup ToSet(Tail(todo))
  <2>1. Len(all) + Len(Tail(todo)) = n
    <3> DEFINE a == Len(todo)
               b == Len(Tail(todo))
               c == Len(all)
    <3>1. m \in Nat /\ a \in Nat /\ m + a = n /\ b = a - 1 /\ c = m + 1
      BY <1>2, <1>3, <1>4, <1>8
    <3> HIDE DEF a, b, c
    <3>2. c + b = n  BY <3>1
    <3> QED  BY <3>2 DEF b, c
  <2>2. ToSet(metas) = ToSet(all) \cup ToSet(Tail(todo))  BY <1>2, <1>4, <1>9
  <2> QED  BY <2>1, <2>2
<1>16. PackOf(w2, Tail(todo), metas, new, all, q)
  BY <1>4, <1>12, <1>14, <1>15 DEF PackOf, n
<1>17. PackOf(w2, Tail(todo), metas, start, all, q)
  BY <1>4, <1>12, <1>13, <1>15 DEF PackOf, n
<1> QED  BY <1>10, <1>16, <1>17 DEF new, all, w2, m

(* A pack that is left half written arrives as far as it goes.             *)
LEMMA LeftPack ==
    ASSUME SendInv, WireInv, sender.at = "pack", Unheard,
           sender' = [sender EXCEPT !.at = "gone"], wire' = wire,
           ended' \in {"eof", "error"}, ended' = "eof" => faults # 0
    PROVE  WireInv'
<1>1. PICK objs, p : PackAt(objs, p)  BY DEF WireInv, Packing
<1>2. sender' = [sender EXCEPT !.at = "gone"] /\ ended' \in {"eof", "error"} /\ wire' = wire
  OBVIOUS
<1>3. Fields \subseteq DOMAIN sender  BY DEF SendInv, Shape
<1>4. reader.at = "head"  BY DEF WireInv, Phases
<1>5. Packed(wire, objs, p, Len(sender.metas))  BY <1>1 DEF PackAt, PackOf
<1>6. wire \in Seq(Piece) /\ Len(wire) \in Nat  BY <1>5, LaidIs DEF Packed
<1>7. Closure(refs)' = Closure(refs)  BY DEF Unheard, Closure, Reach
<1>8. Packed(wire, objs, p, Len(sender.metas))'
  <2>1. sender'.metas = sender.metas  BY <1>2, <1>3 DEF Fields
  <2> QED  BY <1>2, <1>5, <1>7, <2>1 DEF Packed
<1> DEFINE n == Len(sender.metas)
<1>9. Packed(wire, objs, p, n)'  BY <1>8
<1>10. Carried(wire)'
  <2>1. wire \in Seq(Piece \cup {SumOf(wire)})  BY <1>6, WiderSeq
  <2> QED  BY <1>2, <1>6, <2>1 DEF Carried
<1>14. (ToSet(objs) \subseteq Closure(sender.wants))'
  <2>1. ToSet(objs) \subseteq ToSet(sender.metas)  BY <1>1 DEF PackAt, PackOf
  <2>2. ToSet(sender.metas) \subseteq Closure(sender.wants)  BY DEF SendInv, SentExactly
  <2>3. sender'.wants = sender.wants  BY <1>2, <1>3 DEF Fields
  <2> QED  BY <2>1, <2>2, <2>3
<1>11. Arrives(wire, objs, p, n)'
  <2>1. ~(Len(wire) > Len(wire))  BY <1>6
  <2>2. (Len(wire) > Len(wire))' <=> Len(wire) > Len(wire)  BY <1>2
  <2> QED  BY <1>2, <1>9, <1>10, <1>14, <2>1, <2>2 DEF Arrives
<1>12. Something(wire, objs, p, n)'
  BY <1>4, <1>11 DEF Something, Unheard
<1>13. Delivery'  BY <1>12 DEF Delivery
<1> QED  BY <1>2, <1>3, <1>13, LeftWire DEF Unheard, Fields

-----------------------------------------------------------------------------
(* A step of the sender after which the pack is as PackOf says.            *)
LEMMA Written ==
    ASSUME SendInv, WireInv, Unheard, sender.at = "pack", ended' = ended,
           NEW todo, NEW start, NEW objs, NEW p,
           PackOf(wire', todo, sender.metas, start, objs, p),
           sender' = [sender EXCEPT !.todo = todo, !.start = start]
    PROVE  WireInv'
<1>1. Fields \subseteq DOMAIN sender  BY DEF SendInv, Shape
<1>2. /\ sender'.at = "pack" /\ sender'.todo = todo /\ sender'.start = start
      /\ sender'.metas = sender.metas
  BY <1>1 DEF Fields
<1>3. Closure(refs)' = Closure(refs)  BY DEF Unheard, Closure, Reach
<1>4. PackAt(objs, p)'  BY <1>2, <1>3 DEF PackAt, PackOf, Packed
<1>5. Packing'  BY <1>4 DEF Packing
<1> QED  BY <1>2, <1>5, StillPacking

LEMMA WriteFullWire == ASSUME SendInv, WireInv, WriteFull PROVE WireInv'
<1> DEFINE o == Head(sender.todo)
<1>1. Unheard /\ sender.at = "pack" /\ sender.todo # <<>>
  BY DEF WriteFull, Unheard, serverVars, clientVars
<1>2. faults = 0 => damaged = {}  BY DEF WireInv, Phases
<1>3. CASE o \in damaged
  <2>1. GiveUp  BY <1>3 DEF WriteFull
  <2> QED  BY <1>1, <1>2, <1>3, <2>1, LeftPack DEF GiveUp
<1>4. CASE o \notin damaged
  <2> DEFINE e == Full(o)
             start == sender.start
  <2>1. /\ wire' = wire \o e /\ ended' = ended
        /\ sender' = [sender EXCEPT !.todo = Tail(sender.todo),
                                    !.start = Put(start, o, Len(wire))]
    BY <1>4 DEF WriteFull, Placed
  <2>2. PICK objs, p : PackOf(wire, sender.todo, sender.metas, start, objs, p)
    BY <1>1 DEF WireInv, Packing, PackAt
  <2>3. refs \subseteq Objects  BY DEF SendInv, Shape
  <2> HIDE DEF e, start
  <2>4. PICK q : PackOf(wire \o e, Tail(sender.todo), sender.metas, Put(start, o, Len(wire)),
                        Append(objs, o), q)
    BY <1>1, <2>2, <2>3, OneMore DEF e
  <2> DEFINE t == Tail(sender.todo)
             new == Put(start, o, Len(wire))
             all == Append(objs, o)
  <2>5. PackOf(wire', t, sender.metas, new, all, q)  BY <2>1, <2>4
  <2>6. sender' = [sender EXCEPT !.todo = t, !.start = new]  BY <2>1
  <2> HIDE DEF t, new, all
  <2> QED  BY <1>1, <2>1, <2>5, <2>6, Written
<1> QED  BY <1>3, <1>4

(* What is left of a sequence without its first two.                       *)
LEMMA TwoOff ==
    ASSUME NEW S, NEW s \in Seq(S), Len(s) >= 2
    PROVE  /\ s # <<>> /\ Head(s) = s[1] /\ Tail(s) # <<>> /\ Head(Tail(s)) = s[2]
           /\ Tail(Tail(s)) = SubSeq(s, 3, Len(s))
<1> DEFINE u == Tail(s)
           v == SubSeq(s, 3, Len(s))
           n == Len(s)
<1>1. n \in Nat /\ n >= 2 /\ s # <<>> /\ Head(s) = s[1]  OBVIOUS
<1>2. /\ u \in Seq(S) /\ Len(u) = n - 1
      /\ \A i \in 1..(n - 1) : u[i] = s[i + 1]
  BY <1>1, TailIs
<1>3. v \in Seq(S) /\ Len(v) = n - 2
  <2>1. CASE n = 2  BY <2>1
  <2>2. CASE n >= 3  BY <1>1, <2>2
  <2> HIDE DEF v, n
  <2> QED  BY <1>1, <2>1, <2>2
<1>4. \A i \in 1..(n - 2) : v[i] = s[i + 2]
  <2>1. CASE n = 2  BY <2>1
  <2>2. CASE n >= 3  BY <1>1, <2>2
  <2> QED  BY <1>1, <2>1, <2>2
<1> HIDE DEF u, v, n
<1>5. Len(u) >= 1 /\ u # <<>> /\ Head(u) = u[1] /\ u[1] = s[2]  BY <1>1, <1>2
<1>6. /\ Tail(u) \in Seq(S) /\ Len(Tail(u)) = Len(u) - 1
      /\ \A i \in 1..(Len(u) - 1) : Tail(u)[i] = u[i + 1]
  BY <1>2, <1>5, TailIs
<1>7. ASSUME NEW i \in 1..Len(Tail(u)) PROVE Tail(u)[i] = v[i]
  <2>1. i \in 1..(Len(u) - 1) /\ i + 1 \in 1..(n - 1) /\ i \in 1..(n - 2) /\ (i + 1) + 1 = i + 2
    BY <1>1, <1>2, <1>6
  <2>2. Tail(u)[i] = u[i + 1] /\ u[i + 1] = s[(i + 1) + 1] /\ v[i] = s[i + 2]
    BY <1>2, <1>4, <1>6, <2>1
  <2> QED  BY <2>1, <2>2
<1>8. Len(Tail(u)) = Len(v)  BY <1>1, <1>2, <1>3, <1>6
<1>9. Tail(u) = v  BY <1>3, <1>6, <1>7, <1>8, SameSeq
<1> QED  BY <1>1, <1>5, <1>9 DEF u, v

LEMMA WritePairWire == ASSUME SendInv, WireInv, WritePair PROVE WireInv'
<1> DEFINE todo == sender.todo
           b == todo[1]
           t == todo[2]
           metas == sender.metas
           start == sender.start
<1>1. Unheard /\ sender.at = "pack" /\ Len(todo) >= 2
  BY DEF WritePair, Unheard, serverVars, clientVars
<1>2. faults = 0 => damaged = {}  BY DEF WireInv, Phases
<1>3. CASE {b, t} \cap damaged # {}
  <2>1. GiveUp  BY <1>3 DEF WritePair
  <2> QED  BY <1>1, <1>2, <1>3, <2>1, LeftPack DEF GiveUp
<1>4. CASE {b, t} \cap damaged = {}
  <2> DEFINE first == Full(b)
             new == Put(start, b, Len(wire))
  <2>1. PICK useDelta \in BOOLEAN :
            /\ wire' = wire \o first \o (IF useDelta
                                         THEN Ofs(b, t, Len(wire) + Len(first), new[b])
                                         ELSE Full(t))
            /\ sender' = [sender EXCEPT !.todo = SubSeq(todo, 3, Len(todo)), !.start = new]
            /\ ended' = ended
    BY <1>4, Zenon DEF WritePair, Placed
  <2>2. PICK objs, p : PackOf(wire, todo, metas, start, objs, p)
    BY <1>1 DEF WireInv, Packing, PackAt
  <2>3. refs \subseteq Objects  BY DEF SendInv, Shape
  <2>4. todo \in Seq(Objects)  BY <2>2 DEF PackOf
  <2>5. /\ todo # <<>> /\ Head(todo) = b /\ Tail(todo) # <<>> /\ Head(Tail(todo)) = t
        /\ Tail(Tail(todo)) = SubSeq(todo, 3, Len(todo))
    <3> HIDE DEF todo
    <3> QED  BY <1>1, <2>4, TwoOff
  <2> DEFINE rest == Tail(todo)
             last == Tail(rest)
             one == Append(objs, b)
             mid == wire \o first
  <2> HIDE DEF todo, b, t, metas, start, first, new
  <2>6. PICK q : /\ PackOf(mid, rest, metas, new, one, q)
                 /\ q[Len(objs) + 1] = Len(wire)
    BY <2>2, <2>3, <2>5, OneMore DEF first, new
  <2>7. objs \in Seq(Objects) /\ b \in Objects /\ t \in Objects
    <3>1. objs \in Seq(Objects)  BY <2>2, LaidIs DEF PackOf, Packed
    <3>2. b \in Objects /\ Tail(todo) \in Seq(Objects)  BY <2>4, <2>5, SetOfTail
    <3> QED  BY <2>5, <3>1, <3>2, SetOfTail
  <2>8. /\ Len(objs) \in Nat /\ Len(one) = Len(objs) + 1 /\ one[Len(objs) + 1] = b
        /\ Len(objs) + 1 \in 1..Len(one)
    BY <2>7
  <2>9. Len(mid) = Len(wire) + Len(first)
    <3>1. wire \in Seq(Piece)  BY <2>2, LaidIs DEF PackOf, Packed
    <3>2. first \in Seq(Piece)  BY <2>7, FullIs DEF first
    <3> QED  BY <3>1, <3>2, Joined
  <2>10. new[b] = Len(wire)
    <3> DEFINE v == Len(wire)
    <3>1. new = Put(start, b, v)  BY DEF new
    <3> HIDE DEF v
    <3>2. new[b] = v  BY <3>1 DEF Put
    <3> QED  BY <3>2 DEF v
  <2> HIDE DEF rest, last, one, mid
  <2> DEFINE e == IF useDelta THEN Ofs(b, t, Len(mid), Len(wire)) ELSE Full(t)
             all == Append(one, t)
  <2>11. wire' = mid \o e  BY <2>1, <2>9, <2>10 DEF mid
  <2>12. \/ e = Full(t)
         \/ \E k \in 1..Len(one) : e = Ofs(one[k], t, Len(mid), q[k])
         \/ \E x \in Closure(refs) \cup {one[k] : k \in 1..Len(one)} : e = Ref(x, t)
    <3>1. CASE useDelta
      <4>1. e = Ofs(one[Len(objs) + 1], t, Len(mid), q[Len(objs) + 1])
        BY <2>6, <2>8, <3>1
      <4> QED  BY <2>8, <4>1
    <3>2. CASE ~useDelta  BY <3>2
    <3> QED  BY <3>1, <3>2
  <2> HIDE DEF e
  <2>13. PICK r : PackOf(mid \o e, last, metas, new, all, r)
    <3>1. rest # <<>> /\ t = Head(rest)  BY <2>5 DEF rest
    <3> QED  BY <2>3, <2>6, <2>12, <3>1, OneMore DEF last
  <2>14. PackOf(wire', last, metas, new, all, r)  BY <2>11, <2>13
  <2>15. sender' = [sender EXCEPT !.todo = last, !.start = new]
    BY <2>1, <2>5 DEF last, rest
  <2> HIDE DEF all
  <2> QED  BY <1>1, <2>1, <2>14, <2>15, Written DEF metas
<1> QED  BY <1>3, <1>4

LEMMA WriteForeignWire == ASSUME SendInv, WireInv, WriteForeign PROVE WireInv'
<1> DEFINE o == Head(sender.todo)
           start == sender.start
<1>1. Unheard /\ sender.at = "pack" /\ sender.todo # <<>> /\ ended' = ended
  BY DEF WriteForeign, Unheard, serverVars, clientVars
<1>2. PICK older \in DOMAIN start \cup sender.exclude :
          \/ /\ older \in DOMAIN start
             /\ wire' = wire \o Ofs(older, o, Len(wire), start[older])
          \/ wire' = wire \o Ref(older, o)
  BY DEF WriteForeign
<1>3. sender' = [sender EXCEPT !.todo = Tail(sender.todo), !.start = Put(start, o, Len(wire))]
  BY DEF WriteForeign
<1>4. PICK objs, p : PackOf(wire, sender.todo, sender.metas, start, objs, p)
  BY <1>1 DEF WireInv, Packing, PackAt
<1>5. refs \subseteq Objects /\ sender.exclude \subseteq Closure(refs)
  BY <1>1 DEF SendInv, Shape
<1>6. \A b \in DOMAIN start : \E k \in 1..Len(objs) : objs[k] = b /\ p[k] = start[b]
  BY <1>4 DEF PackOf
<1> HIDE DEF o, start
<1>7. \E e : /\ wire' = wire \o e
             /\ \/ e = Full(o)
                \/ \E k \in 1..Len(objs) : e = Ofs(objs[k], o, Len(wire), p[k])
                \/ \E b \in Closure(refs) \cup {objs[k] : k \in 1..Len(objs)} : e = Ref(b, o)
  <2>1. CASE older \in DOMAIN start /\ wire' = wire \o Ofs(older, o, Len(wire), start[older])
    BY <1>6, <2>1
  <2>2. CASE wire' = wire \o Ref(older, o)
    <3>1. older \in Closure(refs) \cup {objs[k] : k \in 1..Len(objs)}
      <4>1. CASE older \in DOMAIN start  BY <1>6, <4>1
      <4>2. CASE older \in sender.exclude  BY <1>5, <4>2
      <4> QED  BY <4>1, <4>2
    <3> QED  BY <2>2, <3>1
  <2> QED  BY <1>2, <2>1, <2>2
<1>8. PICK e : /\ wire' = wire \o e
               /\ \/ e = Full(o)
                  \/ \E k \in 1..Len(objs) : e = Ofs(objs[k], o, Len(wire), p[k])
                  \/ \E b \in Closure(refs) \cup {objs[k] : k \in 1..Len(objs)} : e = Ref(b, o)
  BY <1>7
<1>9. PICK q : PackOf(wire \o e, Tail(sender.todo), sender.metas, Put(start, o, Len(wire)),
                      Append(objs, o), q)
  BY <1>1, <1>4, <1>5, <1>8, OneMore DEF o
<1> DEFINE t == Tail(sender.todo)
           new == Put(start, o, Len(wire))
           all == Append(objs, o)
<1>10. PackOf(wire', t, sender.metas, new, all, q)  BY <1>8, <1>9
<1>11. sender' = [sender EXCEPT !.todo = t, !.start = new]  BY <1>3
<1> HIDE DEF t, new, all
<1> QED  BY <1>1, <1>10, <1>11, Written

-----------------------------------------------------------------------------
LEMMA LastIs ==
    ASSUME NEW S, NEW s \in Seq(S), NEW x
    PROVE  /\ Append(s, x) \in Seq(S \cup {x}) /\ Len(Append(s, x)) = Len(s) + 1
           /\ \A i \in 1..(Len(s) + 1) : Append(s, x)[i] = IF i <= Len(s) THEN s[i] ELSE x
<1> DEFINE T == S \cup {x}
<1>1. s \in Seq(T) /\ x \in T  BY WiderSeq
<1> HIDE DEF T
<1>2. /\ Append(s, x) \in Seq(T) /\ Len(Append(s, x)) = Len(s) + 1
      /\ \A i \in 1..(Len(s) + 1) : Append(s, x)[i] = IF i <= Len(s) THEN s[i] ELSE x
  BY <1>1
<1> QED  BY <1>2 DEF T

LEMMA EndPackWire == ASSUME SendInv, WireInv, EndPack PROVE WireInv'
<1>1. /\ Unheard /\ sender.at = "pack" /\ sender.todo = <<>>
      /\ wire' = Append(wire, SumOf(wire)) /\ ended' = "flush"
      /\ sender' = [sender EXCEPT !.at = "gone"]
  BY DEF EndPack, Unheard, serverVars, clientVars
<1>2. PICK w : w = wire  OBVIOUS
<1>3. PICK objs, p : PackOf(w, sender.todo, sender.metas, sender.start, objs, p)
  BY <1>1, <1>2 DEF WireInv, Packing, PackAt
<1>4. Fields \subseteq DOMAIN sender  BY <1>1 DEF SendInv, Shape
<1>5. sender'.at = "gone" /\ sender'.wants = sender.wants  BY <1>1, <1>4 DEF Fields
<1>6. Closure(sender.wants)' = Closure(sender.wants) /\ Closure(refs)' = Closure(refs)
  BY <1>1, <1>5, SameClosure DEF Unheard
<1> DEFINE n == Len(sender.metas)
           sum == SumOf(w)
<1>7. PICK m : m = n  OBVIOUS
<1>8. Packed(w, objs, p, m)  BY <1>3, <1>7 DEF PackOf
<1>9. Packed(w, objs, p, m)'  BY <1>6, <1>8 DEF Packed
<1>10. w \in Seq(Piece) /\ Len(w) \in Nat /\ Len(objs) \in Nat  BY <1>8, LaidIs DEF Packed
<1>11. /\ Len(objs) = m /\ Closure(sender.wants) \subseteq Closure(refs) \cup ToSet(objs)
       /\ ToSet(objs) \subseteq Closure(sender.wants)
  <2>1. Len(sender.todo) = 0 /\ ToSet(sender.todo) = {}  BY <1>1 DEF ToSet
  <2>2. Len(objs) + Len(sender.todo) = n
        /\ ToSet(sender.metas) = ToSet(objs) \cup ToSet(sender.todo)
    BY <1>3 DEF PackOf
  <2>3. /\ Closure(sender.wants) \ Closure(refs) \subseteq ToSet(sender.metas)
        /\ ToSet(sender.metas) \subseteq Closure(sender.wants)
    BY <1>1 DEF SendInv, SentExactly
  <2>4. Len(objs) = m  BY <1>7, <1>10, <2>1, <2>2
  <2> QED  BY <2>1, <2>2, <2>3, <2>4
<1> HIDE DEF n, sum
<1>12. /\ wire' \in Seq(Piece \cup {sum}) /\ Len(wire') = Len(w) + 1
       /\ \A i \in 1..(Len(w) + 1) : wire'[i] = IF i <= Len(w) THEN w[i] ELSE sum
  BY <1>1, <1>2, <1>10, LastIs DEF sum
<1>13. Carried(w)'  BY <1>10, <1>12 DEF Carried, sum
<1>14. Arrives(w, objs, p, m)'
  BY <1>1, <1>6, <1>9, <1>10, <1>11, <1>12, <1>13 DEF Arrives
<1>15. reader.at = "head"  BY <1>1 DEF WireInv, Phases
<1>16. Something(w, objs, p, m)'  BY <1>1, <1>14, <1>15 DEF Something, Unheard
<1>17. Delivery'  BY <1>16 DEF Delivery
<1> QED  BY <1>1, <1>4, <1>17, LeftWire DEF Unheard, Fields

(* The remote reports an error, before its pack or within it.              *)
LEMMA RemoteErrorWire == ASSUME SendInv, WireInv, RemoteError PROVE WireInv'
<1>1. /\ Unheard /\ wire' = wire /\ ended' = "error" /\ sender.at \in {"walk", "pack"}
      /\ sender' = [sender EXCEPT !.at = "gone"]
  BY DEF RemoteError, Unheard, serverVars, clientVars
<1>2. CASE sender.at = "walk"
  <2>1. wire = <<>> /\ reader.at = "head"  BY <1>2 DEF WireInv, Phases
  <2>2. Nothing'  BY <1>1, <2>1 DEF Nothing, Unheard
  <2>3. Delivery'  BY <2>2 DEF Delivery
  <2>4. "at" \in DOMAIN sender  BY DEF SendInv, Shape
  <2> QED  BY <1>1, <2>3, <2>4, LeftWire DEF Unheard
<1>3. CASE sender.at = "pack"  BY <1>1, <1>3, LeftPack
<1> QED  BY <1>1, <1>2, <1>3

(* Whatever part of the pack a cut leaves, it is a beginning of it.        *)
LEMMA CutWire == ASSUME SendInv, WireInv, Cut PROVE WireInv'
<1>1. /\ reader.at = "head" /\ faults' = faults + 1 /\ ended' = "broken"
      /\ sender' = [sender EXCEPT !.at = "gone"]
      /\ UNCHANGED <<refs, store, lost, damaged, reader, outcome>>
  BY DEF Cut, serverVars, clientVars
<1>2. PICK k \in 0..Len(wire) : wire' = SubSeq(wire, 1, k)  BY DEF Cut
<1>3. /\ faults \in Nat /\ outcome = "none" /\ sender.at # "idle"
      /\ DOMAIN reader = ReaderFields /\ reader.pos = 0 /\ DOMAIN reader.offsets = {}
  BY <1>1 DEF WireInv, Phases
<1>4. {"at", "wants"} \subseteq DOMAIN sender  BY DEF SendInv, Shape
<1>5. sender'.at = "gone" /\ sender'.wants = sender.wants  BY <1>1, <1>4
<1>6. Closure(sender.wants)' = Closure(sender.wants) /\ Closure(refs)' = Closure(refs)
  BY <1>1, <1>5, SameClosure
<1>7. Phases'
  <2>1. faults' \in Nat /\ faults' # 0  BY <1>1, <1>3
  <2> QED  BY <1>1, <1>3, <1>5, <2>1 DEF Phases
<1>8. Packing'  BY <1>5 DEF Packing
<1>9. ASSUME wire = <<>> PROVE Nothing'
  <2>1. wire' = <<>>  BY <1>2, <1>9
  <2> QED  BY <1>1, <2>1 DEF Nothing
<1>10. ASSUME NEW w, NEW objs, NEW p, NEW n, Packed(w, objs, p, n), Carried(w),
              ToSet(objs) \subseteq Closure(sender.wants),
              Len(wire) > Len(w) =>
                 Len(objs) = n /\ Closure(sender.wants) \subseteq Closure(refs) \cup ToSet(objs)
       PROVE  Something(w, objs, p, n)'
  <2>1. Packed(w, objs, p, n)'  BY <1>6, <1>10 DEF Packed
  <2> DEFINE S == Piece \cup {SumOf(w)}
  <2>2. /\ wire \in Seq(S) /\ Len(wire) <= Len(w) + 1
        /\ \A i \in 1..Len(wire) : wire[i] = IF i <= Len(w) THEN w[i] ELSE SumOf(w)
    BY <1>10 DEF Carried
  <2>3. Len(w) \in Nat /\ Len(wire) \in Nat  BY <1>10, <2>2, LaidIs DEF Packed
  <2> HIDE DEF S
  <2>4. wire' \in Seq(S) /\ Len(wire') = k /\ \A i \in 1..k : wire'[i] = wire[i]
    BY <1>2, <2>2
  <2>5. \A i \in 1..k : i \in 1..Len(wire)  BY <2>3
  <2>6. Carried(w)'
    <3>1. Len(wire') <= Len(w) + 1  BY <2>2, <2>3, <2>4
    <3>2. \A i \in 1..Len(wire') : wire'[i] = IF i <= Len(w) THEN w[i] ELSE SumOf(w)
      BY <2>2, <2>4, <2>5
    <3> QED  BY <2>4, <3>1, <3>2 DEF Carried, S
  <2>7. Len(wire') > Len(w) => Len(wire) > Len(w)  BY <2>3, <2>4
  <2>8. Arrives(w, objs, p, n)'
    BY <1>1, <1>6, <1>10, <2>1, <2>6, <2>7 DEF Arrives
  <2> QED  BY <1>1, <2>8 DEF Something
<1>11. Delivery'
  <2>1. CASE sender.at \in {"exclude", "walk"}
    <3>1. wire = <<>>  BY <2>1 DEF WireInv, Phases
    <3> QED  BY <1>9, <3>1 DEF Delivery
  <2>2. CASE sender.at = "pack"
    <3>1. PICK w : w = wire  OBVIOUS
    <3>2. PICK n : n = Len(sender.metas)  OBVIOUS
    <3>3. PICK objs, p : Packed(w, objs, p, n) /\ ToSet(objs) \subseteq ToSet(sender.metas)
      BY <2>2, <3>1, <3>2 DEF WireInv, Packing, PackAt, PackOf
    <3>9. ToSet(objs) \subseteq Closure(sender.wants)
      BY <2>2, <3>3 DEF SendInv, SentExactly
    <3>4. w \in Seq(Piece) /\ Len(w) \in Nat  BY <3>3, LaidIs DEF Packed
    <3>5. w \in Seq(Piece \cup {SumOf(w)})  BY <3>4, WiderSeq
    <3>6. Carried(w)
      <4> DEFINE x == SumOf(w)
                 T == Piece \cup {x}
      <4>1. \A i \in 1..Len(w) : i <= Len(w)  BY <3>4
      <4>2. w \in Seq(T)  BY <3>5
      <4> HIDE DEF x, T
      <4>3. /\ wire \in Seq(T) /\ Len(wire) <= Len(w) + 1
            /\ \A i \in 1..Len(wire) : wire[i] = IF i <= Len(w) THEN w[i] ELSE x
        BY <3>1, <3>4, <4>1, <4>2
      <4> QED  BY <4>3 DEF Carried, T, x
    <3>7. ~(Len(wire) > Len(w))  BY <3>1, <3>4
    <3>8. Something(w, objs, p, n)'  BY <1>10, <3>3, <3>6, <3>7, <3>9
    <3> QED  BY <3>8 DEF Delivery
  <2>3. CASE sender.at = "gone"
    <3>1. CASE Nothing  BY <1>9, <3>1 DEF Nothing, Delivery
    <3>2. CASE ~Nothing
      <4>1. PICK w, objs, p, n : Something(w, objs, p, n)
        BY <2>3, <3>2 DEF WireInv, Delivery
      <4>2. Something(w, objs, p, n)'  BY <1>10, <4>1 DEF Something, Arrives
      <4> QED  BY <4>2 DEF Delivery
    <3> QED  BY <3>1, <3>2
  <2>4. sender.at \in {"exclude", "walk", "pack", "gone"}  BY <1>3 DEF SendInv, Shape
  <2> QED  BY <2>1, <2>2, <2>3, <2>4
<1> QED  BY <1>1, <1>3, <1>7, <1>8, <1>11, StoreKept DEF WireInv

(* The call returns.                                                       *)
LEMMA ReturnsWire ==
    ASSUME WireInv, NEW result \in {"upToDate", "failed", "done", "unstored"}, Returns(result),
           UNCHANGED <<lost, damaged, ended, faults>>,
           Complete', Genuine',
           result = "failed" => ended \in {"broken", "error"} \/ TooLarge,
           result = "upToDate" /\ faults = 0 /\ ended # "error" =>
              refs' = refs /\ Closure(sender.wants) \subseteq Closure(refs)
    PROVE  WireInv'
<1>1. /\ sender' = Idle(sender.wants) /\ reader' = [at |-> "idle"] /\ outcome' = result
      /\ wire' = wire
  BY DEF Returns
<1>2. sender'.at = "idle" /\ sender'.wants = sender.wants /\ reader'.at = "idle"
  BY <1>1 DEF Idle
<1>3. Phases'  BY <1>2 DEF WireInv, Phases
<1>4. Packing' /\ Delivery'  BY <1>2 DEF Packing, Delivery
<1>5. NeverRefused'
  <2>1. ASSUME result = "upToDate", faults = 0, ended # "error"
        PROVE  (Closure(sender.wants) \subseteq Closure(refs))'
    <3>1. refs' = refs /\ Closure(sender.wants) \subseteq Closure(refs)  BY <2>1
    <3> QED  BY <1>2, <3>1, SameClosure
  <2>2. Closure(sender.wants)' = Closure(sender.wants)  BY <1>2 DEF Closure, Reach
  <2>3. TooLarge' <=> TooLarge  BY <1>1, <2>2 DEF TooLarge
  <2> QED  BY <1>1, <2>1, <2>3 DEF NeverRefused
<1> QED  BY <1>3, <1>4, <1>5 DEF WireInv

LEMMA GoneIs ==
    ASSUME SendInv, WireInv, reader.at # "idle", ended # "open"
    PROVE  sender.at = "gone"
  BY DEF SendInv, Shape, WireInv, Phases

LEMMA NoHeadWire == ASSUME SendInv, WireInv, NoHead PROVE WireInv'
<1>1. /\ reader.at = "head" /\ Rest = <<>> /\ ended # "open"
      /\ Returns("upToDate") \/ (ended = "broken" /\ Returns("failed"))
      /\ UNCHANGED <<lost, damaged, refs, store, ended, faults>>
  BY DEF NoHead, serverVars, clientVars
<1>2. sender.at = "gone" /\ reader.pos = 0  BY <1>1, GoneIs DEF WireInv, Phases
<1>3. Closure(refs)' = Closure(refs)  BY <1>1 DEF Closure, Reach
<1>4. Complete' /\ Genuine'  BY <1>1, <1>3 DEF WireInv, Complete, Genuine
<1>5. ended \in {"eof", "broken"} => faults # 0  BY DEF WireInv, Phases
<1>6. ended \in {"flush", "eof", "broken", "error"}  BY <1>2 DEF WireInv, Phases
<1>7. ASSUME ended = "flush" PROVE Closure(sender.wants) \subseteq Closure(refs)
  <2>1. CASE Nothing  BY <1>7, <2>1 DEF Nothing
  <2>2. ASSUME NEW w, NEW objs, NEW p, NEW n, Something(w, objs, p, n) PROVE FALSE
    <3>1. Packed(w, objs, p, n) /\ Carried(w) /\ Len(wire) > Len(w)
      BY <1>7, <2>2 DEF Something, Arrives
    <3> DEFINE S == Piece \cup {SumOf(w)}
    <3>2. Len(w) \in Nat /\ wire \in Seq(S)  BY <3>1, LaidIs DEF Packed, Carried
    <3> HIDE DEF S
    <3>3. Len(wire) \in Nat /\ Len(wire) >= 1  BY <3>1, <3>2
    <3>4. Rest = SubSeq(wire, 1, Len(wire))  BY <1>2 DEF Rest
    <3>5. Len(Rest) = Len(wire)  BY <3>2, <3>3, <3>4
    <3> QED  BY <1>1, <3>3, <3>5
  <2> QED  BY <1>2, <2>1, <2>2 DEF WireInv, Delivery
<1>8. CASE Returns("upToDate")  BY <1>1, <1>4, <1>5, <1>6, <1>7, <1>8, ReturnsWire
<1>9. CASE ended = "broken" /\ Returns("failed")  BY <1>1, <1>4, <1>9, ReturnsWire
<1> QED  BY <1>1, <1>8, <1>9

-----------------------------------------------------------------------------
LEMMA DropIs ==
    ASSUME NEW S, NEW s \in Seq(S), NEW k \in 0..Len(s)
    PROVE  /\ SubSeq(s, k + 1, Len(s)) \in Seq(S)
           /\ Len(SubSeq(s, k + 1, Len(s))) = Len(s) - k
           /\ \A i \in 1..(Len(s) - k) : SubSeq(s, k + 1, Len(s))[i] = s[k + i]
<1> DEFINE v == SubSeq(s, k + 1, Len(s))
           n == Len(s)
<1>1. n \in Nat /\ k \in Nat /\ k <= n  OBVIOUS
<1>2. CASE k = n
  <2>1. v = <<>>  BY <1>2
  <2> HIDE DEF v, n
  <2>2. v \in Seq(S) /\ Len(v) = 0  BY <2>1
  <2>3. Len(v) = n - k /\ \A i \in 1..(n - k) : v[i] = s[k + i]
    BY <1>1, <1>2, <2>2
  <2> QED  BY <2>2, <2>3 DEF v, n
<1>3. CASE k < n
  <2>1. v \in Seq(S) /\ Len(v) = n - k  BY <1>1, <1>3
  <2>2. \A i \in 1..(n - k) : v[i] = s[k + i]  BY <1>1, <1>3
  <2> QED  BY <2>1, <2>2
<1> QED  BY <1>1, <1>2, <1>3

(* What is left to read.                                                   *)
LEMMA RestIs ==
    ASSUME NEW w, NEW objs, NEW p, NEW n, Arrives(w, objs, p, n),
           reader.pos \in Nat, reader.pos <= Len(wire)
    PROVE  /\ Len(wire) \in Nat /\ Len(w) \in Nat
           /\ Rest \in Seq(Piece \cup {SumOf(w)}) /\ Len(Rest) = Len(wire) - reader.pos
           /\ \A i \in 1..Len(Rest) : Rest[i] = wire[reader.pos + i]
           /\ Rest = <<>> <=> Len(wire) = reader.pos
<1> DEFINE S == Piece \cup {SumOf(w)}
           k == reader.pos
<1>1. wire \in Seq(S)  BY DEF Arrives, Carried
<1>2. Len(w) \in Nat  BY LaidIs DEF Arrives, Packed
<1> HIDE DEF S
<1>3. Len(wire) \in Nat /\ k \in 0..Len(wire)  BY <1>1
<1> HIDE DEF k
<1>4. SubSeq(wire, k + 1, Len(wire)) = Rest  BY DEF Rest, k
<1>5. Rest \in Seq(S) /\ Len(Rest) = Len(wire) - k
      /\ \A i \in 1..(Len(wire) - k) : Rest[i] = wire[k + i]
  <2>1. /\ SubSeq(wire, k + 1, Len(wire)) \in Seq(S)
        /\ Len(SubSeq(wire, k + 1, Len(wire))) = Len(wire) - k
        /\ \A i \in 1..(Len(wire) - k) : SubSeq(wire, k + 1, Len(wire))[i] = wire[k + i]
    BY <1>1, <1>3, DropIs
  <2> QED  BY <1>4, <2>1
<1>6. Rest = <<>> <=> Len(Rest) = 0  BY <1>5
<1>7. Rest = <<>> <=> Len(wire) = k  BY <1>3, <1>5, <1>6
<1> QED  BY <1>2, <1>3, <1>5, <1>7 DEF S, k

LEMMA ReadHeadWire == ASSUME SendInv, WireInv, ReadHead PROVE WireInv'
<1>1. /\ reader.at = "head" /\ Rest # <<>> /\ ended # "open"
      /\ reader' = [reader EXCEPT !.at = "objects", !.pos = 1, !.left = Rest[1][2]]
      /\ UNCHANGED <<lost, damaged, refs, store, sender, wire, ended, outcome, faults>>
  BY DEF ReadHead, serverVars, clientVars
<1>2. /\ sender.at = "gone" /\ reader.pos = 0 /\ DOMAIN reader.offsets = {}
      /\ DOMAIN reader = ReaderFields /\ outcome = "none"
  BY <1>1, GoneIs DEF WireInv, Phases
<1>3. /\ reader'.at = "objects" /\ reader'.pos = 1 /\ reader'.left = Rest[1][2]
      /\ reader'.offsets = reader.offsets /\ DOMAIN reader' = ReaderFields
  BY <1>1, <1>2 DEF ReaderFields
<1>4. Closure(refs)' = Closure(refs) /\ Closure(sender.wants)' = Closure(sender.wants)
  BY <1>1 DEF Closure, Reach
<1>5. ~Nothing
  <2>1. wire = <<>> => Rest = <<>>
    <3>1. ASSUME wire = <<>> PROVE Rest = <<>>
      <4>1. Rest = SubSeq(<<>>, 1, 0)  BY <1>2, <3>1 DEF Rest
      <4> QED  BY <4>1
    <3> QED  BY <3>1
  <2> QED  BY <1>1, <2>1 DEF Nothing
<1>6. PICK w, objs, p, n : Something(w, objs, p, n)
  BY <1>2, <1>5 DEF WireInv, Delivery
<1>7. Arrives(w, objs, p, n)  BY <1>6 DEF Something
<1>8. /\ w[1] = <<Count, n>> /\ n \in Nat /\ Len(w) \in Nat /\ Len(w) >= 1 /\ p[1] = 1
      /\ Len(objs) \in Nat
      /\ \A i \in 1..Len(wire) : wire[i] = IF i <= Len(w) THEN w[i] ELSE SumOf(w)
  BY <1>7, LaidIs DEF Arrives, Packed, Carried
<1>9. /\ Len(wire) \in Nat /\ Len(Rest) = Len(wire) /\ Len(wire) # 0
      /\ \A i \in 1..Len(Rest) : Rest[i] = wire[i]
  <2>1. Len(wire) \in Nat
    <3> DEFINE S == Piece \cup {SumOf(w)}
    <3>1. wire \in Seq(S)  BY <1>7 DEF Arrives, Carried
    <3> HIDE DEF S
    <3> QED  BY <3>1
  <2>2. reader.pos \in Nat /\ reader.pos <= Len(wire)  BY <1>2, <2>1
  <2>3. /\ Len(Rest) = Len(wire) - reader.pos
        /\ \A i \in 1..Len(Rest) : Rest[i] = wire[reader.pos + i]
        /\ Rest = <<>> <=> Len(wire) = reader.pos
    BY <1>7, <2>2, RestIs
  <2>4. Len(Rest) = Len(wire)  BY <1>2, <2>1, <2>3
  <2>5. \A i \in 1..Len(Rest) : reader.pos + i = i  BY <1>2, <2>1, <2>4
  <2> QED  BY <1>1, <1>2, <2>1, <2>3, <2>4, <2>5
<1>10. Rest[1][2] = n
  <2>1. 1 \in 1..Len(wire) /\ 1 \in 1..Len(Rest)  BY <1>9
  <2>2. wire[1] = <<Count, n>>  BY <1>8, <2>1
  <2>3. Rest[1] = <<Count, n>>  BY <1>9, <2>1, <2>2
  <2> QED  BY <2>3
<1>11. ReadUpto(1, objs, p, n)'
  <2>1. 1 <= Len(wire')  BY <1>1, <1>9
  <2>2. n = n - (1 - 1) /\ {p[i] : i \in 1..(1 - 1)} = {}  BY <1>8
  <2> QED  BY <1>2, <1>3, <1>8, <1>10, <2>1, <2>2 DEF ReadUpto
<1>12. Arrives(w, objs, p, n)'
  BY <1>1, <1>4, <1>7 DEF Arrives, Packed, Carried
<1>13. Something(w, objs, p, n)'
  <2>1. 1 \in 1..(Len(objs) + 1)  BY <1>8
  <2> QED  BY <1>11, <1>12, <2>1 DEF Something
<1>14. Delivery'  BY <1>13 DEF Delivery
<1>15. Phases'  BY <1>1, <1>2, <1>3 DEF WireInv, Phases
<1>16. Packing'  BY <1>1, <1>2 DEF Packing
<1> QED  BY <1>1, <1>2, <1>14, <1>15, <1>16, StoreKept DEF WireInv

(* Where a reader is who has read the head.                                *)
LEMMA ReadingAt ==
    ASSUME SendInv, WireInv, reader.at = "objects"
    PROVE  /\ sender.at = "gone" /\ ended \in {"flush", "eof", "broken", "error"}
           /\ DOMAIN reader = ReaderFields /\ outcome = "none"
           /\ \E w, objs, p, n : /\ Arrives(w, objs, p, n)
                                 /\ \E j \in 1..(Len(objs) + 1) : ReadUpto(j, objs, p, n)
<1>1. sender.at = "gone" /\ ended \in {"flush", "eof", "broken", "error"}
  BY DEF SendInv, Shape, WireInv, Phases
<1>2. ~Nothing  BY DEF Nothing
<1>3. PICK w, objs, p, n : Something(w, objs, p, n)
  BY <1>1, <1>2 DEF WireInv, Delivery
<1> QED  BY <1>1, <1>3 DEF Something, WireInv, Phases

LEMMA NothingLeft ==
    ASSUME NEW S, NEW rest \in Seq(S), Len(rest) = 0, NEW pos
    PROVE  EntryOf(rest, pos) = [n |-> 0]
<1> DEFINE h == <<>>
<1>1. h \in Seq(Nat) /\ Len(h) = 0 /\ DOMAIN h = {}  OBVIOUS
<1> HIDE DEF h
<1>2. BytesOf(rest) = IF Len(rest) >= Len(h) THEN h ELSE SubSeq(h, 1, Len(rest))
  <2>1. \A i \in 1..Len(h) : i <= Len(rest) => rest[i] = <<Byte, h[i]>>  BY <1>1
  <2>2. Len(rest) > Len(h) => rest[Len(h) + 1][1] # Byte  BY <1>1
  <2> QED  BY <1>1, <2>1, <2>2, BytesCome
<1>3. BytesOf(rest) = h  BY <1>1, <1>2
<1>4. ~EndsIn(BytesOf(rest))  BY <1>1, <1>3 DEF EndsIn
<1> QED  BY <1>4, Unended

(* The next entry is the next object's, or the stream has broken off.      *)
LEMMA NextEntry ==
    ASSUME refs \subseteq Objects, NEW w, NEW objs, NEW p, NEW n, Arrives(w, objs, p, n),
           NEW j \in 1..(Len(objs) + 1), ReadUpto(j, objs, p, n), reader.left > 0
    PROVE  \/ Entry.n = 0 /\ ended # "flush"
           \/ /\ j <= Len(objs) /\ Entry.n > 0 /\ p[j] + Entry.n = p[j + 1]
              /\ p[j + 1] <= Len(wire)
              /\ Decoded(Entry, j, objs, p, Closure(refs))
<1> DEFINE have == Closure(refs)
           from == p[j]
           S == Piece \cup {SumOf(w)}
<1>1. have \in SUBSET Objects  BY ClosureIs
<1>2. /\ Laid(w, objs, p, have) /\ n \in Nat /\ Len(objs) <= n
      /\ \A i \in 1..Len(wire) : wire[i] = IF i <= Len(w) THEN w[i] ELSE SumOf(w)
      /\ Len(wire) > Len(w) => Len(objs) = n
      /\ ended = "flush" => Len(wire) > Len(w)
  BY DEF Arrives, Packed, Carried
<1>3. reader.pos = from /\ from <= Len(wire) /\ reader.left = n - (j - 1)
  BY DEF ReadUpto
<1>4. /\ Len(objs) \in Nat /\ Len(w) \in Nat /\ p[Len(objs) + 1] = Len(w)
      /\ \A i \in 1..(Len(objs) + 1) : p[i] \in Nat /\ 1 <= p[i] /\ p[i] <= Len(w)
  BY <1>2, LaidIs
<1>5. /\ Len(wire) \in Nat /\ Rest \in Seq(S) /\ Len(Rest) = Len(wire) - from
      /\ \A i \in 1..Len(Rest) : Rest[i] = wire[from + i]
  BY <1>3, <1>4, RestIs
<1>6. Entry = EntryOf(Rest, from)  BY <1>3 DEF Entry
<1> HIDE DEF have, S, from
<1>7. CASE j = Len(objs) + 1
  <2>1. Len(objs) < n  BY <1>2, <1>3, <1>4, <1>7
  <2>2. from = Len(w) /\ ~(Len(wire) > Len(w))  BY <1>2, <1>4, <1>7, <2>1 DEF from
  <2>3. Len(Rest) = 0  BY <1>3, <1>4, <1>5, <2>2
  <2>4. Entry = [n |-> 0]  BY <1>5, <1>6, <2>3, NothingLeft
  <2> QED  BY <1>2, <2>2, <2>4
<1>8. CASE j # Len(objs) + 1
  <2> DEFINE d == p[j + 1] - p[j]
  <2>1. j \in 1..Len(objs) /\ j + 1 \in 1..(Len(objs) + 1)  BY <1>4, <1>8
  <2>2. p[j + 1] \in Nat /\ p[j + 1] <= Len(w) /\ p[j] \in Nat /\ from = p[j]
    BY <1>4, <2>1 DEF from
  <2>3. ASSUME NEW i \in 1..d, i <= Len(Rest) PROVE Rest[i] = w[p[j] + i]
    <3>1. i \in 1..Len(Rest) /\ from + i \in 1..Len(wire) /\ from + i <= Len(w)
      <4> DEFINE l == Len(Rest)
                 b == p[j + 1]
      <4>1. /\ l \in Int /\ l = Len(wire) - from /\ i <= l /\ i \in 1..(b - from) /\ from \in Nat
            /\ b \in Nat /\ b <= Len(w) /\ Len(w) \in Nat /\ Len(wire) \in Nat
        BY <1>4, <1>5, <2>2, <2>3
      <4> HIDE DEF l, b
      <4>2. i \in 1..l /\ from + i \in 1..Len(wire) /\ from + i <= Len(w)  BY <4>1
      <4> QED  BY <4>2 DEF l
    <3>2. Rest[i] = wire[from + i] /\ wire[from + i] = w[from + i]  BY <1>2, <1>5, <3>1
    <3> QED  BY <2>2, <3>2
  <2>4. /\ d \in Nat /\ d >= 1
        /\ Len(Rest) < d => Entry.n = 0
        /\ Len(Rest) >= d => Entry.n = d /\ Decoded(Entry, j, objs, p, have)
    <3>1. Entry = EntryOf(Rest, p[j])  BY <1>6, <2>2
    <3> QED  BY <1>1, <1>2, <1>5, <2>1, <2>3, <3>1, LaidRead
  <2>5. CASE Len(Rest) < d
    <3>1. ~(Len(wire) > Len(w))  BY <1>4, <1>5, <2>2, <2>5
    <3> QED  BY <1>2, <2>4, <2>5, <3>1
  <2>6. CASE Len(Rest) >= d
    <3> DEFINE x == Entry.n
    <3>1. x = d /\ Decoded(Entry, j, objs, p, have)  BY <2>4, <2>6
    <3> HIDE DEF x
    <3>2. p[j] + x = p[j + 1] /\ x > 0 /\ p[j + 1] <= Len(wire) /\ j <= Len(objs)
      <4> DEFINE b == p[j + 1]
                 l == Len(Rest)
      <4>1. /\ from \in Nat /\ b \in Nat /\ Len(wire) \in Nat /\ l = Len(wire) - from
            /\ p[j] = from /\ x = b - from /\ x >= 1 /\ l >= x
        BY <1>5, <2>2, <2>4, <2>6, <3>1
      <4> HIDE DEF b, l, d
      <4>2. from + x = b /\ x > 0 /\ b <= Len(wire)  BY <4>1
      <4> QED  BY <2>1, <4>1, <4>2 DEF b
    <3> QED  BY <3>1, <3>2 DEF x, have
  <2>7. Len(Rest) \in Nat  BY <1>5
  <2> QED  BY <2>4, <2>5, <2>6, <2>7
<1> QED  BY <1>7, <1>8

-----------------------------------------------------------------------------
LEMMA ReadObjectWire == ASSUME SendInv, WireInv, ReadObject PROVE WireInv'
<1> DEFINE e == Entry
<1>1. reader.at = "objects" /\ reader.left > 0 /\ e.n > 0 /\ refs \subseteq Objects
  BY DEF ReadObject, SendInv, Shape
<1>2. /\ sender.at = "gone" /\ ended \in {"flush", "eof", "broken", "error"}
      /\ DOMAIN reader = ReaderFields /\ outcome = "none"
  BY <1>1, ReadingAt
<1>3. PICK w, objs, p, n : /\ Arrives(w, objs, p, n)
                           /\ \E j \in 1..(Len(objs) + 1) : ReadUpto(j, objs, p, n)
  BY <1>1, ReadingAt
<1>4. PICK j \in 1..(Len(objs) + 1) : ReadUpto(j, objs, p, n)  BY <1>3
<1> DEFINE have == Closure(refs)
           o == objs[j]
<1>5. /\ Laid(w, objs, p, have) /\ n \in Nat  BY <1>3 DEF Arrives, Packed
<1>6. /\ Len(objs) \in Nat /\ objs \in Seq(Objects)
      /\ \A i \in 1..(Len(objs) + 1) : p[i] \in Nat
      /\ \A i, k \in 1..(Len(objs) + 1) : i < k => p[i] < p[k]
  BY <1>5, LaidIs
<1>7. /\ reader.pos = p[j] /\ reader.left = n - (j - 1)
      /\ DOMAIN reader.offsets = {p[i] : i \in 1..(j - 1)}
      /\ \A i \in 1..(j - 1) : reader.offsets[p[i]] = objs[i]
      /\ \A i \in 1..(j - 1) : objs[i] \in store
  BY <1>4 DEF ReadUpto
<1>8. /\ j <= Len(objs) /\ p[j] + e.n = p[j + 1] /\ p[j + 1] <= Len(wire)
      /\ Decoded(e, j, objs, p, have)
  <2>1. e.n # 0  BY <1>1
  <2> HIDE DEF have
  <2> QED  BY <1>1, <1>3, <1>4, <2>1, NextEntry DEF have
<1>9. j \in 1..Len(objs) /\ o \in Objects
  <2>1. j \in 1..Len(objs)  BY <1>6, <1>8
  <2> QED  BY <1>6, <2>1, SeqIs
<1>10. have \in SUBSET Objects /\ have \subseteq store
  BY <1>1, ClosureIs DEF WireInv, Complete
<1> HIDE DEF e, have, o
<1>23. /\ ResultsOf(e) \subseteq {o}
       /\ ResultsOf(e) = {} => Beyond(o, p[j])
  <2>1. \A i \in 1..(j - 1) : p[i] \in DOMAIN reader.offsets  BY <1>7
  <2>2. \A i \in 1..(j - 1) : reader.offsets[p[i]] = objs[i]  BY <1>7
  <2>3. \A i \in 1..(j - 1) : objs[i] \in store  BY <1>7
  <2>4. /\ ResultsOf(e) \subseteq {objs[j]}
        /\ ResultsOf(e) = {} => Beyond(objs[j], p[j])
    BY <1>6, <1>8, <1>9, <1>10, <2>1, <2>2, <2>3, ResultIs
  <2> QED  BY <2>4 DEF o
<1>24. ResultsOf(e) = {} => TooLarge
  <2>1. o \in Closure(sender.wants)
    <3>1. ToSet(objs) \subseteq Closure(sender.wants)  BY <1>3 DEF Arrives
    <3>2. o \in ToSet(objs)
      <4>1. DOMAIN objs = 1..Len(objs)  BY <1>6
      <4> QED  BY <1>9, <4>1 DEF ToSet, o
    <3> QED  BY <3>1, <3>2
  <2>2. p[j] > MaxDistance => Len(wire) > MaxDistance
    <3>1. j \in 1..(Len(objs) + 1) /\ j + 1 \in 1..(Len(objs) + 1) /\ j < j + 1
      BY <1>6, <1>9
    <3>2. p[j] < p[j + 1] /\ p[j] \in Nat /\ p[j + 1] \in Nat  BY <1>6, <3>1
    <3>3. Len(wire) \in Nat
      <4> DEFINE S == Piece \cup {SumOf(w)}
      <4>1. wire \in Seq(S)  BY <1>3 DEF Arrives, Carried
      <4> HIDE DEF S
      <4> QED  BY <4>1
    <3> DEFINE a == p[j]
               b == p[j + 1]
               l == Len(wire)
    <3>4. a < b /\ b <= l /\ a \in Nat /\ b \in Nat /\ l \in Nat /\ MaxDistance \in Nat
      BY <1>8, <3>2, <3>3, LimitAssumption
    <3> HIDE DEF a, b, l
    <3>5. a > MaxDistance => l > MaxDistance  BY <3>4
    <3> QED  BY <3>5 DEF a, l
  <2> QED  BY <1>23, <2>1, <2>2 DEF TooLarge, Beyond
<1>25. refs' = refs /\ UNCHANGED <<lost, damaged, ended, faults>>  BY DEF ReadObject, serverVars
<1>26. ASSUME store' = store PROVE Complete' /\ Genuine'
  <2>1. Closure(refs)' = Closure(refs)  BY <1>25 DEF Closure, Reach
  <2> QED  BY <1>26, <2>1 DEF WireInv, Complete, Genuine
<1>27. CASE ResultsOf(e) = {}
  <2>1. Returns("failed") /\ store' = store  BY <1>27 DEF ReadObject, e
  <2> QED  BY <1>24, <1>25, <1>26, <1>27, <2>1, ReturnsWire
<1>28. CASE Returns("unstored") /\ store' = store
  BY <1>25, <1>26, <1>28, ReturnsWire
<1>29. CASE /\ store' = store \cup {o}
            /\ reader' = [reader EXCEPT !.left = @ - 1, !.pos = @ + e.n,
                                        !.offsets = Put(@, reader.pos, o)]
            /\ UNCHANGED <<sender, wire, outcome>>
  <2>13. /\ reader'.at = "objects" /\ reader'.left = reader.left - 1
         /\ reader'.pos = reader.pos + e.n
         /\ reader'.offsets = Put(reader.offsets, reader.pos, o)
         /\ DOMAIN reader' = ReaderFields
    BY <1>1, <1>2, <1>25, <1>29 DEF ReaderFields
  <2>14. Closure(refs)' = Closure(refs) /\ Closure(sender.wants)' = Closure(sender.wants)
    BY <1>25, <1>29 DEF Closure, Reach
  <2> DEFINE off == reader.offsets
             new == Put(off, p[j], o)
  <2>15. ReadUpto(j + 1, objs, p, n)'
    <3>1. j \in 1..(Len(objs) + 1) /\ \A i \in 1..(j - 1) : i \in 1..(Len(objs) + 1) /\ i < j
      BY <1>6, <1>9
    <3>2. \A i \in 1..(j - 1) : p[i] # p[j]
      <4>1. \A i \in 1..(Len(objs) + 1) : i < j => p[i] < p[j]  BY <1>6, <3>1
      <4>2. \A i \in 1..(Len(objs) + 1) : p[i] \in Nat  BY <1>6
      <4> QED  BY <3>1, <4>1, <4>2
    <3>3. (j + 1) - 1 = j /\ \A i \in 1..j : i = j \/ i \in 1..(j - 1)  BY <1>9
    <3>4. reader'.offsets = new  BY <1>7, <2>13
    <3>5. DOMAIN new = DOMAIN off \cup {p[j]} /\ new[p[j]] = o
          /\ \A y \in DOMAIN off \ {p[j]} : new[y] = off[y]
      BY DEF Put
    <3>6. DOMAIN off = {p[i] : i \in 1..(j - 1)} /\ \A i \in 1..(j - 1) : off[p[i]] = objs[i]
      BY <1>7
    <3> HIDE DEF off, new
    <3>7. DOMAIN new = {p[i] : i \in 1..j}
      <4>1. j \in 1..j /\ \A i \in 1..(j - 1) : i \in 1..j  BY <1>9
      <4> QED  BY <3>3, <3>5, <3>6, <4>1
    <3>8. ASSUME NEW i \in 1..j PROVE new[p[i]] = objs[i] /\ objs[i] \in store'
      <4>1. CASE i = j  BY <1>25, <1>29, <3>5, <4>1 DEF o
      <4>2. CASE i # j
        <5>1. i \in 1..(j - 1)  BY <3>3, <4>2
        <5>2. p[i] \in DOMAIN off \ {p[j]}  BY <3>2, <3>6, <5>1
        <5> QED  BY <1>7, <1>25, <1>29, <3>5, <3>6, <5>1, <5>2
      <4> QED  BY <4>1, <4>2
    <3>9. reader'.pos = p[j + 1] /\ p[j + 1] <= Len(wire')  BY <1>7, <1>8, <1>25, <1>29, <2>13
    <3>10. reader'.left = n - ((j + 1) - 1)
      <4>1. reader'.left = (n - (j - 1)) - 1  BY <1>7, <2>13
      <4> QED  BY <1>5, <1>9, <4>1
    <3> QED  BY <3>3, <3>4, <3>7, <3>8, <3>9, <3>10 DEF ReadUpto
  <2>16. Arrives(w, objs, p, n)'
    BY <1>3, <1>25, <1>29, <2>14 DEF Arrives, Packed, Carried
  <2>17. Something(w, objs, p, n)'
    <3>1. j + 1 \in 1..(Len(objs) + 1)  BY <1>6, <1>9
    <3> QED  BY <2>15, <2>16, <3>1 DEF Something
  <2>18. Delivery'  BY <2>17 DEF Delivery
  <2>19. Phases'  BY <1>2, <1>25, <1>29, <2>13 DEF WireInv, Phases
  <2>20. Packing'  BY <1>2, <1>25, <1>29 DEF Packing
  <2>21. Complete' /\ Genuine'
    BY <1>9, <1>25, <1>29, <2>14 DEF WireInv, Complete, Genuine
  <2>22. NeverRefused'  BY <1>2, <1>25, <1>29 DEF NeverRefused
  <2> QED  BY <2>18, <2>19, <2>20, <2>21, <2>22 DEF WireInv
<1>30. \/ ResultsOf(e) = {}
       \/ Returns("unstored") /\ store' = store
       \/ /\ store' = store \cup {o}
          /\ reader' = [reader EXCEPT !.left = @ - 1, !.pos = @ + e.n,
                                      !.offsets = Put(@, reader.pos, o)]
          /\ UNCHANGED <<sender, wire, outcome>>
  BY <1>23 DEF ReadObject, e
<1> QED  BY <1>27, <1>28, <1>29, <1>30

LEMMA StarvedWire == ASSUME SendInv, WireInv, Starved PROVE WireInv'
<1>1. /\ reader.at = "objects"
      /\ \/ ended \in {"eof", "error"} /\ Returns("upToDate")
         \/ ended # "eof" /\ Returns("failed")
      /\ IF reader.left > 0 THEN Entry.n = 0 ELSE Rest = <<>>
      /\ UNCHANGED <<lost, damaged, refs, store, ended, faults>>
  BY DEF Starved, serverVars, clientVars
<1>2. ended \in {"flush", "eof", "broken", "error"} /\ refs \subseteq Objects
  BY <1>1, ReadingAt DEF SendInv, Shape
<1>3. PICK w, objs, p, n : /\ Arrives(w, objs, p, n)
                           /\ \E j \in 1..(Len(objs) + 1) : ReadUpto(j, objs, p, n)
  BY <1>1, ReadingAt
<1>4. PICK j \in 1..(Len(objs) + 1) : ReadUpto(j, objs, p, n)  BY <1>3
<1>5. /\ Laid(w, objs, p, Closure(refs)) /\ n \in Nat /\ Len(objs) <= n
      /\ ended = "flush" => Len(wire) > Len(w)
  BY <1>3 DEF Arrives, Packed
<1>6. /\ Len(objs) \in Nat /\ Len(w) \in Nat /\ p[Len(objs) + 1] = Len(w)
      /\ p[j] \in Nat /\ p[j] <= Len(w)
  BY <1>5, LaidIs
<1>7. reader.pos = p[j] /\ p[j] <= Len(wire) /\ reader.left = n - (j - 1)
  BY <1>4 DEF ReadUpto
<1>8. ended # "flush"
  <2>1. CASE reader.left > 0
    <3>1. Entry.n = 0  BY <1>1, <2>1
    <3> QED  BY <1>2, <1>3, <1>4, <2>1, <3>1, NextEntry
  <2>2. CASE ~(reader.left > 0)
    <3>1. Rest = <<>>  BY <1>1, <2>2
    <3>2. Len(wire) = p[j]  BY <1>3, <1>6, <1>7, <3>1, RestIs
    <3> QED  BY <1>5, <1>6, <3>2
  <2> QED  BY <2>1, <2>2
<1>10. ended = "eof" => faults # 0  BY DEF WireInv, Phases
<1>11. Complete' /\ Genuine'
  <2>1. Closure(refs)' = Closure(refs)  BY <1>1 DEF Closure, Reach
  <2> QED  BY <1>1, <2>1 DEF WireInv, Complete, Genuine
<1>12. CASE ended \in {"eof", "error"} /\ Returns("upToDate")
  BY <1>1, <1>10, <1>11, <1>12, ReturnsWire
<1>13. CASE ended # "eof" /\ Returns("failed")
  BY <1>1, <1>2, <1>8, <1>11, <1>13, ReturnsWire
<1> QED  BY <1>1, <1>12, <1>13

LEMMA AcceptWire == ASSUME SendInv, WireInv, Accept PROVE WireInv'
<1>1. /\ reader.at = "objects" /\ reader.left = 0 /\ Rest # <<>>
      /\ UNCHANGED <<lost, damaged, store, ended, faults>>
  BY DEF Accept, serverVars
<1>2. ended \in {"flush", "eof", "broken", "error"} /\ refs \subseteq Objects
  BY <1>1, ReadingAt DEF SendInv, Shape
<1>3. PICK w, objs, p, n : /\ Arrives(w, objs, p, n)
                           /\ \E j \in 1..(Len(objs) + 1) : ReadUpto(j, objs, p, n)
  BY <1>1, ReadingAt
<1>4. PICK j \in 1..(Len(objs) + 1) : ReadUpto(j, objs, p, n)  BY <1>3
<1>5. /\ Laid(w, objs, p, Closure(refs)) /\ n \in Nat /\ Len(objs) <= n
      /\ Len(wire) <= Len(w) + 1
      /\ \A i \in 1..Len(wire) : wire[i] = IF i <= Len(w) THEN w[i] ELSE SumOf(w)
      /\ Len(wire) > Len(w) =>
            Len(objs) = n /\ Closure(sender.wants) \subseteq Closure(refs) \cup ToSet(objs)
      /\ ended = "eof" => Len(wire) = Len(w)
  BY <1>3 DEF Arrives, Packed, Carried
<1>6. /\ Len(objs) \in Nat /\ Len(w) \in Nat /\ p[Len(objs) + 1] = Len(w)
      /\ w \in Seq(Piece) /\ objs \in Seq(Objects)
      /\ p[j] \in Nat /\ p[j] <= Len(w)
  BY <1>5, LaidIs
<1>7. /\ reader.pos = p[j] /\ p[j] <= Len(wire) /\ reader.left = n - (j - 1)
      /\ \A i \in 1..(j - 1) : objs[i] \in store
  BY <1>4 DEF ReadUpto
<1>8. j - 1 = n /\ Len(objs) = n  BY <1>1, <1>5, <1>6, <1>7
<1>9. reader.pos = Len(w)
  <2>1. j = Len(objs) + 1  BY <1>6, <1>8
  <2> QED  BY <1>6, <1>7, <2>1
<1>10. /\ Len(wire) \in Nat /\ Len(Rest) = Len(wire) - reader.pos
       /\ \A i \in 1..Len(Rest) : Rest[i] = wire[reader.pos + i]
       /\ Len(wire) # reader.pos
  BY <1>1, <1>3, <1>6, <1>7, RestIs
<1>11. Len(wire) = Len(w) + 1  BY <1>5, <1>6, <1>7, <1>9, <1>10
<1>12. Closure(sender.wants) \subseteq Closure(refs) \cup ToSet(objs)
  BY <1>5, <1>6, <1>11
<1>13. ended # "eof"  BY <1>5, <1>6, <1>11
<1>14. ToSet(objs) \subseteq store
  <2>1. DOMAIN objs = 1..Len(objs)  BY <1>6
  <2> QED  BY <1>7, <1>8, <2>1 DEF ToSet
<1>15. Rest = <<SumOf(SubSeq(wire, 1, reader.pos))>>
  <2> DEFINE S == Piece \cup {SumOf(w)}
             x == SumOf(w)
             head == SubSeq(wire, 1, reader.pos)
  <2>1. wire \in Seq(S)  BY <1>3 DEF Arrives, Carried
  <2>2. w \in Seq(S)  BY <1>6, WiderSeq
  <2> HIDE DEF S
  <2>3. head \in Seq(S) /\ Len(head) = Len(w) /\ \A i \in 1..Len(w) : head[i] = wire[i]
    BY <1>6, <1>9, <1>11, <2>1
  <2>4. \A i \in 1..Len(w) : wire[i] = w[i]  BY <1>5, <1>6, <1>11
  <2> HIDE DEF head
  <2>5. head = w
    <3>1. \A i \in 1..Len(head) : head[i] = w[i]  BY <2>3, <2>4
    <3> QED  BY <2>2, <2>3, <3>1, SameSeq
  <2>6. Len(Rest) = 1 /\ Rest[1] = wire[Len(w) + 1]
    <3>1. Len(Rest) = 1  BY <1>6, <1>9, <1>10, <1>11
    <3>2. 1 \in 1..Len(Rest)  BY <3>1
    <3>3. Rest[1] = wire[reader.pos + 1]  BY <1>10, <3>2
    <3> QED  BY <1>9, <3>1, <3>3
  <2>7. wire[Len(w) + 1] = x
    <3>1. Len(w) + 1 \in 1..Len(wire) /\ ~(Len(w) + 1 <= Len(w))  BY <1>6, <1>11
    <3> QED  BY <1>5, <3>1
  <2>8. Rest \in Seq(S)
    <3>1. Rest \in Seq(Piece \cup {SumOf(w)})  BY <1>3, <1>6, <1>7, RestIs
    <3> QED  BY <3>1 DEF S
  <2> HIDE DEF x
  <2>9. Rest = <<x>>  BY <2>6, <2>7, <2>8
  <2> QED  BY <2>5, <2>9 DEF x, head
<1>16. CASE ended = "flush"
  <2>1. refs' = sender.wants /\ Returns("done")  BY <1>15, <1>16 DEF Accept
  <2>2. Complete'
    <3>1. Closure(refs)' = Closure(sender.wants)  BY <2>1 DEF Closure, Reach
    <3>2. Closure(refs) \subseteq store  BY DEF WireInv, Complete
    <3> QED  BY <1>1, <1>12, <1>14, <3>1, <3>2 DEF Complete
  <2>3. Genuine'  BY <1>1 DEF WireInv, Genuine
  <2> QED  BY <1>1, <2>1, <2>2, <2>3, ReturnsWire
<1>17. CASE ended # "flush"
  <2>1. refs' = refs /\ Returns("failed")  BY <1>17 DEF Accept
  <2>2. ended \in {"broken", "error"}  BY <1>2, <1>13, <1>17
  <2>3. Closure(refs)' = Closure(refs)  BY <2>1 DEF Closure, Reach
  <2>4. Complete' /\ Genuine'  BY <1>1, <2>3 DEF WireInv, Complete, Genuine
  <2> QED  BY <1>1, <2>1, <2>2, <2>4, ReturnsWire
<1> QED  BY <1>16, <1>17

LEMMA NextWire == ASSUME SendInv, WireInv, [Next]_vars PROVE WireInv'
<1>1. CASE UNCHANGED vars  BY <1>1, SameWire
<1> QED
  BY <1>1, FetchWire, ExcludeWire, ExcludeEndsWire, WalkWire, StartPackWire, WriteFullWire,
     WritePairWire, WriteForeignWire, EndPackWire, ReadHeadWire, NoHeadWire, ReadObjectWire,
     StarvedWire, AcceptWire, RemoteErrorWire, CutWire DEF Next

(* The reader is always where an entry starts, knows the bases it has read *)
(* by the places where the sender has put them, and has stored all it read *)
(* (pack_decode.go 84-143, protocol.go 634-690).                           *)
THEOREM Delivers == Spec => []WireInv
<1>1. Init => WireInv  BY InitWire
<1>2. SendInv /\ WireInv /\ [Next]_vars => WireInv'  BY NextWire
<1> QED  BY <1>1, <1>2, Invariance, PTL DEF Spec

(* Complete, for any objects, refs, losses and cuts, and any deltas of the *)
(* peer: what the client's refs reach is in its store, because the refs    *)
(* are moved only when the whole pack and its end have come (fetch.go 533).*)
THEOREM StaysComplete == Spec => []Complete
<1>1. WireInv => Complete  BY DEF WireInv
<1> QED  BY <1>1, Delivers, PTL

(* Genuine: no entry is read from the wrong place and no delta is laid on  *)
(* the wrong base, wherever a pack is cut (pack_decode.go 186).            *)
THEOREM StaysGenuine == Spec => []Genuine
<1>1. WireInv => Genuine  BY DEF WireInv
<1> QED  BY <1>1, Delivers, PTL

(* NeverRefused, for any sizes and any limits: while no object and no delta *)
(* is longer than is accepted and the pack is not longer than the greatest *)
(* distance, only a broken connection or the remote's own error fails the  *)
(* decoding; what cannot be stored is another matter.  And "up to date"    *)
(* from a sound server over a sound connection, with no error reported, is *)
(* true (pack_decode.go 84-143, 162, 275, fetch.go 132, 600).              *)
THEOREM IsNeverRefused == Spec => []NeverRefused
<1>1. WireInv => NeverRefused  BY DEF WireInv
<1> QED  BY <1>1, Delivers, PTL

-----------------------------------------------------------------------------
PowerRule(f) == f = [n \in 0..4 |-> IF n = 0 THEN 1 ELSE Wide * f[n - 1]]

LEMMA PowerRead == Power = CHOOSE f : PowerRule(f)
  BY DEF Power, PowerRule

LEMMA PowerIs ==
    /\ Power \in [0..4 -> Nat] /\ Power[0] = 1
    /\ \A n \in 1..4 : Power[n] = Wide * Power[n - 1] /\ Power[n] >= 1
<1> DEFINE step == [p \in (1..4) \X Nat |-> Wide * p[2]]
<1>1. Wide \in Nat /\ Wide >= 2  BY DeltaAssumption
<1>2. \E f : PowerRule(f)
  <2>1. step \in [(1..4) \X Nat -> Nat]  BY <1>1
  <2>2. \A k \in 1..4, a \in Nat : step[<<k, a>>] = Wide * a  OBVIOUS
  <2> HIDE DEF step
  <2>3. PICK f \in [0..4 -> Nat] : Follows(f, 4, 1, step)  BY <2>1, Recursion
  <2>4. ASSUME NEW k \in 1..4 PROVE f[k] = Wide * f[k - 1]
    <3>1. f[k - 1] \in Nat  OBVIOUS
    <3> QED  BY <2>2, <2>3, <3>1 DEF Follows
  <2>5. PowerRule(f)  BY <2>3, <2>4 DEF Follows, PowerRule
  <2> QED  BY <2>5
<1>3. PowerRule(Power)  BY <1>2, PowerRead
<1>4. /\ Power[0] = 1 /\ Power[1] = Wide * Power[0] /\ Power[2] = Wide * Power[1]
      /\ Power[3] = Wide * Power[2] /\ Power[4] = Wide * Power[3]
  BY <1>3 DEF PowerRule
<1>5. \A a \in Nat : a >= 1 => Wide * a \in Nat /\ Wide * a >= 1  BY <1>1
<1>6. Power[1] \in Nat /\ Power[1] >= 1  BY <1>4, <1>5
<1>7. Power[2] \in Nat /\ Power[2] >= 1  BY <1>4, <1>5, <1>6
<1>8. Power[3] \in Nat /\ Power[3] >= 1  BY <1>4, <1>5, <1>7
<1>9. Power[4] \in Nat /\ Power[4] >= 1  BY <1>4, <1>5, <1>8
<1>10. Power \in [0..4 -> Nat]
  <2>1. Power = [n \in 0..4 |-> Power[n]]  BY <1>3 DEF PowerRule
  <2>2. \A n \in 0..4 : Power[n] \in Nat  BY <1>4, <1>6, <1>7, <1>8, <1>9
  <2> QED  BY <2>1, <2>2
<1> QED  BY <1>4, <1>6, <1>7, <1>8, <1>9, <1>10

(* What is left of v after k bytes.                                        *)
LeftRule(f, v, most) ==
    f = [k \in 0..most |-> IF k = 0 THEN v ELSE f[k - 1] \div Wide]

LEMMA LowBytesRead ==
    \A v, most : LowBytes(v, most) =
        LET f == CHOOSE g : LeftRule(g, v, most)
            n == Min({k \in 1..most : k = most \/ f[k] = 0})
        IN  [i \in 1..n |-> f[i - 1] % Wide]
  BY DEF LowBytes, LeftRule

LEMMA LeftAre ==
    ASSUME NEW v \in Nat, NEW most \in 1..4, v < Power[most]
    PROVE  LET f == CHOOSE g : LeftRule(g, v, most)
           IN  /\ f \in [0..most -> Nat] /\ f[0] = v /\ f[most] = 0
               /\ \A k \in 1..most : f[k] = f[k - 1] \div Wide
<1> DEFINE f == CHOOSE g : LeftRule(g, v, most)
           step == [p \in (1..most) \X Nat |-> p[2] \div Wide]
<1>1. Wide \in Nat /\ Wide >= 2  BY DeltaAssumption
<1>2. PICK g \in [0..most -> Nat] : /\ g[0] = v
                                    /\ \A k \in 1..most : g[k] = g[k - 1] \div Wide
  <2>1. \A a \in Nat : a \div Wide \in Nat  BY <1>1
  <2>2. step \in [(1..most) \X Nat -> Nat]  BY <2>1
  <2>3. \A k \in 1..most, a \in Nat : step[<<k, a>>] = a \div Wide  OBVIOUS
  <2> HIDE DEF step
  <2>4. PICK g \in [0..most -> Nat] : Follows(g, most, v, step)
    <3>1. most \in Nat  OBVIOUS
    <3> HIDE DEF f
    <3> QED  BY <2>2, <3>1, Recursion
  <2>5. ASSUME NEW k \in 1..most PROVE g[k] = g[k - 1] \div Wide
    <3>1. g[k - 1] \in Nat  OBVIOUS
    <3> QED  BY <2>3, <2>4, <3>1 DEF Follows
  <2> QED  BY <2>4, <2>5 DEF Follows
<1>3. LeftRule(g, v, most)  BY <1>2 DEF LeftRule
<1>4. LeftRule(f, v, most)  BY <1>3
<1> HIDE DEF f
<1>5. f[0] = v /\ \A k \in 1..most : f[k] = f[k - 1] \div Wide
  BY <1>4 DEF LeftRule
<1> DEFINE good == {k \in 0..most : f[k] \in Nat /\ f[k] < Power[most - k]}
<1>6. 0 \in good  BY <1>5
<1>7. ASSUME NEW k \in 0..(most - 1), k \in good PROVE k + 1 \in good
  <2>1. k + 1 \in 1..most /\ (k + 1) - 1 = k /\ most - k \in 1..4 /\ (most - k) - 1 = most - (k + 1)
    OBVIOUS
  <2>2. f[k + 1] = f[k] \div Wide
    <3>1. f[k + 1] = f[(k + 1) - 1] \div Wide  BY <1>5, <2>1
    <3> QED  BY <2>1, <3>1
  <2>3. Power[most - k] = Wide * Power[most - (k + 1)]
    <3>1. Power[most - k] = Wide * Power[(most - k) - 1]  BY <2>1, PowerIs
    <3> QED  BY <2>1, <3>1
  <2>4. Power[most - (k + 1)] \in Nat
    <3>1. most - (k + 1) \in 0..4  BY <2>1
    <3> QED  BY <3>1, PowerIs
  <2> DEFINE a == f[k]
             m == Power[most - (k + 1)]
  <2>5. a \in Nat /\ m \in Nat /\ a < Wide * m  BY <1>7, <2>3, <2>4
  <2> HIDE DEF a, m
  <2>6. a \div Wide \in Nat /\ a \div Wide < m  BY <1>1, <2>5
  <2> QED  BY <2>1, <2>2, <2>6 DEF a, m
<1>8. 0..most \subseteq good
  <2> HIDE DEF good
  <2>1. \A k \in 0..(most - 1) : k \in good => k + 1 \in good  BY <1>7
  <2> QED  BY <1>6, <2>1, Counting
<1>9. f[most] = 0
  <2>1. most \in good  BY <1>8
  <2>2. f[most] \in Nat /\ f[most] < Power[0]  BY <2>1
  <2> QED  BY <2>2, PowerIs
<1>10. f \in [0..most -> Nat]
  <2>1. f = [k \in 0..most |-> f[k]]  BY <1>4 DEF LeftRule
  <2> QED  BY <1>8, <2>1
<1> QED  BY <1>5, <1>9, <1>10 DEF f

(* The bytes of a number, and zeros where they are left out, make it.      *)
LEMMA LowBytesAre ==
    ASSUME NEW v \in Nat, NEW most \in 1..4, v < Power[most]
    PROVE  \E n \in 1..most, d \in [0..3 -> 0..(Wide - 1)] :
              /\ LowBytes(v, most) \in Seq(0..(Wide - 1)) /\ Len(LowBytes(v, most)) = n
              /\ \A i \in 1..n : LowBytes(v, most)[i] = d[i - 1]
              /\ \A i \in n..3 : d[i] = 0
              /\ v = d[0] + Wide * (d[1] + Wide * (d[2] + Wide * d[3]))
<1> DEFINE f == CHOOSE g : LeftRule(g, v, most)
           S == {k \in 1..most : k = most \/ f[k] = 0}
           n == Min(S)
<1>1. Wide \in Nat /\ Wide >= 2  BY DeltaAssumption
<1>2. /\ f \in [0..most -> Nat] /\ f[0] = v /\ f[most] = 0
      /\ \A k \in 1..most : f[k] = f[k - 1] \div Wide
  BY LeftAre
<1>3. LowBytes(v, most) = [i \in 1..n |-> f[i - 1] % Wide]  BY LowBytesRead
<1> HIDE DEF f
<1>4. n \in S
  <2>1. S \in SUBSET Nat /\ most \in S  OBVIOUS
  <2> HIDE DEF S
  <2> QED  BY <2>1, LeastIs
<1> HIDE DEF n
<1>5. n \in 1..most /\ f[n] = 0  BY <1>2, <1>4
<1> HIDE DEF S
<1> DEFINE q == [k \in 0..4 |-> IF k <= n THEN f[k] ELSE 0]
           d == [k \in 0..3 |-> q[k] % Wide]
<1>6. q[0] = v /\ q[4] = 0 /\ \A k \in 0..4 : q[k] \in Nat  BY <1>2, <1>5
<1>7. \A k \in 0..3 : q[k + 1] = q[k] \div Wide
  <2> TAKE k \in 0..3
  <2>1. 0 \div Wide = 0  BY <1>1
  <2>2. CASE k < n
    <3>1. k + 1 \in 1..most /\ (k + 1) - 1 = k /\ k + 1 <= n  BY <1>5, <2>2
    <3>2. f[k + 1] = f[(k + 1) - 1] \div Wide  BY <1>2, <3>1
    <3>3. k \in 0..4 /\ k + 1 \in 0..4 /\ k <= n  BY <1>5, <2>2
    <3>4. q[k] = f[k] /\ q[k + 1] = f[k + 1]  BY <3>1, <3>3
    <3> HIDE DEF q, d
    <3> QED  BY <3>1, <3>2, <3>4
  <2>3. CASE k = n
    <3>1. q[k] = 0 /\ q[k + 1] = 0  BY <1>5, <2>3
    <3> QED  BY <2>1, <3>1
  <2>4. CASE k > n
    <3>1. q[k] = 0 /\ q[k + 1] = 0  BY <1>5, <2>4
    <3> QED  BY <2>1, <3>1
  <2> QED  BY <1>5, <2>2, <2>3, <2>4
<1>8. \A k \in n..3 : q[k] = 0  BY <1>5
<1>9. \A k \in 0..3 : d[k] = q[k] % Wide  OBVIOUS
<1>10. \A k \in 1..n : q[k - 1] = f[k - 1]  BY <1>5
<1> HIDE DEF q
<1>11. \A k \in 0..3 : d[k] \in 0..(Wide - 1) /\ q[k] = d[k] + Wide * q[k + 1]
  <2> TAKE k \in 0..3
  <2> DEFINE a == q[k]
  <2>1. a \in Nat  BY <1>6
  <2>2. q[k + 1] = a \div Wide /\ d[k] = a % Wide  BY <1>7, <1>9
  <2> HIDE DEF a, d
  <2>3. a % Wide \in 0..(Wide - 1) /\ a = (a \div Wide) * Wide + (a % Wide)
    BY <1>1, <2>1, Divide
  <2>4. a \div Wide \in Nat  BY <1>1, <2>1
  <2>5. a = (a % Wide) + Wide * (a \div Wide)  BY <1>1, <2>3, <2>4
  <2> QED  BY <2>2, <2>3, <2>5 DEF a
<1>12. d \in [0..3 -> 0..(Wide - 1)]  BY <1>11
<1>13. \A i \in n..3 : d[i] = 0
  <2>1. 0 % Wide = 0  BY <1>1
  <2> QED  BY <1>5, <1>8, <2>1
<1>14. /\ LowBytes(v, most) \in Seq(0..(Wide - 1)) /\ Len(LowBytes(v, most)) = n
       /\ \A i \in 1..n : LowBytes(v, most)[i] = d[i - 1]
  <2> DEFINE s == [i \in 1..n |-> f[i - 1] % Wide]
  <2>1. \A i \in 1..n : s[i] = d[i - 1] /\ i - 1 \in 0..3  BY <1>5, <1>10
  <2> HIDE DEF d
  <2>2. \A i \in 1..n : s[i] \in 0..(Wide - 1)  BY <1>11, <2>1
  <2>3. s = [i \in 1..n |-> s[i]]  OBVIOUS
  <2> HIDE DEF s
  <2>4. s \in Seq(0..(Wide - 1)) /\ Len(s) = n
    <3> DEFINE B == 0..(Wide - 1)
    <3>1. \A i \in 1..n : s[i] \in B  BY <2>2
    <3>2. n \in Nat  BY <1>5
    <3> HIDE DEF B
    <3>3. s \in Seq(B) /\ Len(s) = n  BY <2>3, <3>1, <3>2, IsSeq
    <3> QED  BY <3>3 DEF B
  <2> QED  BY <1>3, <2>1, <2>4 DEF s
<1>15. v = d[0] + Wide * (d[1] + Wide * (d[2] + Wide * d[3]))
  <2>1. q[0] = d[0] + Wide * q[1] /\ q[1] = d[1] + Wide * q[2]  BY <1>11
  <2>2. q[2] = d[2] + Wide * q[3]  BY <1>11
  <2>3. q[3] = d[3] + Wide * q[4]  BY <1>11
  <2>4. d[3] \in Nat /\ Wide * 0 = 0  BY <1>1, <1>11
  <2>5. q[3] = d[3]  BY <1>6, <2>3, <2>4
  <2> QED  BY <1>6, <2>1, <2>2, <2>5
<1> HIDE DEF d
<1>16. n \in 1..most  BY <1>5
<1> WITNESS n \in 1..most, d \in [0..3 -> 0..(Wide - 1)]
<1> QED  BY <1>13, <1>14, <1>15

(* The first byte of a copy with a bytes of offset and c bytes of size.    *)
CopyByte(a, c) == More + (2 ^ a - 1) + 16 * (2 ^ c - 1)

LEMMA Bits0 ==
    ASSUME NEW op \in 0..255
    PROVE  /\ Bit(op, 0) <=> op % 2 = 1
           /\ Bit(op, 1) <=> (op \div 2) % 2 = 1
           /\ Bit(op, 2) <=> (op \div 4) % 2 = 1
           /\ Bit(op, 3) <=> (op \div 8) % 2 = 1
           /\ Bit(op, 4) <=> (op \div 16) % 2 = 1
           /\ Bit(op, 5) <=> (op \div 32) % 2 = 1
           /\ Bit(op, 6) <=> (op \div 64) % 2 = 1
  BY DEF Bit

LEMMA CopyBits ==
    ASSUME NEW a \in 1..4, NEW c \in 1..3
    PROVE  /\ CopyByte(a, c) \in 128..255
           /\ \A i \in 0..3 : Bit(CopyByte(a, c), i) <=> i < a
           /\ \A i \in 4..6 : Bit(CopyByte(a, c), i) <=> i - 4 < c
<1> DEFINE op == CopyByte(a, c)
           A == 2 ^ a - 1
           C == 2 ^ c - 1
<1>1. \/ a = 1 /\ A = 1
      \/ a = 2 /\ A = 3
      \/ a = 3 /\ A = 7
      \/ a = 4 /\ A = 15
  <2>1. 2 ^ 1 = 2 /\ 2 ^ 2 = 4 /\ 2 ^ 3 = 8 /\ 2 ^ 4 = 16  OBVIOUS
  <2>2. a = 1 \/ a = 2 \/ a = 3 \/ a = 4  OBVIOUS
  <2>3. CASE a = 1  BY <2>1, <2>3
  <2>4. CASE a = 2  BY <2>1, <2>4
  <2>5. CASE a = 3  BY <2>1, <2>5
  <2>6. CASE a = 4  BY <2>1, <2>6
  <2> QED  BY <2>2, <2>3, <2>4, <2>5, <2>6
<1>2. \/ c = 1 /\ C = 1
      \/ c = 2 /\ C = 3
      \/ c = 3 /\ C = 7
  <2>1. 2 ^ 1 = 2 /\ 2 ^ 2 = 4 /\ 2 ^ 3 = 8  OBVIOUS
  <2>2. c = 1 \/ c = 2 \/ c = 3  OBVIOUS
  <2>3. CASE c = 1  BY <2>1, <2>3
  <2>4. CASE c = 2  BY <2>1, <2>4
  <2>5. CASE c = 3  BY <2>1, <2>5
  <2> QED  BY <2>2, <2>3, <2>4, <2>5
<1>3. op = 128 + A + 16 * C  BY DEF CopyByte, More
<1> HIDE DEF op, A, C
<1>4. op \in 128..255 /\ op \in 0..255  BY <1>1, <1>2, <1>3
<1>5. /\ \A i \in {0, 1, 2, 3} : Bit(op, i) <=> i < a
      /\ \A i \in {4, 5, 6} : Bit(op, i) <=> i - 4 < c
  <2>1. (op % 2 = 1 <=> 0 < a) /\ ((op \div 2) % 2 = 1 <=> 1 < a)
    BY <1>1, <1>2, <1>3
  <2>2. ((op \div 4) % 2 = 1 <=> 2 < a) /\ ((op \div 8) % 2 = 1 <=> 3 < a)
    BY <1>1, <1>2, <1>3
  <2>3. ((op \div 16) % 2 = 1 <=> 0 < c) /\ ((op \div 32) % 2 = 1 <=> 1 < c)
    BY <1>1, <1>2, <1>3
  <2>4. (op \div 64) % 2 = 1 <=> 2 < c
    BY <1>1, <1>2, <1>3
  <2>5. (Bit(op, 0) <=> 0 < a) /\ (Bit(op, 1) <=> 1 < a) /\ (Bit(op, 2) <=> 2 < a)
        /\ (Bit(op, 3) <=> 3 < a)
    BY <1>4, <2>1, <2>2, Bits0
  <2>6. (Bit(op, 4) <=> 0 < c) /\ (Bit(op, 5) <=> 1 < c) /\ (Bit(op, 6) <=> 2 < c)
    BY <1>4, <2>3, <2>4, Bits0
  <2>7. 4 - 4 = 0 /\ 5 - 4 = 1 /\ 6 - 4 = 2  OBVIOUS
  <2> QED  BY <2>5, <2>6, <2>7
<1>6. \A i \in 0..3 : i \in {0, 1, 2, 3}  OBVIOUS
<1>7. \A i \in 4..6 : i \in {4, 5, 6}  OBVIOUS
<1> QED  BY <1>4, <1>5, <1>6, <1>7 DEF op

-----------------------------------------------------------------------------
(* Where the bytes that the bits of op name are.                           *)
PlaceRule(f, op, pos) ==
    f = [i \in 0..7 |-> IF i = 0 THEN pos + 2
                        ELSE f[i - 1] + (IF Bit(op, i - 1) THEN 1 ELSE 0)]

Placing(op, pos) == CHOOSE f : PlaceRule(f, op, pos)

FieldAt(ops, op, place, i) == IF Bit(op, i) THEN ops[place[i]] ELSE 0

OffsetAt(ops, op, place) ==
    FieldAt(ops, op, place, 0) + Wide * (FieldAt(ops, op, place, 1)
        + Wide * (FieldAt(ops, op, place, 2) + Wide * FieldAt(ops, op, place, 3)))

GivenAt(ops, op, place) ==
    FieldAt(ops, op, place, 4)
        + Wide * (FieldAt(ops, op, place, 5) + Wide * FieldAt(ops, op, place, 6))

TurnAt(b, ops, s, op, place) ==
    LET offset == OffsetAt(ops, op, place)
        size == IF GivenAt(ops, op, place) = 0 THEN Power[SizeBytes - 1]
                ELSE GivenAt(ops, op, place)
        end == IF op >= More THEN place[7] - 1 ELSE s.pos + 1 + op
    IN  IF s = Refused \/ s.pos = Len(ops) THEN s
        ELSE IF op = 0 \/ end > Len(ops) \/ (op >= More /\ offset + size > Len(b)) THEN Refused
        ELSE [pos |-> end,
              out |-> s.out \o IF op >= More THEN SubSeq(b, offset + 1, offset + size)
                               ELSE SubSeq(ops, s.pos + 2, end)]

LEMMA TurnIs ==
    \A b, ops, s :
        Turn(b, ops, s) = TurnAt(b, ops, s, ops[s.pos + 1], Placing(ops[s.pos + 1], s.pos))
  BY DEF Turn, TurnAt, Placing, PlaceRule, FieldAt, OffsetAt, GivenAt

LEMMA PlaceIs ==
    ASSUME NEW op, NEW pos \in Nat
    PROVE  /\ Placing(op, pos)[0] = pos + 2
           /\ \A i \in 1..7 : Placing(op, pos)[i]
                 = Placing(op, pos)[i - 1] + (IF Bit(op, i - 1) THEN 1 ELSE 0)
<1> DEFINE step == [p \in (1..7) \X Nat |-> p[2] + (IF Bit(op, p[1] - 1) THEN 1 ELSE 0)]
<1>1. \E f : PlaceRule(f, op, pos)
  <2>1. step \in [(1..7) \X Nat -> Nat]  OBVIOUS
  <2>2. \A k \in 1..7, a \in Nat : step[<<k, a>>] = a + (IF Bit(op, k - 1) THEN 1 ELSE 0)
    OBVIOUS
  <2>3. pos + 2 \in Nat  OBVIOUS
  <2> HIDE DEF step
  <2>4. PICK f \in [0..7 -> Nat] : Follows(f, 7, pos + 2, step)  BY <2>1, <2>3, Recursion
  <2>5. ASSUME NEW k \in 1..7 PROVE f[k] = f[k - 1] + (IF Bit(op, k - 1) THEN 1 ELSE 0)
    <3>1. f[k - 1] \in Nat  OBVIOUS
    <3> QED  BY <2>2, <2>4, <3>1 DEF Follows
  <2>6. PlaceRule(f, op, pos)  BY <2>4, <2>5 DEF Follows, PlaceRule
  <2> QED  BY <2>6
<1>2. PlaceRule(Placing(op, pos), op, pos)  BY <1>1 DEF Placing
<1> QED  BY <1>2 DEF PlaceRule

(* The bytes of a copy are found where they were written.                  *)
LEMMA CopyPlaces ==
    ASSUME NEW a \in 1..4, NEW c \in 1..3, NEW pos \in Nat
    PROVE  LET place == Placing(CopyByte(a, c), pos)
           IN  /\ \A i \in 0..3 : i < a => place[i] = pos + 2 + i
               /\ \A i \in 4..6 : i - 4 < c => place[i] = pos + 2 + a + (i - 4)
               /\ place[7] = pos + 2 + a + c
<1> DEFINE op == CopyByte(a, c)
           place == Placing(op, pos)
           One(i) == IF Bit(op, i) THEN 1 ELSE 0
<1>1. /\ place[0] = pos + 2 /\ place[1] = place[0] + One(0) /\ place[2] = place[1] + One(1)
      /\ place[3] = place[2] + One(2) /\ place[4] = place[3] + One(3)
      /\ place[5] = place[4] + One(4) /\ place[6] = place[5] + One(5)
      /\ place[7] = place[6] + One(6)
  <2> HIDE DEF op
  <2>1. \A i \in 1..7 : place[i] = place[i - 1] + (IF Bit(op, i - 1) THEN 1 ELSE 0)
    BY PlaceIs
  <2>2. place[0] = pos + 2  BY PlaceIs
  <2> HIDE DEF place
  <2> QED  BY <2>1, <2>2
<1>2. /\ One(0) = 1 /\ One(1) = (IF 1 < a THEN 1 ELSE 0) /\ One(2) = (IF 2 < a THEN 1 ELSE 0)
      /\ One(3) = (IF 3 < a THEN 1 ELSE 0)
      /\ One(4) = 1 /\ One(5) = (IF 1 < c THEN 1 ELSE 0) /\ One(6) = (IF 2 < c THEN 1 ELSE 0)
  <2>1. /\ \A i \in 0..3 : Bit(op, i) <=> i < a
        /\ \A i \in 4..6 : Bit(op, i) <=> i - 4 < c
    BY CopyBits
  <2> HIDE DEF op
  <2>2. /\ Bit(op, 0) /\ (Bit(op, 1) <=> 1 < a) /\ (Bit(op, 2) <=> 2 < a)
        /\ (Bit(op, 3) <=> 3 < a) /\ Bit(op, 4) /\ (Bit(op, 5) <=> 1 < c)
        /\ (Bit(op, 6) <=> 2 < c)
    BY <2>1
  <2> QED  BY <2>2
<1> HIDE DEF op, place, One
<1>3. a \in {1, 2, 3, 4} /\ c \in {1, 2, 3}  OBVIOUS
<1>4. /\ place[0] = pos + 2 /\ place[1] = pos + 3
      /\ (1 < a => place[2] = pos + 4) /\ (2 < a => place[3] = pos + 5)
      /\ place[4] = pos + 2 + a
  BY <1>1, <1>2, <1>3
<1>5. /\ place[5] = pos + 3 + a /\ (1 < c => place[6] = pos + 4 + a)
      /\ place[7] = pos + 2 + a + c
  BY <1>1, <1>2, <1>3, <1>4
<1>6. \A i \in 0..3 : i < a => place[i] = pos + 2 + i
  <2>1. \A i \in {0, 1, 2, 3} : i < a => place[i] = pos + 2 + i  BY <1>3, <1>4
  <2>2. \A i \in 0..3 : i \in {0, 1, 2, 3}  OBVIOUS
  <2> QED  BY <2>1, <2>2
<1>7. \A i \in 4..6 : i - 4 < c => place[i] = pos + 2 + a + (i - 4)
  <2>1. \A i \in {4, 5, 6} : i - 4 < c => place[i] = pos + 2 + a + (i - 4)
    BY <1>3, <1>4, <1>5
  <2>2. \A i \in 4..6 : i \in {4, 5, 6}  OBVIOUS
  <2> QED  BY <2>1, <2>2
<1> QED  BY <1>5, <1>6, <1>7 DEF op, place

(* The bytes of d stand in ops after the first pos.                        *)
At(ops, pos, d) ==
    pos + Len(d) <= Len(ops) /\ \A i \in 1..Len(d) : ops[pos + i] = d[i]

Read(pos, out) == [pos |-> pos, out |-> out]

LEMMA ReadIs ==
    ASSUME NEW pos \in Nat, NEW out
    PROVE  Read(pos, out).pos = pos /\ Read(pos, out).out = out /\ Read(pos, out) # Refused
<1>1. Read(pos, out).pos = pos /\ Read(pos, out).out = out  BY DEF Read
<1>2. Refused.pos = -1 /\ pos # -1  BY DEF Refused
<1> QED  BY <1>1, <1>2

LEMMA SubSeqIs ==
    ASSUME NEW S, NEW s \in Seq(S), NEW m \in Nat, NEW n \in Nat, m <= n, n <= Len(s)
    PROVE  /\ SubSeq(s, m + 1, n) \in Seq(S) /\ Len(SubSeq(s, m + 1, n)) = n - m
           /\ \A i \in 1..(n - m) : SubSeq(s, m + 1, n)[i] = s[m + i]
<1> DEFINE t == SubSeq(s, m + 1, n)
<1>1. t = [i \in 1..(n - m) |-> s[m + i]]
  <2>1. t = [i \in 1..(n - (m + 1) + 1) |-> s[i + (m + 1) - 1]]  OBVIOUS
  <2>2. n - (m + 1) + 1 = n - m /\ \A i \in 1..(n - m) : i + (m + 1) - 1 = m + i  OBVIOUS
  <2> HIDE DEF t
  <2> QED  BY <2>1, <2>2
<1>2. \A i \in 1..(n - m) : t[i] = s[m + i] /\ s[m + i] \in S
  <2>1. \A i \in 1..(n - m) : m + i \in 1..Len(s)  BY SeqIs
  <2>2. \A j \in 1..Len(s) : s[j] \in S  BY SeqIs
  <2> HIDE DEF t
  <2> QED  BY <1>1, <2>1, <2>2
<1>3. t = [i \in 1..(n - m) |-> t[i]]  BY <1>1
<1>4. n - m \in Nat  OBVIOUS
<1> HIDE DEF t
<1>5. t \in Seq(S) /\ Len(t) = n - m  BY <1>2, <1>3, <1>4, IsSeq
<1> QED  BY <1>2, <1>5 DEF t

(* I is a copy with a bytes of offset and c of size; what they say is x, y. *)
CopyParts(I, a, c, x, y) ==
    /\ I \in Seq(Nat) /\ Len(I) = 1 + a + c
    /\ I[1] = CopyByte(a, c)
    /\ \A i \in 0..3 : i < a => I[2 + i] = x[i]
    /\ \A i \in 0..3 : i >= a => x[i] = 0
    /\ \A i \in 0..2 : i < c => I[2 + a + i] = y[i]
    /\ \A i \in 0..2 : i >= c => y[i] = 0

ThreeIn(I, x, o, s) ==
    /\ I \in Seq(Nat) /\ Len(I) = 1 + Len(o) + Len(s) /\ I[1] = x
    /\ \A i \in 1..Len(o) : I[1 + i] = o[i]
    /\ \A i \in 1..Len(s) : I[1 + Len(o) + i] = s[i]

LEMMA ThreeParts ==
    ASSUME NEW x \in Nat, NEW o \in Seq(Nat), NEW s \in Seq(Nat),
           NEW I, I = <<x>> \o o \o s
    PROVE  ThreeIn(I, x, o, s)
<1> DEFINE h == <<x>> \o o
<1>1. Len(o) \in Nat /\ Len(s) \in Nat  OBVIOUS
<1>2. /\ h \in Seq(Nat) /\ Len(h) = 1 + Len(o) /\ h[1] = x
      /\ \A i \in 1..Len(o) : h[1 + i] = o[i]
  BY ConsIs
<1>0. I = h \o s  OBVIOUS
<1> HIDE DEF h
<1>3. /\ I \in Seq(Nat) /\ Len(I) = Len(h) + Len(s)
      /\ \A i \in 1..Len(h) : I[i] = h[i]
      /\ \A i \in 1..Len(s) : I[Len(h) + i] = s[i]
  <2>1. h \in Seq(Nat)  BY <1>2
  <2>2. /\ h \o s \in Seq(Nat) /\ Len(h \o s) = Len(h) + Len(s)
        /\ \A i \in 1..Len(h) : (h \o s)[i] = h[i]
        /\ \A i \in 1..Len(s) : (h \o s)[Len(h) + i] = s[i]
    BY <2>1, ConcatIs
  <2> QED  BY <1>0, <2>2
<1>4. Len(I) = 1 + Len(o) + Len(s)  BY <1>1, <1>2, <1>3
<1>5. I[1] = x
  <2>1. 1 \in 1..Len(h)  BY <1>1, <1>2
  <2> QED  BY <1>2, <1>3, <2>1
<1>6. \A i \in 1..Len(o) : I[1 + i] = o[i]
  <2>1. \A i \in 1..Len(o) : 1 + i \in 1..Len(h)  BY <1>1, <1>2
  <2> QED  BY <1>2, <1>3, <2>1
<1>7. \A i \in 1..Len(s) : I[1 + Len(o) + i] = s[i]  BY <1>2, <1>3
<1> QED  BY <1>3, <1>4, <1>5, <1>6, <1>7 DEF ThreeIn

(* One instruction, its parts.                                             *)
LEMMA CopyOpIs ==
    ASSUME NEW offset \in Nat, NEW size \in Nat,
           offset < Power[OffsetBytes], size < Power[SizeBytes]
    PROVE  \E a \in 1..4, c \in 1..3, x \in [0..3 -> Nat], y \in [0..3 -> Nat] :
             /\ CopyParts(CopyOpOnce(offset, size), a, c, x, y)
             /\ offset = x[0] + Wide * (x[1] + Wide * (x[2] + Wide * x[3]))
             /\ size = y[0] + Wide * (y[1] + Wide * y[2])
<1> DEFINE o == LowBytes(offset, OffsetBytes)
           s == LowBytes(size, SizeBytes)
           I == CopyOpOnce(offset, size)
<1>1. Wide \in Nat /\ OffsetBytes \in 1..4 /\ SizeBytes \in 1..3 /\ SizeBytes \in 1..4
  BY DeltaAssumption
<1>2. \A k : k \in 0..(Wide - 1) => k \in Nat  BY <1>1
<1>3. PICK a \in 1..OffsetBytes, x \in [0..3 -> 0..(Wide - 1)] :
          /\ o \in Seq(0..(Wide - 1)) /\ Len(o) = a
          /\ \A i \in 1..a : o[i] = x[i - 1]
          /\ \A i \in a..3 : x[i] = 0
          /\ offset = x[0] + Wide * (x[1] + Wide * (x[2] + Wide * x[3]))
  BY <1>1, LowBytesAre
<1>4. PICK c \in 1..SizeBytes, y \in [0..3 -> 0..(Wide - 1)] :
          /\ s \in Seq(0..(Wide - 1)) /\ Len(s) = c
          /\ \A i \in 1..c : s[i] = y[i - 1]
          /\ \A i \in c..3 : y[i] = 0
          /\ size = y[0] + Wide * (y[1] + Wide * (y[2] + Wide * y[3]))
  BY <1>1, LowBytesAre
<1>5. I = <<CopyByte(a, c)>> \o o \o s
  BY <1>3, <1>4 DEF CopyOpOnce, CopyByte
<1> HIDE DEF o, s, I
<1>6. a \in 1..4 /\ c \in 1..3 /\ x \in [0..3 -> Nat] /\ y \in [0..3 -> Nat]
  BY <1>1, <1>2
<1>7. o \in Seq(Nat) /\ s \in Seq(Nat)
  <2>1. 0..(Wide - 1) \subseteq Nat  BY <1>2
  <2> QED  BY <1>3, <1>4, <2>1, WiderSeq
<1>8. CopyByte(a, c) \in Nat
  <2>1. CopyByte(a, c) \in 128..255  BY <1>6, CopyBits
  <2> QED  BY <2>1
<1>9. /\ I \in Seq(Nat) /\ Len(I) = 1 + Len(o) + Len(s) /\ I[1] = CopyByte(a, c)
      /\ \A i \in 1..Len(o) : I[1 + i] = o[i]
      /\ \A i \in 1..Len(s) : I[1 + Len(o) + i] = s[i]
  <2> DEFINE op == CopyByte(a, c)
  <2>1. op \in Nat /\ o \in Seq(Nat) /\ s \in Seq(Nat) /\ I = <<op>> \o o \o s
    BY <1>5, <1>7, <1>8
  <2> HIDE DEF op
  <2>2. ThreeIn(I, op, o, s)  BY <2>1, ThreeParts
  <2> QED  BY <2>2 DEF op, ThreeIn
<1>10. /\ I \in Seq(Nat) /\ Len(I) = 1 + a + c
       /\ \A i \in 1..a : I[1 + i] = o[i]
       /\ \A i \in 1..c : I[1 + a + i] = s[i]
  <2>1. Len(o) = a /\ Len(s) = c  BY <1>3, <1>4
  <2> QED  BY <1>9, <2>1
<1>11. I[1] = CopyByte(a, c)  BY <1>9
<1>12. \A i \in 0..3 : i < a => I[2 + i] = x[i]
  <2> SUFFICES ASSUME NEW i \in 0..3, i < a PROVE I[2 + i] = x[i]  OBVIOUS
  <2>1. 1 + i \in 1..a /\ 1 + (1 + i) = 2 + i /\ (1 + i) - 1 = i  BY <1>6
  <2>2. I[1 + (1 + i)] = o[1 + i]  BY <1>10, <2>1
  <2>3. o[1 + i] = x[(1 + i) - 1]  BY <1>3, <2>1
  <2> QED  BY <2>1, <2>2, <2>3
<1>13. \A i \in 0..2 : i < c => I[2 + a + i] = y[i]
  <2> SUFFICES ASSUME NEW i \in 0..2, i < c PROVE I[2 + a + i] = y[i]  OBVIOUS
  <2>1. 1 + i \in 1..c /\ 1 + a + (1 + i) = 2 + a + i /\ (1 + i) - 1 = i
    BY <1>6
  <2>2. I[1 + a + (1 + i)] = s[1 + i]  BY <1>10, <2>1
  <2>3. s[1 + i] = y[(1 + i) - 1]  BY <1>4, <2>1
  <2> QED  BY <2>1, <2>2, <2>3
<1>14. \A i \in 0..3 : i >= a => x[i] = 0
  <2>1. \A i \in 0..3 : i >= a => i \in a..3  BY <1>6
  <2> QED  BY <1>3, <2>1
<1>15. /\ \A i \in 0..2 : i >= c => y[i] = 0
       /\ size = y[0] + Wide * (y[1] + Wide * y[2])
  <2>1. \A i \in 0..3 : i >= c => i \in c..3  BY <1>6
  <2>2. \A i \in 0..3 : i >= c => y[i] = 0  BY <1>4, <2>1
  <2>3. y[3] = 0  BY <1>6, <2>2
  <2>4. y[2] \in Nat /\ Wide * 0 = 0  BY <1>1, <1>6
  <2>5. y[2] + Wide * y[3] = y[2]  BY <2>3, <2>4
  <2> QED  BY <1>4, <2>2, <2>5
<1> QED
  <2>1. CopyParts(I, a, c, x, y)
    <3>1. \A i \in 0..2 : i >= c => y[i] = 0  BY <1>15
    <3> QED  BY <1>10, <1>11, <1>12, <1>13, <1>14, <3>1 DEF CopyParts
  <2>2. offset = x[0] + Wide * (x[1] + Wide * (x[2] + Wide * x[3]))  BY <1>3
  <2>3. size = y[0] + Wide * (y[1] + Wide * y[2])  BY <1>15
  <2> QED  BY <1>6, <2>1, <2>2, <2>3 DEF I

(* The fields of a copy are read back.                                     *)
LEMMA CopyFields ==
    ASSUME NEW ops \in Seq(Nat), NEW pos \in Nat, NEW a \in 1..4, NEW c \in 1..3,
           NEW x, NEW y, NEW I, CopyParts(I, a, c, x, y), At(ops, pos, I)
    PROVE  LET op == CopyByte(a, c)
               place == Placing(op, pos)
           IN  /\ ops[pos + 1] = op /\ op >= More /\ op # 0
               /\ \A i \in 0..3 : FieldAt(ops, op, place, i) = x[i]
               /\ \A i \in 0..2 : FieldAt(ops, op, place, 4 + i) = y[i]
               /\ place[7] - 1 = pos + Len(I) /\ ~ (place[7] - 1 > Len(ops))
               /\ pos # Len(ops)
<1>0. /\ I \in Seq(Nat) /\ Len(I) = 1 + a + c
      /\ I[1] = CopyByte(a, c)
      /\ \A i \in 0..3 : i < a => I[2 + i] = x[i]
      /\ \A i \in 0..3 : i >= a => x[i] = 0
      /\ \A i \in 0..2 : i < c => I[2 + a + i] = y[i]
      /\ \A i \in 0..2 : i >= c => y[i] = 0
  BY DEF CopyParts
<1>1. pos + Len(I) <= Len(ops) /\ \A i \in 1..Len(I) : ops[pos + i] = I[i]  BY DEF At
<1>2. Len(ops) \in Nat  OBVIOUS
<1> DEFINE op == CopyByte(a, c)
           place == Placing(op, pos)
<1>3. ops[pos + 1] = op
  <2>1. 1 \in 1..Len(I)  BY <1>0
  <2> QED  BY <1>0, <1>1, <2>1
<1>4. /\ op \in 128..255
      /\ \A i \in 0..3 : Bit(op, i) <=> i < a
      /\ \A i \in 4..6 : Bit(op, i) <=> i - 4 < c
  BY CopyBits
<1>5. /\ \A i \in 0..3 : i < a => place[i] = pos + 2 + i
      /\ \A i \in 4..6 : i - 4 < c => place[i] = pos + 2 + a + (i - 4)
      /\ place[7] = pos + 2 + a + c
  BY CopyPlaces
<1> HIDE DEF op, place
<1>6. \A i \in 0..3 : FieldAt(ops, op, place, i) = x[i]
  <2> TAKE i \in 0..3
  <2>1. CASE i < a
    <3>1. 2 + i \in 1..Len(I) /\ pos + (2 + i) = pos + 2 + i  BY <1>0, <2>1
    <3>2. ops[pos + (2 + i)] = I[2 + i]  BY <1>1, <3>1
    <3>3. ops[place[i]] = x[i]  BY <1>0, <1>5, <2>1, <3>1, <3>2
    <3> QED  BY <1>4, <2>1, <3>3 DEF FieldAt
  <2>2. CASE i >= a
    <3>1. ~ (i < a)  BY <2>2
    <3>2. ~ Bit(op, i)  BY <1>4, <3>1
    <3> QED  BY <1>0, <2>2, <3>2 DEF FieldAt
  <2> QED  BY <2>1, <2>2
<1>7. \A i \in 0..2 : FieldAt(ops, op, place, 4 + i) = y[i]
  <2> TAKE i \in 0..2
  <2>0. 4 + i \in 4..6 /\ (4 + i) - 4 = i  OBVIOUS
  <2>1. CASE i < c
    <3>1. 2 + a + i \in 1..Len(I) /\ pos + (2 + a + i) = pos + 2 + a + i  BY <1>0, <2>1
    <3>2. ops[pos + (2 + a + i)] = I[2 + a + i]  BY <1>1, <3>1
    <3>3. place[4 + i] = pos + 2 + a + ((4 + i) - 4)  BY <1>5, <2>0, <2>1
    <3>4. ops[place[4 + i]] = y[i]  BY <1>0, <2>0, <2>1, <3>1, <3>2, <3>3
    <3>5. Bit(op, 4 + i)  BY <1>4, <2>0, <2>1
    <3> QED  BY <3>4, <3>5 DEF FieldAt
  <2>2. CASE i >= c
    <3>1. ~ ((4 + i) - 4 < c)  BY <2>0, <2>2
    <3>2. ~ Bit(op, 4 + i)  BY <1>4, <2>0, <3>1
    <3> QED  BY <1>0, <2>2, <3>2 DEF FieldAt
  <2> QED  BY <2>1, <2>2
<1>8. op >= More /\ op # 0  BY <1>4 DEF More
<1>9. place[7] - 1 = pos + Len(I) /\ ~ (place[7] - 1 > Len(ops)) /\ pos # Len(ops)
  <2>1. place[7] = pos + 2 + a + c  BY <1>5
  <2>2. pos + Len(I) <= Len(ops)  BY <1>1
  <2> QED  BY <1>0, <1>2, <2>1, <2>2
<1> QED  BY <1>3, <1>6, <1>7, <1>8, <1>9 DEF op, place

(* A copy instruction is replayed as it was meant.                         *)
LEMMA TurnCopy ==
    ASSUME NEW b \in Seq(Nat), NEW ops \in Seq(Nat), NEW pos \in Nat, NEW out \in Seq(Nat),
           NEW offset \in Nat, NEW size \in Nat,
           offset < Power[OffsetBytes], size >= 1, size < Power[SizeBytes],
           offset + size <= Len(b), At(ops, pos, CopyOpOnce(offset, size))
    PROVE  Turn(b, ops, Read(pos, out))
             = Read(pos + Len(CopyOpOnce(offset, size)),
                    out \o SubSeq(b, offset + 1, offset + size))
<1> DEFINE I == CopyOpOnce(offset, size)
<1>1. PICK a \in 1..4, c \in 1..3, x \in [0..3 -> Nat], y \in [0..3 -> Nat] :
         /\ CopyParts(I, a, c, x, y)
         /\ offset = x[0] + Wide * (x[1] + Wide * (x[2] + Wide * x[3]))
         /\ size = y[0] + Wide * (y[1] + Wide * y[2])
  BY CopyOpIs
<1> DEFINE op == CopyByte(a, c)
           place == Placing(op, pos)
<1>2. /\ ops[pos + 1] = op /\ op >= More /\ op # 0
      /\ \A i \in 0..3 : FieldAt(ops, op, place, i) = x[i]
      /\ \A i \in 0..2 : FieldAt(ops, op, place, 4 + i) = y[i]
      /\ place[7] - 1 = pos + Len(I) /\ ~ (place[7] - 1 > Len(ops))
      /\ pos # Len(ops)
  <2>1. At(ops, pos, I) /\ CopyParts(I, a, c, x, y)  BY <1>1
  <2> HIDE DEF I
  <2> QED  BY <2>1, CopyFields
<1> HIDE DEF op, place, I
<1>3. OffsetAt(ops, op, place) = offset
  <2>1. /\ FieldAt(ops, op, place, 0) = x[0] /\ FieldAt(ops, op, place, 1) = x[1]
        /\ FieldAt(ops, op, place, 2) = x[2] /\ FieldAt(ops, op, place, 3) = x[3]
    BY <1>2
  <2> QED  BY <1>1, <2>1 DEF OffsetAt
<1>4. GivenAt(ops, op, place) = size
  <2>1. /\ FieldAt(ops, op, place, 4 + 0) = y[0] /\ FieldAt(ops, op, place, 4 + 1) = y[1]
        /\ FieldAt(ops, op, place, 4 + 2) = y[2]
    BY <1>2
  <2>2. 4 + 0 = 4 /\ 4 + 1 = 5 /\ 4 + 2 = 6  OBVIOUS
  <2>3. /\ FieldAt(ops, op, place, 4) = y[0] /\ FieldAt(ops, op, place, 5) = y[1]
        /\ FieldAt(ops, op, place, 6) = y[2]
    BY <2>1, <2>2
  <2> QED  BY <1>1, <2>3 DEF GivenAt
<1>5. ~ (offset + size > Len(b)) /\ size # 0
  <2>1. Len(b) \in Nat  OBVIOUS
  <2> QED  BY <2>1
<1> DEFINE s == Read(pos, out)
<1>6. s.pos = pos /\ s.out = out /\ s # Refused  BY ReadIs
<1> HIDE DEF s
<1>7. TurnAt(b, ops, s, op, place)
         = [pos |-> pos + Len(I), out |-> out \o SubSeq(b, offset + 1, offset + size)]
  BY <1>2, <1>3, <1>4, <1>5, <1>6 DEF TurnAt
<1>8. Turn(b, ops, s) = TurnAt(b, ops, s, op, place)
  BY <1>2, <1>6, TurnIs DEF place
<1> QED  BY <1>7, <1>8 DEF I, s, Read

(* An insert instruction is replayed as it was meant.                      *)
LEMMA TurnInsert ==
    ASSUME NEW b \in Seq(Nat), NEW ops \in Seq(Nat), NEW pos \in Nat, NEW out \in Seq(Nat),
           NEW data \in Seq(Nat), Len(data) \in 1..127,
           At(ops, pos, <<Len(data)>> \o data)
    PROVE  Turn(b, ops, Read(pos, out)) = Read(pos + 1 + Len(data), out \o data)
<1> DEFINE n == Len(data)
           I == <<n>> \o data
<1>1. n \in Nat /\ n \in 1..127  OBVIOUS
<1>2. I \in Seq(Nat) /\ Len(I) = 1 + n /\ I[1] = n /\ \A i \in 1..n : I[1 + i] = data[i]
  BY <1>1, ConsIs
<1>3. pos + Len(I) <= Len(ops) /\ \A i \in 1..Len(I) : ops[pos + i] = I[i]  BY DEF At
<1>4. Len(ops) \in Nat  OBVIOUS
<1> HIDE DEF n, I
<1>5. ops[pos + 1] = n
  <2>1. 1 \in 1..Len(I)  BY <1>1, <1>2
  <2> QED  BY <1>2, <1>3, <2>1
<1>6. ~ (n >= More) /\ n # 0 /\ ~ (pos + 1 + n > Len(ops)) /\ pos # Len(ops)
  <2>1. pos + Len(I) <= Len(ops) /\ Len(I) = 1 + n  BY <1>2, <1>3
  <2> QED  BY <1>1, <1>4, <2>1 DEF More
<1> DEFINE part == SubSeq(ops, pos + 2, pos + 1 + n)
<1>7. part = data
  <2> DEFINE m == pos + 1
             e == pos + 1 + n
  <2>1. m \in Nat /\ e \in Nat /\ m <= e /\ e <= Len(ops) /\ e - m = n /\ m + 1 = pos + 2
    BY <1>1, <1>2, <1>3, <1>4
  <2>2. part = SubSeq(ops, m + 1, e)  BY <2>1
  <2> HIDE DEF part, m, e
  <2>3. /\ part \in Seq(Nat) /\ Len(part) = n
        /\ \A i \in 1..n : part[i] = ops[m + i]
    <3>1. /\ SubSeq(ops, m + 1, e) \in Seq(Nat) /\ Len(SubSeq(ops, m + 1, e)) = e - m
          /\ \A i \in 1..(e - m) : SubSeq(ops, m + 1, e)[i] = ops[m + i]
      BY <2>1, SubSeqIs
    <3> QED  BY <2>1, <2>2, <3>1
  <2>4. ASSUME NEW i \in 1..n PROVE part[i] = data[i]
    <3>1. 1 + i \in 1..Len(I) /\ pos + (1 + i) = (pos + 1) + i  BY <1>1, <1>2
    <3>2. ops[pos + (1 + i)] = I[1 + i]  BY <1>3, <3>1
    <3> QED  BY <1>2, <2>3, <3>1, <3>2 DEF m
  <2> QED  BY <2>3, <2>4, SameSeq DEF n
<1> DEFINE s == Read(pos, out)
           place == Placing(n, pos)
<1>8. s.pos = pos /\ s.out = out /\ s # Refused  BY ReadIs
<1> HIDE DEF s, place
<1>9. TurnAt(b, ops, s, n, place) = [pos |-> pos + 1 + n, out |-> out \o part]
  BY <1>6, <1>8 DEF TurnAt
<1>10. Turn(b, ops, s) = TurnAt(b, ops, s, n, place)
  BY <1>5, <1>8, TurnIs DEF place
<1> HIDE DEF part
<1> QED  BY <1>7, <1>9, <1>10 DEF n, s, Read

(* The states after the turns of ops.                                      *)
AfterRule(f, b, ops, n) ==
    f = [k \in 0..n |-> IF k = 0 THEN Read(0, <<>>) ELSE Turn(b, ops, f[k - 1])]

After(b, ops) == CHOOSE f : AfterRule(f, b, ops, Len(ops))

LEMMA ReplayRead ==
    \A b, ops : Replay(b, ops) = After(b, ops)[Len(ops)]
  BY DEF Replay, After, AfterRule, Read

LEMMA AfterIs ==
    ASSUME NEW b, NEW ops \in Seq(Nat)
    PROVE  /\ After(b, ops)[0] = Read(0, <<>>)
           /\ \A k \in 1..Len(ops) : After(b, ops)[k] = Turn(b, ops, After(b, ops)[k - 1])
<1> DEFINE n == Len(ops)
           able == {k \in 0..n : \E f : AfterRule(f, b, ops, k)}
<1>1. n \in Nat  OBVIOUS
<1> HIDE DEF n
<1>2. 0 \in able
  <2> DEFINE f == [k \in 0..0 |-> Read(0, <<>>)]
  <2>1. f = [k \in 0..0 |-> IF k = 0 THEN Read(0, <<>>) ELSE Turn(b, ops, f[k - 1])]
    OBVIOUS
  <2>2. AfterRule(f, b, ops, 0)  BY <2>1 DEF AfterRule
  <2> QED  BY <1>1, <2>2
<1>3. ASSUME NEW k \in 0..(n - 1), k \in able PROVE k + 1 \in able
  <2>1. PICK f : AfterRule(f, b, ops, k)  BY <1>3
  <2> DEFINE g == [i \in 0..(k + 1) |-> IF i <= k THEN f[i] ELSE Turn(b, ops, f[k])]
  <2>2. \A i \in 0..k : f[i] = IF i = 0 THEN Read(0, <<>>) ELSE Turn(b, ops, f[i - 1])
    BY <2>1 DEF AfterRule
  <2>3. ASSUME NEW i \in 0..(k + 1)
        PROVE  g[i] = IF i = 0 THEN Read(0, <<>>) ELSE Turn(b, ops, g[i - 1])
    <3>1. CASE i = 0
      <4>1. g[i] = f[0] /\ 0 \in 0..k  BY <1>1, <3>1
      <4> HIDE DEF g
      <4> QED  BY <2>2, <3>1, <4>1
    <3>2. CASE i # 0 /\ i <= k
      <4>1. i - 1 \in 0..(k + 1) /\ i - 1 <= k /\ i \in 0..k  BY <1>1, <3>2
      <4>2. g[i] = f[i] /\ g[i - 1] = f[i - 1]  BY <3>2, <4>1
      <4> HIDE DEF g
      <4> QED  BY <2>2, <3>2, <4>1, <4>2
    <3>3. CASE i = k + 1
      <4>1. i - 1 = k /\ k \in 0..(k + 1) /\ ~ (i <= k) /\ k <= k /\ i # 0  BY <1>1, <3>3
      <4>2. g[i] = Turn(b, ops, f[k]) /\ g[k] = f[k]  BY <4>1
      <4> HIDE DEF g
      <4> QED  BY <4>1, <4>2
    <3> QED  BY <1>1, <3>1, <3>2, <3>3
  <2>4. AfterRule(g, b, ops, k + 1)
    <3>1. g = [i \in 0..(k + 1) |-> g[i]]  OBVIOUS
    <3> HIDE DEF g
    <3> QED  BY <2>3, <3>1 DEF AfterRule
  <2>5. k + 1 \in 0..n  BY <1>1
  <2> QED  BY <2>4, <2>5
<1>4. n \in able
  <2> HIDE DEF able
  <2>1. \A k \in 0..(n - 1) : k \in able => k + 1 \in able  BY <1>3
  <2>2. 0..n \subseteq able  BY <1>1, <1>2, <2>1, Counting
  <2> QED  BY <1>1, <2>2
<1>5. AfterRule(After(b, ops), b, ops, n)  BY <1>4 DEF After, n
<1> DEFINE f == After(b, ops)
<1>6. f = [k \in 0..n |-> IF k = 0 THEN Read(0, <<>>) ELSE Turn(b, ops, f[k - 1])]
  BY <1>5 DEF AfterRule
<1> HIDE DEF f
<1>7. f[0] = Read(0, <<>>)  BY <1>1, <1>6
<1>8. \A k \in 1..n : f[k] = Turn(b, ops, f[k - 1])
  <2>1. \A k \in 1..n : k \in 0..n /\ k # 0  BY <1>1
  <2> QED  BY <1>6, <2>1
<1> QED  BY <1>7, <1>8 DEF f, n

(* Wherever d stands in ops and its turn comes, reading it adds t.         *)
Yields(b, d, t) ==
    /\ d \in Seq(Nat) /\ t \in Seq(Nat)
    /\ \A ops, out \in Seq(Nat), pos \in Nat : \A n \in 0..pos :
          At(ops, pos, d) /\ After(b, ops)[n] = Read(pos, out)
            => \E m \in 0..(pos + Len(d)) : After(b, ops)[m] = Read(pos + Len(d), out \o t)

LEMMA ConcatNone ==
    ASSUME NEW s \in Seq(Nat)
    PROVE  s \o <<>> = s /\ <<>> \o s = s
<1>1. <<>> \in Seq(Nat) /\ Len(<<>>) = 0  OBVIOUS
<1>2. Len(s) \in Nat  OBVIOUS
<1>3. /\ s \o <<>> \in Seq(Nat) /\ Len(s \o <<>>) = Len(s) + Len(<<>>)
      /\ \A i \in 1..Len(s) : (s \o <<>>)[i] = s[i]
  BY <1>1, ConcatIs
<1>4. /\ <<>> \o s \in Seq(Nat) /\ Len(<<>> \o s) = Len(<<>>) + Len(s)
      /\ \A i \in 1..Len(s) : (<<>> \o s)[Len(<<>>) + i] = s[i]
  BY <1>1, ConcatIs
<1>5. Len(s \o <<>>) = Len(s) /\ Len(<<>> \o s) = Len(s)  BY <1>1, <1>2, <1>3, <1>4
<1>6. \A i \in 1..Len(s) : (<<>> \o s)[i] = s[i]
  <2>1. \A i \in 1..Len(s) : Len(<<>>) + i = i  BY <1>1
  <2> QED  BY <1>4, <2>1
<1>7. s \o <<>> = s  BY <1>3, <1>5, SameSeq
<1>8. <<>> \o s = s  BY <1>4, <1>5, <1>6, SameSeq
<1> QED  BY <1>7, <1>8

LEMMA YieldsNone ==
    ASSUME NEW b
    PROVE  Yields(b, <<>>, <<>>)
<1> SUFFICES ASSUME NEW ops \in Seq(Nat), NEW out \in Seq(Nat), NEW pos \in Nat, NEW n \in 0..pos,
                    After(b, ops)[n] = Read(pos, out)
             PROVE  \E m \in 0..(pos + Len(<<>>)) :
                       After(b, ops)[m] = Read(pos + Len(<<>>), out \o <<>>)
  BY DEF Yields
<1>1. Len(<<>>) = 0 /\ pos + 0 = pos  OBVIOUS
<1>2. out \o <<>> = out  BY ConcatNone
<1> QED  BY <1>1, <1>2

(* What one turn yields.                                                   *)
LEMMA YieldsTurn ==
    ASSUME NEW b, NEW d \in Seq(Nat), NEW t \in Seq(Nat), Len(d) >= 1,
           \A ops, out \in Seq(Nat), pos \in Nat :
              At(ops, pos, d) => Turn(b, ops, Read(pos, out)) = Read(pos + Len(d), out \o t)
    PROVE  Yields(b, d, t)
<1> SUFFICES ASSUME NEW ops \in Seq(Nat), NEW out \in Seq(Nat), NEW pos \in Nat, NEW n \in 0..pos,
                    At(ops, pos, d), After(b, ops)[n] = Read(pos, out)
             PROVE  \E m \in 0..(pos + Len(d)) :
                       After(b, ops)[m] = Read(pos + Len(d), out \o t)
  BY DEF Yields
<1>1. Len(d) \in Nat /\ Len(ops) \in Nat  OBVIOUS
<1>2. pos + Len(d) <= Len(ops)  BY DEF At
<1>3. n + 1 \in 1..Len(ops) /\ (n + 1) - 1 = n /\ n + 1 \in 0..(pos + Len(d))
  BY <1>1, <1>2
<1>4. After(b, ops)[n + 1] = Turn(b, ops, After(b, ops)[(n + 1) - 1])  BY <1>3, AfterIs
<1>5. After(b, ops)[n + 1] = Turn(b, ops, Read(pos, out))  BY <1>3, <1>4
<1> QED  BY <1>3, <1>5

LEMMA CopyHasLength ==
    ASSUME NEW a \in 1..4, NEW c \in 1..3, NEW x, NEW y, NEW I, CopyParts(I, a, c, x, y)
    PROVE  I \in Seq(Nat) /\ Len(I) >= 1
<1>1. I \in Seq(Nat) /\ Len(I) = 1 + a + c  BY DEF CopyParts
<1> QED  BY <1>1

LEMMA YieldsCopy ==
    ASSUME NEW b \in Seq(Nat), NEW offset \in Nat, NEW size \in Nat,
           offset < Power[OffsetBytes], size >= 1, size < Power[SizeBytes],
           offset + size <= Len(b)
    PROVE  Yields(b, CopyOpOnce(offset, size), SubSeq(b, offset + 1, offset + size))
<1> DEFINE d == CopyOpOnce(offset, size)
           t == SubSeq(b, offset + 1, offset + size)
<1>1. d \in Seq(Nat) /\ Len(d) >= 1
  <2>1. PICK a \in 1..4, c \in 1..3, x \in [0..3 -> Nat], y \in [0..3 -> Nat] :
          CopyParts(d, a, c, x, y)
    BY CopyOpIs
  <2> HIDE DEF d
  <2> QED  BY <2>1, CopyHasLength
<1>2. t \in Seq(Nat)
  <2>1. offset + size \in Nat /\ offset <= offset + size  OBVIOUS
  <2> QED  BY <2>1, SubSeqIs
<1>3. \A ops, out \in Seq(Nat), pos \in Nat :
         At(ops, pos, d) => Turn(b, ops, Read(pos, out)) = Read(pos + Len(d), out \o t)
  BY TurnCopy
<1> HIDE DEF d, t
<1>4. Yields(b, d, t)  BY <1>1, <1>2, <1>3, YieldsTurn
<1> QED  BY <1>4 DEF d, t

LEMMA YieldsInsert ==
    ASSUME NEW b \in Seq(Nat), NEW data \in Seq(Nat), Len(data) \in 1..127
    PROVE  Yields(b, <<Len(data)>> \o data, data)
<1> DEFINE n == Len(data)
           d == <<n>> \o data
<1>1. n \in Nat  OBVIOUS
<1>2. d \in Seq(Nat) /\ Len(d) = 1 + n  BY <1>1, ConsIs
<1>3. ASSUME NEW ops \in Seq(Nat), NEW out \in Seq(Nat), NEW pos \in Nat, At(ops, pos, d)
      PROVE  Turn(b, ops, Read(pos, out)) = Read(pos + Len(d), out \o data)
  <2>1. Turn(b, ops, Read(pos, out)) = Read(pos + 1 + n, out \o data)  BY <1>3, TurnInsert
  <2>2. pos + 1 + n = pos + Len(d)  BY <1>1, <1>2
  <2> QED  BY <2>1, <2>2
<1> HIDE DEF n, d
<1>4. Len(d) >= 1  BY <1>1, <1>2
<1>5. Yields(b, d, data)  BY <1>2, <1>3, <1>4, YieldsTurn
<1> QED  BY <1>5 DEF d, n

(* One after the other.                                                    *)
LEMMA YieldsBoth ==
    ASSUME NEW b, NEW d, NEW t, NEW e, NEW u, Yields(b, d, t), Yields(b, e, u)
    PROVE  Yields(b, d \o e, t \o u)
<1>1. d \in Seq(Nat) /\ t \in Seq(Nat) /\ e \in Seq(Nat) /\ u \in Seq(Nat)  BY DEF Yields
<1> DEFINE x == Len(d)
           y == Len(e)
<1>2. x \in Nat /\ y \in Nat  BY <1>1
<1>3. /\ d \o e \in Seq(Nat) /\ Len(d \o e) = x + y
      /\ \A i \in 1..x : (d \o e)[i] = d[i]
      /\ \A i \in 1..y : (d \o e)[x + i] = e[i]
  BY <1>1, ConcatIs
<1>4. t \o u \in Seq(Nat)  BY <1>1, ConcatIs
<1> HIDE DEF x, y
<1> SUFFICES ASSUME NEW ops \in Seq(Nat), NEW out \in Seq(Nat), NEW pos \in Nat, NEW n \in 0..pos,
                    At(ops, pos, d \o e), After(b, ops)[n] = Read(pos, out)
             PROVE  \E m \in 0..(pos + Len(d \o e)) :
                       After(b, ops)[m] = Read(pos + Len(d \o e), out \o (t \o u))
  BY <1>3, <1>4 DEF Yields
<1>5. Len(ops) \in Nat  OBVIOUS
<1>6. /\ pos + (x + y) <= Len(ops)
      /\ \A i \in 1..(x + y) : ops[pos + i] = (d \o e)[i]
  BY <1>3 DEF At
<1>7. At(ops, pos, d)
  <2>1. pos + x <= Len(ops)  BY <1>2, <1>5, <1>6
  <2>2. \A i \in 1..x : i \in 1..(x + y)  BY <1>2
  <2> QED  BY <1>3, <1>6, <2>1, <2>2 DEF At, x
<1>8. At(ops, pos + x, e)
  <2>1. (pos + x) + y <= Len(ops)  BY <1>2, <1>5, <1>6
  <2>2. \A i \in 1..y : x + i \in 1..(x + y) /\ pos + (x + i) = (pos + x) + i  BY <1>2
  <2>3. \A i \in 1..y : ops[(pos + x) + i] = e[i]  BY <1>3, <1>6, <2>2
  <2> QED  BY <2>1, <2>3 DEF At, y
<1>9. PICK m \in 0..(pos + x) : After(b, ops)[m] = Read(pos + x, out \o t)
  BY <1>7 DEF Yields, x
<1>10. pos + x \in Nat /\ out \o t \in Seq(Nat)  BY <1>1, <1>2, ConcatIs
<1>11. PICK l \in 0..((pos + x) + y) : After(b, ops)[l] = Read((pos + x) + y, (out \o t) \o u)
  <2>1. \A p \in Nat, w \in Seq(Nat) : \A k \in 0..p :
          At(ops, p, e) /\ After(b, ops)[k] = Read(p, w)
            => \E l \in 0..(p + y) : After(b, ops)[l] = Read(p + y, w \o u)
    BY DEF Yields, y
  <2> QED  BY <1>8, <1>9, <1>10, <2>1
<1>12. (out \o t) \o u = out \o (t \o u)  BY <1>1, ConcatAssoc
<1>13. (pos + x) + y = pos + Len(d \o e)  BY <1>2, <1>3
<1> QED  BY <1>11, <1>12, <1>13

(* What a delta's instructions yield is what replaying them gives.         *)
LEMMA ReplayYields ==
    ASSUME NEW b, NEW d, NEW t, Yields(b, d, t)
    PROVE  Replay(b, d) = Read(Len(d), t)
<1>1. d \in Seq(Nat) /\ t \in Seq(Nat)  BY DEF Yields
<1> DEFINE n == Len(d)
           end == Read(n, t)
<1>2. n \in Nat  BY <1>1
<1>3. PICK m \in 0..n : After(b, d)[m] = end
  <2>1. At(d, 0, d)
    <3>1. 0 + Len(d) <= Len(d) /\ \A i \in 1..Len(d) : 0 + i = i  BY <1>2
    <3> QED  BY <3>1 DEF At
  <2>2. After(b, d)[0] = Read(0, <<>>)  BY <1>1, AfterIs
  <2>3. <<>> \in Seq(Nat) /\ 0 \in Nat /\ 0 \in 0..0  OBVIOUS
  <2>4. PICK m \in 0..(0 + n) : After(b, d)[m] = Read(0 + n, <<>> \o t)
    BY <1>1, <2>1, <2>2, <2>3 DEF Yields
  <2>5. <<>> \o t = t  BY <1>1, ConcatNone
  <2>6. 0 + n = n  BY <1>2
  <2> QED  BY <2>4, <2>5, <2>6
<1> HIDE DEF n, end
<1> DEFINE k == n - m
           good == {j \in 0..k : After(b, d)[m + j] = end}
<1>4. k \in Nat  BY <1>2
<1>5. 0 \in good
  <2>1. m + 0 = m  OBVIOUS
  <2> QED  BY <1>3, <1>4, <2>1
<1>6. ASSUME NEW j \in 0..(k - 1), j \in good PROVE j + 1 \in good
  <2>1. m + (j + 1) \in 1..n /\ (m + (j + 1)) - 1 = m + j /\ j + 1 \in 0..k  BY <1>2
  <2>2. After(b, d)[m + (j + 1)] = Turn(b, d, After(b, d)[(m + (j + 1)) - 1])
    BY <1>1, <2>1, AfterIs DEF n
  <2>3. After(b, d)[m + (j + 1)] = Turn(b, d, end)  BY <1>6, <2>1, <2>2
  <2>4. end.pos = Len(d)  BY <1>2, ReadIs DEF n, end
  <2>5. Turn(b, d, end) = end
    <3>1. TurnAt(b, d, end, d[end.pos + 1], Placing(d[end.pos + 1], end.pos)) = end
      BY <2>4 DEF TurnAt
    <3> QED  BY <3>1, TurnIs
  <2> QED  BY <2>1, <2>3, <2>5
<1>7. k \in good
  <2> HIDE DEF good, k
  <2>1. \A j \in 0..(k - 1) : j \in good => j + 1 \in good  BY <1>6
  <2>2. 0..k \subseteq good  BY <1>4, <1>5, <2>1, Counting
  <2> QED  BY <1>4, <2>2
<1>8. m + k = n  BY <1>2
<1>9. After(b, d)[n] = end  BY <1>7, <1>8
<1> QED  BY <1>9, ReplayRead DEF n, end

FlatRule(f, p, n) == f = [i \in 1..n |-> IF i = 1 THEN p[i] ELSE f[i - 1] \o p[i]]

LEMMA FlatRead ==
    \A p : FlattenSeq(p) = IF Len(p) = 0 THEN p ELSE (CHOOSE f : FlatRule(f, p, Len(p)))[Len(p)]
  BY DEF FlattenSeq, FlatRule

LEMMA FlatExists ==
    ASSUME NEW p, NEW n \in Nat
    PROVE  \E f : FlatRule(f, p, n)
<1> DEFINE able == {k \in 0..n : \E f : FlatRule(f, p, k)}
<1>1. 0 \in able
  <2> DEFINE f == [i \in 1..0 |-> p[i]]
  <2>1. \A i : i \notin 1..0  OBVIOUS
  <2>2. f = [i \in 1..0 |-> IF i = 1 THEN p[i] ELSE f[i - 1] \o p[i]]  BY <2>1
  <2>3. FlatRule(f, p, 0)  BY <2>2 DEF FlatRule
  <2> QED  BY <2>3
<1>2. ASSUME NEW k \in 0..(n - 1), k \in able PROVE k + 1 \in able
  <2>1. PICK f : FlatRule(f, p, k)  BY <1>2
  <2> DEFINE last == IF k = 0 THEN p[1] ELSE f[k] \o p[k + 1]
             g == [i \in 1..(k + 1) |-> IF i <= k THEN f[i] ELSE last]
  <2>2. \A i \in 1..k : f[i] = IF i = 1 THEN p[i] ELSE f[i - 1] \o p[i]
    BY <2>1 DEF FlatRule
  <2>3. ASSUME NEW i \in 1..(k + 1)
        PROVE  g[i] = IF i = 1 THEN p[i] ELSE g[i - 1] \o p[i]
    <3>1. CASE i <= k /\ i = 1
      <4>1. g[i] = f[i] /\ i \in 1..k  BY <3>1
      <4> HIDE DEF g, last
      <4> QED  BY <2>2, <3>1, <4>1
    <3>2. CASE i <= k /\ i # 1
      <4>1. i - 1 \in 1..(k + 1) /\ i - 1 <= k /\ i \in 1..k  BY <3>2
      <4>2. g[i] = f[i] /\ g[i - 1] = f[i - 1]  BY <3>2, <4>1
      <4> HIDE DEF g, last
      <4> QED  BY <2>2, <3>2, <4>1, <4>2
    <3>3. CASE i = k + 1 /\ k = 0
      <4>1. g[i] = p[1] /\ i = 1  BY <3>3
      <4> HIDE DEF g, last
      <4> QED  BY <4>1
    <3>4. CASE i = k + 1 /\ k # 0
      <4>1. i - 1 = k /\ k \in 1..(k + 1) /\ ~ (i <= k) /\ k <= k /\ i # 1  BY <3>4
      <4>2. g[i] = f[k] \o p[k + 1] /\ g[k] = f[k]  BY <3>4, <4>1
      <4> HIDE DEF g, last
      <4> QED  BY <3>4, <4>1, <4>2
    <3> QED  BY <3>1, <3>2, <3>3, <3>4
  <2>4. FlatRule(g, p, k + 1)
    <3>1. g = [i \in 1..(k + 1) |-> g[i]]  OBVIOUS
    <3> HIDE DEF g
    <3> QED  BY <2>3, <3>1 DEF FlatRule
  <2>5. k + 1 \in 0..n  OBVIOUS
  <2> QED  BY <2>4, <2>5
<1>3. n \in able
  <2> HIDE DEF able
  <2>1. \A k \in 0..(n - 1) : k \in able => k + 1 \in able  BY <1>2
  <2>2. 0..n \subseteq able  BY <1>1, <2>1, Counting
  <2> QED  BY <2>2
<1> QED  BY <1>3

(* The pieces of p yield the pieces of q, one after the other.             *)
LEMMA YieldsFlat ==
    ASSUME NEW b, NEW n \in Nat, NEW p, p = [k \in 1..n |-> p[k]], NEW q, NEW t, t[0] = <<>>,
           \A k \in 1..n : Yields(b, p[k], q[k]) /\ t[k] = t[k - 1] \o q[k]
    PROVE  Yields(b, FlattenSeq(p), t[n])
<1>1. \A k \in 1..n : p[k] \in Seq(Nat) /\ q[k] \in Seq(Nat)  BY DEF Yields
<1>2. p \in Seq(Seq(Nat)) /\ Len(p) = n
  <2> DEFINE S == Seq(Nat)
  <2>1. \A k \in 1..n : p[k] \in S  BY <1>1
  <2> HIDE DEF S
  <2>2. p \in Seq(S) /\ Len(p) = n  BY <2>1, IsSeq
  <2> QED  BY <2>2 DEF S
<1>3. CASE n = 0
  <2>1. p = <<>>  BY <1>2, <1>3
  <2>2. FlattenSeq(p) = p  BY <1>2, <1>3, FlatRead
  <2> QED  BY <1>3, <2>1, <2>2, YieldsNone
<1>4. CASE n # 0
  <2> DEFINE f == CHOOSE g : FlatRule(g, p, n)
  <2>1. FlattenSeq(p) = f[n]  BY <1>2, <1>4, FlatRead
  <2>2. FlatRule(f, p, n)  BY FlatExists
  <2> HIDE DEF f
  <2>3. \A i \in 1..n : f[i] = IF i = 1 THEN p[i] ELSE f[i - 1] \o p[i]
    BY <2>2 DEF FlatRule
  <2> DEFINE good == {k \in 0..n : k >= 1 => Yields(b, f[k], t[k])}
  <2>4. 0 \in good  OBVIOUS
  <2>5. ASSUME NEW k \in 0..(n - 1), k \in good PROVE k + 1 \in good
    <3>1. k + 1 \in 1..n /\ (k + 1) - 1 = k /\ k + 1 \in 0..n  OBVIOUS
    <3>2. Yields(b, p[k + 1], q[k + 1]) /\ t[k + 1] = t[k] \o q[k + 1]  BY <3>1
    <3>3. CASE k = 0
      <4>1. f[k + 1] = p[k + 1]  BY <2>3, <3>1, <3>3
      <4>2. t[k + 1] = q[k + 1]
        <5>1. t[k] = <<>>  BY <3>3
        <5> QED  BY <1>1, <3>1, <3>2, <5>1, ConcatNone
      <4> QED  BY <3>1, <3>2, <4>1, <4>2
    <3>4. CASE k # 0
      <4>1. f[k + 1] = f[k] \o p[k + 1]
        <5>1. k + 1 # 1  BY <3>4
        <5> QED  BY <2>3, <3>1, <5>1
      <4>2. Yields(b, f[k], t[k])  BY <2>5, <3>4
      <4>3. Yields(b, f[k] \o p[k + 1], t[k] \o q[k + 1])  BY <3>2, <4>2, YieldsBoth
      <4> QED  BY <3>1, <3>2, <4>1, <4>3
    <3> QED  BY <3>3, <3>4
  <2>6. n \in good
    <3> HIDE DEF good
    <3>1. \A k \in 0..(n - 1) : k \in good => k + 1 \in good  BY <2>5
    <3>2. 0..n \subseteq good  BY <2>4, <3>1, Counting
    <3> QED  BY <3>2
  <2> QED  BY <1>4, <2>1, <2>6
<1> QED  BY <1>3, <1>4

-----------------------------------------------------------------------------
LEMMA MinTwo ==
    ASSUME NEW x \in Nat, NEW y \in Nat
    PROVE  Min({x, y}) = IF x <= y THEN x ELSE y
<1> DEFINE S == {x, y}
<1>1. S \in SUBSET Nat /\ S # {}  OBVIOUS
<1> HIDE DEF S
<1>2. Min(S) \in S /\ \A n \in S : Min(S) <= n  BY <1>1, LeastIs
<1>3. Min(S) \in Nat  BY <1>1, <1>2
<1>4. (Min(S) = x \/ Min(S) = y) /\ Min(S) <= x /\ Min(S) <= y  BY <1>2 DEF S
<1>5. Min(S) = IF x <= y THEN x ELSE y  BY <1>3, <1>4
<1> QED  BY <1>5 DEF S

(* The end of the first k chunks.                                          *)
ChunkEnd(k, size, most) == IF k * most <= size THEN k * most ELSE size

LEMMA ChunksAre ==
    ASSUME NEW size \in Nat, NEW most \in Nat, most >= 1
    PROVE  \E n \in Nat :
              /\ Chunks(size, most) = 1..n
              /\ ChunkEnd(0, size, most) = 0 /\ ChunkEnd(n, size, most) = size
              /\ \A k \in 1..n :
                    /\ (k - 1) * most \in Nat
                    /\ (k - 1) * most + ChunkSize(k, size, most) = ChunkEnd(k, size, most)
                    /\ ChunkEnd(k - 1, size, most) = (k - 1) * most
                    /\ ChunkEnd(k, size, most) = Min({k * most, size})
                    /\ ChunkSize(k, size, most) \in 1..most
                    /\ ChunkEnd(k, size, most) \in 0..size
<1> DEFINE a == size + most - 1
           n == a \div most
<1>1. n \in Nat /\ n * most <= a /\ a < n * most + most
  <2>1. a \in Nat  OBVIOUS
  <2> HIDE DEF a
  <2>2. n \in Nat  BY <2>1
  <2>3. a % most \in 0..(most - 1)  BY <2>1
  <2>4. a = most * (a \div most) + (a % most)  BY <2>1
  <2> DEFINE r == a % most
             z == n * most
  <2>5. n * most \in Nat /\ most * n = n * most  BY <2>2
  <2>6. z \in Nat /\ r \in 0..(most - 1) /\ a = z + r  BY <2>3, <2>4, <2>5
  <2> HIDE DEF r, z, n
  <2>7. z <= a /\ a < z + most  BY <2>1, <2>6
  <2> QED  BY <2>2, <2>7 DEF z
<1>2. Chunks(size, most) = 1..n  BY DEF Chunks
<1> HIDE DEF n
<1>3. ChunkEnd(0, size, most) = 0
  <2>1. 0 * most = 0  OBVIOUS
  <2> QED  BY <2>1 DEF ChunkEnd
<1>4. ChunkEnd(n, size, most) = size
  <2> DEFINE z == n * most
  <2>1. z \in Nat /\ size + most - 1 < z + most  BY <1>1
  <2> HIDE DEF z
  <2>2. z >= size  BY <2>1
  <2>3. z <= size => z = size  BY <2>1, <2>2
  <2> QED  BY <2>3 DEF ChunkEnd, z
<1>5. ASSUME NEW k \in 1..n
      PROVE  /\ (k - 1) * most \in Nat
             /\ (k - 1) * most + ChunkSize(k, size, most) = ChunkEnd(k, size, most)
             /\ ChunkEnd(k - 1, size, most) = (k - 1) * most
             /\ ChunkEnd(k, size, most) = Min({k * most, size})
             /\ ChunkSize(k, size, most) \in 1..most
             /\ ChunkEnd(k, size, most) \in 0..size
  <2> DEFINE y == (k - 1) * most
             x == k * most
             z == n * most
  <2>1. y \in Nat /\ x \in Nat /\ z \in Nat /\ x = y + most
    <3>1. k - 1 \in Nat /\ k \in Nat  BY <1>1
    <3>2. y \in Nat /\ x \in Nat /\ z \in Nat  BY <1>1, <3>1
    <3>3. x = y + most  BY <3>1
    <3> QED  BY <3>2, <3>3
  <2>2. x <= z  BY <1>1
  <2>3. z <= size + most - 1  BY <1>1
  <2>4. ChunkSize(k, size, most) = Min({most, size - y})  BY DEF ChunkSize
  <2>5. /\ ChunkEnd(k, size, most) = IF x <= size THEN x ELSE size
        /\ ChunkEnd(k - 1, size, most) = IF y <= size THEN y ELSE size
    BY DEF ChunkEnd
  <2> HIDE DEF x, y, z
  <2>6. y < size  BY <2>1, <2>2, <2>3
  <2>7. size - y \in Nat /\ size - y >= 1  BY <2>1, <2>6
  <2>8. Min({most, size - y}) = IF most <= size - y THEN most ELSE size - y
    BY <2>7, MinTwo
  <2>9. Min({x, size}) = IF x <= size THEN x ELSE size  BY <2>1, MinTwo
  <2>10. y + ChunkSize(k, size, most) = ChunkEnd(k, size, most)
    BY <2>1, <2>4, <2>5, <2>7, <2>8
  <2>11. ChunkEnd(k - 1, size, most) = y  BY <2>1, <2>5, <2>6
  <2>12. ChunkSize(k, size, most) \in 1..most /\ ChunkEnd(k, size, most) \in 0..size
    BY <2>1, <2>4, <2>5, <2>7, <2>8
  <2> QED  BY <2>1, <2>5, <2>9, <2>10, <2>11, <2>12 DEF x, y
<1> QED  BY <1>1, <1>2, <1>3, <1>4, <1>5

LEMMA SplitIs ==
    ASSUME NEW S, NEW s \in Seq(S), NEW l \in Nat, NEW m \in Nat, NEW n \in Nat,
           l <= m, m <= n, n <= Len(s)
    PROVE  SubSeq(s, l + 1, m) \o SubSeq(s, m + 1, n) = SubSeq(s, l + 1, n)
<1> DEFINE x == SubSeq(s, l + 1, m)
           y == SubSeq(s, m + 1, n)
           z == SubSeq(s, l + 1, n)
<1>1. Len(s) \in Nat  OBVIOUS
<1>2. /\ x \in Seq(S) /\ Len(x) = m - l /\ \A i \in 1..(m - l) : x[i] = s[l + i]
  BY <1>1, SubSeqIs
<1>3. /\ y \in Seq(S) /\ Len(y) = n - m /\ \A i \in 1..(n - m) : y[i] = s[m + i]
  BY <1>1, SubSeqIs
<1>4. /\ z \in Seq(S) /\ Len(z) = n - l /\ \A i \in 1..(n - l) : z[i] = s[l + i]
  BY <1>1, SubSeqIs
<1> HIDE DEF x, y, z
<1>5. /\ x \o y \in Seq(S) /\ Len(x \o y) = Len(x) + Len(y)
      /\ \A i \in 1..Len(x) : (x \o y)[i] = x[i]
      /\ \A i \in 1..Len(y) : (x \o y)[Len(x) + i] = y[i]
  <2>1. x \in Seq(S) /\ y \in Seq(S)  BY <1>2, <1>3
  <2> QED  BY <2>1, ConcatIs
<1>6. Len(x \o y) = n - l  BY <1>2, <1>3, <1>5
<1>7. ASSUME NEW i \in 1..(n - l) PROVE (x \o y)[i] = z[i]
  <2>1. z[i] = s[l + i]  BY <1>4
  <2>2. CASE i <= m - l
    <3>1. i \in 1..(m - l) /\ i \in 1..Len(x)  BY <1>2, <2>2
    <3> QED  BY <1>2, <1>5, <2>1, <3>1
  <2>3. CASE i > m - l
    <3> DEFINE j == i - (m - l)
    <3>1. j \in 1..(n - m) /\ j \in 1..Len(y) /\ Len(x) + j = i /\ m + j = l + i
      BY <1>2, <1>3, <2>3
    <3> HIDE DEF j
    <3>2. (x \o y)[Len(x) + j] = y[j]  BY <1>5, <3>1
    <3>3. y[j] = s[m + j]  BY <1>3, <3>1
    <3> QED  BY <2>1, <3>1, <3>2, <3>3
  <2>4. i <= m - l \/ i > m - l  OBVIOUS
  <2> QED  BY <2>2, <2>3, <2>4
<1>8. \A i \in 1..Len(x \o y) : (x \o y)[i] = z[i]  BY <1>6, <1>7
<1>9. x \o y = z  BY <1>4, <1>5, <1>6, <1>8, SameSeq
<1> QED  BY <1>9 DEF x, y, z

LEMMA NoneOf ==
    ASSUME NEW S, NEW s \in Seq(S), NEW m \in Nat, m <= Len(s)
    PROVE  SubSeq(s, m + 1, m) = <<>>
<1>1. SubSeq(s, m + 1, m) \in Seq(S) /\ Len(SubSeq(s, m + 1, m)) = m - m  BY SubSeqIs
<1> QED  BY <1>1

LEMMA AllOf ==
    ASSUME NEW S, NEW s \in Seq(S)
    PROVE  SubSeq(s, 1, Len(s)) = s
  OBVIOUS

(* The chunks of a copy copy all of it, the chunks of an insert insert it. *)
LEMMA YieldsCopies ==
    ASSUME NEW b \in Seq(Nat), Len(b) <= MaxTarget, NEW offset \in Nat, NEW size \in Nat,
           offset + size <= Len(b)
    PROVE  Yields(b, CopyOps(offset, size), SubSeq(b, offset + 1, offset + size))
<1> DEFINE most == MaxChunk
           C(k) == ChunkSize(k, size, most)
           L(k) == ChunkEnd(k, size, most)
<1>0. Len(b) \in Nat  OBVIOUS
<1>1. most \in Nat /\ most >= 1 /\ Power[SizeBytes] \in Nat /\ most < Power[SizeBytes]
      /\ \A k \in 1..most : k < Power[SizeBytes]
  <2>1. SizeBytes \in 1..4 /\ SizeBytes - 1 \in 0..4 /\ SizeBytes \in 0..4
        /\ Wide \in Nat /\ Wide >= 2
    BY DeltaAssumption
  <2> DEFINE p == Power[SizeBytes - 1]
  <2>2. p \in Nat /\ p >= 1
    <3>1. CASE SizeBytes - 1 = 0  BY <3>1, PowerIs
    <3>2. CASE SizeBytes - 1 # 0
      <4>1. SizeBytes - 1 \in 1..4  BY <2>1, <3>2
      <4> QED  BY <2>1, <4>1, PowerIs
    <3> QED  BY <3>1, <3>2
  <2>3. Power[SizeBytes] = Wide * p  BY <2>1, PowerIs
  <2> HIDE DEF p
  <2>4. Wide * p \in Nat /\ Wide * p >= 2  BY <2>1, <2>2
  <2>5. MaxChunk = Power[SizeBytes] - 1  BY DEF MaxChunk
  <2> QED  BY <2>3, <2>4, <2>5
<1>2. offset + size <= Power[OffsetBytes] /\ Power[OffsetBytes] \in Nat
  <2>1. MaxTarget \in Nat /\ MaxTarget <= Power[OffsetBytes] /\ OffsetBytes \in 0..4
    BY DeltaAssumption
  <2>2. Power[OffsetBytes] \in Nat  BY <2>1, PowerIs
  <2> QED  BY <1>0, <2>1, <2>2
<1>3. PICK n \in Nat :
          /\ Chunks(size, most) = 1..n
          /\ L(0) = 0 /\ L(n) = size
          /\ \A k \in 1..n :
                /\ (k - 1) * most \in Nat
                /\ (k - 1) * most + C(k) = L(k)
                /\ L(k - 1) = (k - 1) * most
                /\ C(k) \in 1..most
                /\ L(k) \in 0..size
  <2> HIDE DEF most
  <2> QED  BY <1>1, ChunksAre
<1> DEFINE p == [k \in 1..n |-> CopyOpOnce(offset + (k - 1) * most, C(k))]
           q == [k \in 1..n |-> SubSeq(b, offset + L(k - 1) + 1, offset + L(k))]
           t == [k \in 0..n |-> SubSeq(b, offset + 1, offset + L(k))]
<1>4. CopyOps(offset, size) = FlattenSeq(p)  BY <1>3 DEF CopyOps
<1> HIDE DEF most, C, L
<1>5. t[0] = <<>>
  <2>1. offset + L(0) = offset  BY <1>3
  <2>2. offset <= Len(b)  BY <1>0
  <2> QED  BY <2>1, <2>2, NoneOf
<1>6. ASSUME NEW k \in 1..n
      PROVE  Yields(b, p[k], q[k]) /\ t[k] = t[k - 1] \o q[k]
  <2> DEFINE y == (k - 1) * most
             o == offset + y
             s == C(k)
  <2>1. y \in Nat /\ y + s = L(k) /\ L(k - 1) = y /\ s \in 1..most /\ L(k) \in 0..size
    BY <1>3
  <2>2. p[k] = CopyOpOnce(o, s)  OBVIOUS
  <2>3. q[k] = SubSeq(b, offset + L(k - 1) + 1, offset + L(k))  OBVIOUS
  <2>4. t[k] = SubSeq(b, offset + 1, offset + L(k))
    <3>1. k \in 0..n  OBVIOUS
    <3> QED  BY <3>1
  <2>5. t[k - 1] = SubSeq(b, offset + 1, offset + L(k - 1))
    <3>1. k - 1 \in 0..n  BY <1>3
    <3> QED  BY <3>1
  <2> HIDE DEF p, q, t, y, s
  <2>6. s \in Nat /\ s >= 1 /\ o \in Nat  BY <1>1, <2>1
  <2>7. o + s = offset + L(k) /\ o = offset + L(k - 1) /\ o + s <= offset + size
    BY <2>1, <2>6
  <2>8. o + s <= Len(b)  BY <1>0, <2>6, <2>7
  <2>9. o < Power[OffsetBytes] /\ s < Power[SizeBytes]
    <3>1. s < Power[SizeBytes]  BY <1>1, <2>1
    <3> HIDE DEF o
    <3>2. o < offset + size  BY <2>6, <2>7
    <3> QED  BY <1>2, <2>6, <3>1, <3>2
  <2>10. o + s \in Nat /\ offset <= o /\ o <= o + s  BY <2>1, <2>6
  <2> HIDE DEF o
  <2>11. Yields(b, CopyOpOnce(o, s), SubSeq(b, o + 1, o + s))
    BY <2>6, <2>8, <2>9, YieldsCopy
  <2>12. q[k] = SubSeq(b, o + 1, o + s)  BY <2>3, <2>7
  <2>13. t[k - 1] \o q[k] = t[k]
    <3>1. SubSeq(b, offset + 1, o) \o SubSeq(b, o + 1, o + s) = SubSeq(b, offset + 1, o + s)
      BY <2>6, <2>8, <2>10, SplitIs
    <3> QED  BY <2>4, <2>5, <2>7, <2>12, <3>1
  <2> QED  BY <2>2, <2>11, <2>12, <2>13
<1>7. p = [k \in 1..n |-> p[k]]  OBVIOUS
<1>8. t[n] = SubSeq(b, offset + 1, offset + size)  BY <1>3
<1> HIDE DEF p, q, t
<1>9. Yields(b, FlattenSeq(p), t[n])  BY <1>5, <1>6, <1>7, YieldsFlat
<1> QED  BY <1>4, <1>8, <1>9

LEMMA YieldsInserts ==
    ASSUME NEW b \in Seq(Nat), NEW data \in Seq(Nat)
    PROVE  Yields(b, InsertOps(data), data)
<1> DEFINE size == Len(data)
           C(k) == ChunkSize(k, size, MaxInsert)
           L(k) == ChunkEnd(k, size, MaxInsert)
<1>0. size \in Nat  OBVIOUS
<1>1. MaxInsert \in Nat /\ MaxInsert >= 1 /\ MaxInsert <= 127  BY DeltaAssumption
<1>3. PICK n \in Nat :
          /\ Chunks(size, MaxInsert) = 1..n
          /\ L(0) = 0 /\ L(n) = size
          /\ \A k \in 1..n :
                /\ (k - 1) * MaxInsert \in Nat
                /\ (k - 1) * MaxInsert + C(k) = L(k)
                /\ L(k - 1) = (k - 1) * MaxInsert
                /\ L(k) = Min({k * MaxInsert, size})
                /\ C(k) \in 1..MaxInsert
                /\ L(k) \in 0..size
  <2> HIDE DEF size
  <2> QED  BY <1>0, <1>1, ChunksAre
<1> DEFINE q == [k \in 1..n |-> SubSeq(data, (k - 1) * MaxInsert + 1, Min({k * MaxInsert, size}))]
           p == [k \in 1..n |-> <<C(k)>>
                    \o SubSeq(data, (k - 1) * MaxInsert + 1, Min({k * MaxInsert, size}))]
           t == [k \in 0..n |-> SubSeq(data, 1, L(k))]
<1>4. InsertOps(data) = FlattenSeq(p)  BY <1>3 DEF InsertOps
<1> HIDE DEF C, L
<1>5. t[0] = <<>>
  <2>1. t[0] = SubSeq(data, 0 + 1, 0)  BY <1>3
  <2>2. 0 <= Len(data)  BY <1>0
  <2> HIDE DEF t
  <2> QED  BY <2>1, <2>2, NoneOf
<1>6. ASSUME NEW k \in 1..n
      PROVE  Yields(b, p[k], q[k]) /\ t[k] = t[k - 1] \o q[k]
  <2> DEFINE y == (k - 1) * MaxInsert
             s == C(k)
  <2>1. y \in Nat /\ y + s = L(k) /\ L(k - 1) = y /\ s \in 1..MaxInsert /\ L(k) \in 0..size
        /\ L(k) = Min({k * MaxInsert, size})
    BY <1>3
  <2>2. q[k] = SubSeq(data, y + 1, L(k)) /\ p[k] = <<s>> \o SubSeq(data, y + 1, L(k))
    BY <2>1
  <2>4. t[k] = SubSeq(data, 0 + 1, L(k))
    <3>1. k \in 0..n /\ 0 + 1 = 1  OBVIOUS
    <3> QED  BY <3>1
  <2>5. t[k - 1] = SubSeq(data, 0 + 1, y)
    <3>1. k - 1 \in 0..n  BY <1>3
    <3> QED  BY <2>1, <3>1
  <2> HIDE DEF p, q, t, y, s, size
  <2>6. L(k) \in Nat /\ L(k) <= size /\ y <= L(k) /\ L(k) - y = s /\ 0 <= y
    BY <1>0, <1>1, <2>1
  <2>7. q[k] \in Seq(Nat) /\ Len(q[k]) = s
    <3>1. L(k) <= Len(data) /\ y \in Nat  BY <2>1, <2>6 DEF size
    <3>2. /\ SubSeq(data, y + 1, L(k)) \in Seq(Nat)
          /\ Len(SubSeq(data, y + 1, L(k))) = L(k) - y
      BY <2>6, <3>1, SubSeqIs
    <3> QED  BY <2>2, <2>6, <3>2
  <2>8. Yields(b, p[k], q[k])
    <3>1. s \in 1..127  BY <1>1, <2>1
    <3>2. p[k] = <<Len(q[k])>> \o q[k]  BY <2>2, <2>7
    <3>3. Len(q[k]) \in 1..127  BY <2>7, <3>1
    <3> QED  BY <2>7, <3>2, <3>3, YieldsInsert
  <2>9. SubSeq(data, 0 + 1, y) \o SubSeq(data, y + 1, L(k)) = SubSeq(data, 0 + 1, L(k))
    <3>1. L(k) <= Len(data) /\ y \in Nat /\ 0 \in Nat  BY <2>1, <2>6 DEF size
    <3> QED  BY <2>6, <3>1, SplitIs
  <2> QED  BY <2>2, <2>4, <2>5, <2>8, <2>9
<1>7. p = [k \in 1..n |-> p[k]]  OBVIOUS
<1>8. t[n] = data
  <2>1. t[n] = SubSeq(data, 1, size)  BY <1>3
  <2> QED  BY <2>1, AllOf
<1> HIDE DEF p, q, t
<1>9. Yields(b, FlattenSeq(p), t[n])  BY <1>5, <1>6, <1>7, YieldsFlat
<1> QED  BY <1>4, <1>8, <1>9

-----------------------------------------------------------------------------
LEMMA ConcatRest ==
    ASSUME NEW x \in Seq(Nat), NEW y \in Seq(Nat)
    PROVE  SubSeq(x \o y, Len(x) + 1, Len(x \o y)) = y
<1> DEFINE m == Len(x)
           n == Len(y)
           c == x \o y
           r == SubSeq(c, m + 1, m + n)
<1>1. m \in Nat /\ n \in Nat  OBVIOUS
<1>2. /\ c \in Seq(Nat) /\ Len(c) = m + n /\ \A i \in 1..n : c[m + i] = y[i]
  BY ConcatIs
<1> HIDE DEF c, m, n
<1>3. m + n \in Nat /\ m <= m + n /\ m + n <= Len(c) /\ (m + n) - m = n  BY <1>1, <1>2
<1>4. r \in Seq(Nat) /\ Len(r) = n /\ \A i \in 1..n : r[i] = c[m + i]
  <2> DEFINE k == m + n
  <2>1. k \in Nat /\ m <= k /\ k <= Len(c)  BY <1>3
  <2>2. c \in Seq(Nat)  BY <1>2
  <2> HIDE DEF k
  <2>3. /\ SubSeq(c, m + 1, k) \in Seq(Nat) /\ Len(SubSeq(c, m + 1, k)) = k - m
        /\ \A i \in 1..(k - m) : SubSeq(c, m + 1, k)[i] = c[m + i]
    BY <1>1, <2>1, <2>2, SubSeqIs
  <2> QED  BY <1>3, <2>3 DEF k
<1>5. \A i \in 1..n : r[i] = y[i]  BY <1>2, <1>4
<1> HIDE DEF r
<1>6. r = y  BY <1>4, <1>5, SameSeq DEF n
<1> QED  BY <1>2, <1>6 DEF r, c, m

(* ApplyDelta on a whole delta: the sizes are read, and what the           *)
(* instructions yield is the result.                                       *)
LEMMA ApplyYields ==
    ASSUME NEW b \in Seq(Nat), NEW d, NEW t, Yields(b, d, t), Len(t) <= MaxTarget
    PROVE  ApplyDelta(b, (VarintLE(Len(b)) \o VarintLE(Len(t))) \o d) = {t}
<1> DEFINE x == VarintLE(Len(b))
           y == VarintLE(Len(t))
           w == (x \o y) \o d
           rest == SubSeq(w, Len(x) + 1, Len(w))
<1>1. d \in Seq(Nat) /\ t \in Seq(Nat)  BY DEF Yields
<1>2. Len(b) \in Nat /\ Len(t) \in Nat /\ MaxTarget \in Nat  BY <1>1, DeltaAssumption
<1>3. /\ x \in Seq(Nat) /\ Len(x) >= 1
      /\ \A r \in Seq(Nat) : ReadVarintLE(x \o r) = [value |-> Len(b), n |-> Len(x)]
  BY <1>2, VarintRoundTrip
<1>4. /\ y \in Seq(Nat) /\ Len(y) >= 1
      /\ \A r \in Seq(Nat) : ReadVarintLE(y \o r) = [value |-> Len(t), n |-> Len(y)]
  BY <1>2, VarintRoundTrip
<1> HIDE DEF x, y
<1>5. y \o d \in Seq(Nat) /\ Len(y \o d) = Len(y) + Len(d)  BY <1>1, <1>4, ConcatIs
<1>6. w = x \o (y \o d)  BY <1>1, <1>3, <1>4, ConcatAssoc
<1>7. w # <<>> /\ y \o d # <<>>
  <2>1. Len(x \o (y \o d)) = Len(x) + Len(y \o d)  BY <1>3, <1>5, ConcatIs
  <2> HIDE DEF w
  <2>2. Len(d) \in Nat /\ Len(y) \in Nat /\ Len(x) \in Nat
    <3>1. x \in Seq(Nat) /\ y \in Seq(Nat) /\ d \in Seq(Nat)  BY <1>1, <1>3, <1>4
    <3> HIDE DEF rest
    <3> QED  BY <3>1, SeqIs
  <2>3. Len(<<>>) = 0  OBVIOUS
  <2>4. Len(y \o d) # 0 /\ Len(w) # 0
    <3>1. Len(x) >= 1 /\ Len(y) >= 1 /\ Len(y \o d) = Len(y) + Len(d)  BY <1>3, <1>4, <1>5
    <3>2. Len(w) = Len(x) + Len(y \o d)  BY <1>6, <2>1
    <3> HIDE DEF rest
    <3> QED  BY <2>2, <3>1, <3>2
  <2> QED  BY <2>3, <2>4
<1>8. ReadVarintLE(w) = [value |-> Len(b), n |-> Len(x)]  BY <1>3, <1>5, <1>6
<1>9. rest = y \o d  BY <1>3, <1>5, <1>6, ConcatRest
<1>10. ReadVarintLE(rest) = [value |-> Len(t), n |-> Len(y)]  BY <1>1, <1>4, <1>9
<1>11. SubSeq(rest, Len(y) + 1, Len(rest)) = d  BY <1>1, <1>4, <1>9, ConcatRest
<1> DEFINE end == Read(Len(d), t)
<1>12. Replay(b, d) = end  BY ReplayYields
<1>13. end # Refused /\ end.out = t
  <2>1. Len(d) \in Nat  BY <1>1
  <2> QED  BY <2>1, ReadIs
<1> HIDE DEF w, end
<1>14. ApplyDelta(b, w) =
          LET size == ReadVarintLE(rest)
              stop == Replay(b, SubSeq(rest, size.n + 1, Len(rest)))
          IN  IF \/ w = <<>> \/ ReadVarintLE(w).value # Len(b)
                 \/ rest = <<>> \/ size.value > MaxTarget
                 \/ stop = Refused \/ Len(stop.out) # size.value
              THEN {} ELSE {stop.out}
  BY <1>8 DEF ApplyDelta
<1> HIDE DEF rest
<1>15. ReadVarintLE(rest).n = Len(y) /\ ReadVarintLE(rest).value = Len(t)  BY <1>10
<1>16. Replay(b, SubSeq(rest, ReadVarintLE(rest).n + 1, Len(rest))) = end
  BY <1>11, <1>12, <1>15
<1>17. rest # <<>>  BY <1>7, <1>9
<1>18. ReadVarintLE(w).value = Len(b) /\ ~ (Len(t) > MaxTarget)  BY <1>2, <1>8
<1>19. ApplyDelta(b, w) = {t}
  BY <1>7, <1>13, <1>14, <1>15, <1>16, <1>17, <1>18
<1> QED  BY <1>19 DEF w, x, y

LEMMA GreatestIs ==
    ASSUME NEW n \in Nat, NEW S \in SUBSET (0..n), S # {}
    PROVE  Max(S) \in S /\ \A x \in S : x <= Max(S)
<1> DEFINE T == {n - x : x \in S}
<1>1. T \in SUBSET Nat /\ T # {}
  <2>1. \A x \in S : n - x \in Nat  OBVIOUS
  <2> QED  BY <2>1
<1>2. PICK y \in S : n - y = Min(T) /\ \A z \in T : n - y <= z
  <2>1. Min(T) \in T /\ \A z \in T : Min(T) <= z
    <3> HIDE DEF T
    <3> QED  BY <1>1, LeastIs
  <2> QED  BY <2>1
<1>3. \A x \in S : y >= x
  <2> TAKE x \in S
  <2>1. n - y <= n - x /\ y \in Nat /\ x \in Nat  BY <1>2
  <2> QED  BY <2>1
<1>4. Max(S) \in S /\ \A x \in S : Max(S) >= x  BY <1>3 DEF Max
<1>5. \A x \in S : x \in Nat  OBVIOUS
<1> QED  BY <1>4, <1>5

LEMMA MatchLenIs ==
    ASSUME base \in Seq(Nat), target \in Seq(Nat),
           NEW bi \in 0..Len(base), NEW i \in 0..Len(target)
    PROVE  /\ MatchLen(bi, i) \in Nat
           /\ bi + MatchLen(bi, i) <= Len(base) /\ i + MatchLen(bi, i) <= Len(target)
           /\ SubSeq(base, bi + 1, bi + MatchLen(bi, i))
                = SubSeq(target, i + 1, i + MatchLen(bi, i))
<1> DEFINE x == Len(base) - bi
           y == Len(target) - i
           most == Min({x, y})
           S == {n \in 0..most : SubSeq(base, bi + 1, bi + n) = SubSeq(target, i + 1, i + n)}
<1>1. Len(base) \in Nat /\ Len(target) \in Nat /\ x \in Nat /\ y \in Nat  OBVIOUS
<1>2. most \in Nat /\ most <= x /\ most <= y
  <2> HIDE DEF x, y
  <2>1. most = IF x <= y THEN x ELSE y  BY <1>1, MinTwo
  <2> QED  BY <1>1, <2>1
<1>3. MatchLen(bi, i) = Max(S)  BY DEF MatchLen
<1> HIDE DEF most
<1>4. 0 \in S
  <2>1. SubSeq(base, bi + 1, bi) = <<>> /\ SubSeq(target, i + 1, i) = <<>>
    <3>1. bi \in Nat /\ i \in Nat /\ bi <= Len(base) /\ i <= Len(target)  BY <1>1
    <3> HIDE DEF S, x, y
    <3> QED  BY <3>1, NoneOf
  <2>2. bi + 0 = bi /\ i + 0 = i /\ 0 \in 0..most  BY <1>2
  <2> QED  BY <2>1, <2>2
<1>5. Max(S) \in S
  <2>1. S \in SUBSET (0..most)  OBVIOUS
  <2> HIDE DEF S
  <2> QED  BY <1>2, <1>4, <2>1, GreatestIs
<1>6. /\ Max(S) \in 0..most
      /\ SubSeq(base, bi + 1, bi + Max(S)) = SubSeq(target, i + 1, i + Max(S))
  BY <1>5
<1> HIDE DEF S
<1>7. Max(S) \in Nat /\ bi + Max(S) <= Len(base) /\ i + Max(S) <= Len(target)
  BY <1>1, <1>2, <1>6
<1> QED  BY <1>3, <1>6, <1>7

IndexBy(hash, last) ==
    [h \in {hash[i] : i \in 0..last} |-> {i \in 0..last : hash[i] = h}]

LEMMA IndexRead ==
    ASSUME NEW b
    PROVE  \E hash : IndexOf(b) = IndexBy(hash, Len(b) - Window)
  BY DEF IndexOf, IndexBy

(* Every bucket of the index holds positions of the base only.             *)
Indexed == \A h \in DOMAIN index : index[h] \subseteq 0..Len(base)

LEMMA IndexIs ==
    ASSUME NEW b \in Seq(Nat)
    PROVE  \A h \in DOMAIN IndexOf(b) : IndexOf(b)[h] \subseteq 0..Len(b)
<1>1. PICK hash : IndexOf(b) = IndexBy(hash, Len(b) - Window)  BY IndexRead
<1>2. Window \in Nat /\ Len(b) \in Nat  BY DeltaAssumption
<1>3. 0..(Len(b) - Window) \subseteq 0..Len(b)  BY <1>2
<1>4. \A h \in DOMAIN IndexBy(hash, Len(b) - Window) :
         IndexBy(hash, Len(b) - Window)[h] \subseteq 0..(Len(b) - Window)
  BY DEF IndexBy
<1> QED  BY <1>1, <1>3, <1>4

-----------------------------------------------------------------------------
(* The instructions so far restore what was read before the waiting bytes. *)
Flushed == ti - Len(pending)

EncodeInv ==
    /\ base \in Contents \ {<<>>}
    /\ target \in Contents
    /\ ti \in 0..Len(target)
    /\ pending \in Seq(Nat) /\ Len(pending) <= ti
    /\ pending = SubSeq(target, Flushed + 1, ti)
    /\ Yields(base, delta, SubSeq(target, 1, Flushed))
    /\ Indexed
    /\ at = "done" => ti = Len(target) /\ pending = <<>>

LEMMA ContentIs ==
    ASSUME NEW c \in Contents
    PROVE  c \in Seq(Nat) /\ Len(c) \in Nat /\ Len(c) <= MaxTarget
<1>1. c \in Seq(0..(Wide - 1)) /\ Wide \in Nat /\ Len(c) <= MaxTarget  BY DeltaAssumption
<1>2. 0..(Wide - 1) \subseteq Nat  BY <1>1
<1>3. c \in Seq(Nat)  BY <1>1, <1>2, WiderSeq
<1> QED  BY <1>1, <1>3

LEMMA EncodeInitInv == EncodeInit => EncodeInv
<1> SUFFICES ASSUME EncodeInit PROVE EncodeInv
  OBVIOUS
<1>1. /\ base \in Contents \ {<<>>} /\ target \in Contents /\ ti = 0 /\ pending = <<>>
      /\ index = IndexOf(base) /\ delta = <<>> /\ at = "scan"
  BY DEF EncodeInit
<1>2. base \in Seq(Nat) /\ target \in Seq(Nat) /\ Len(target) \in Nat
  BY <1>1, ContentIs
<1>3. pending \in Seq(Nat) /\ Len(pending) = 0 /\ Flushed = 0
  <2>1. <<>> \in Seq(Nat) /\ Len(<<>>) = 0 /\ 0 - 0 = 0  OBVIOUS
  <2> QED  BY <1>1, <2>1 DEF Flushed
<1>4. SubSeq(target, 0 + 1, 0) = <<>>  BY <1>2, NoneOf
<1>5. Flushed + 1 = 0 + 1 /\ 0 + 1 = 1  BY <1>3
<1>6. Yields(base, delta, SubSeq(target, 1, Flushed))  BY <1>1, <1>3, <1>4, <1>5, YieldsNone
<1>7. Indexed  BY <1>1, <1>2, IndexIs DEF Indexed
<1>8. ti \in 0..Len(target) /\ Len(pending) <= ti  BY <1>1, <1>2, <1>3
<1>9. pending = SubSeq(target, Flushed + 1, ti)  BY <1>1, <1>4, <1>5
<1>10. at # "done"  BY <1>1
<1> QED  BY <1>1, <1>3, <1>6, <1>7, <1>8, <1>9, <1>10 DEF EncodeInv

(* What every step starts from: with the waiting bytes inserted, the       *)
(* instructions restore what was read.                                     *)
LEMMA SoFar ==
    ASSUME EncodeInv
    PROVE  /\ base \in Seq(Nat) /\ Len(base) \in Nat /\ Len(base) <= MaxTarget
           /\ target \in Seq(Nat) /\ Len(target) \in Nat /\ Len(target) <= MaxTarget
           /\ ti \in Nat /\ ti <= Len(target) /\ Flushed \in Nat /\ Flushed <= ti
           /\ Yields(base, delta \o InsertOps(pending), SubSeq(target, 1, ti))
<1>1. /\ base \in Seq(Nat) /\ Len(base) \in Nat /\ Len(base) <= MaxTarget
      /\ target \in Seq(Nat) /\ Len(target) \in Nat /\ Len(target) <= MaxTarget
  BY ContentIs DEF EncodeInv
<1>2. /\ ti \in 0..Len(target) /\ pending \in Seq(Nat) /\ Len(pending) <= ti
      /\ pending = SubSeq(target, Flushed + 1, ti)
      /\ Yields(base, delta, SubSeq(target, 1, Flushed))
  BY DEF EncodeInv
<1>3. Len(pending) \in Nat  BY <1>2, SeqIs
<1>4. ti \in Nat /\ ti <= Len(target) /\ Flushed \in Nat /\ Flushed <= ti
  BY <1>1, <1>2, <1>3 DEF Flushed
<1>5. Yields(base, InsertOps(pending), pending)  BY <1>1, <1>2, YieldsInserts
<1>6. Yields(base, delta \o InsertOps(pending), SubSeq(target, 1, Flushed) \o pending)
  BY <1>2, <1>5, YieldsBoth
<1>7. SubSeq(target, 0 + 1, Flushed) \o SubSeq(target, Flushed + 1, ti) = SubSeq(target, 0 + 1, ti)
  BY <1>1, <1>4, SplitIs
<1>8. 0 + 1 = 1  OBVIOUS
<1>9. SubSeq(target, 1, Flushed) \o pending = SubSeq(target, 1, ti)  BY <1>2, <1>7, <1>8
<1> QED  BY <1>1, <1>4, <1>6, <1>9

LEMMA CopyInv == EncodeInv /\ Copy => EncodeInv'
<1> SUFFICES ASSUME EncodeInv, Copy PROVE EncodeInv'
  OBVIOUS
<1> DEFINE bi == Min(Hits)
           len == MatchLen(bi, ti)
<1>1. /\ at = "scan" /\ Hits # {}
      /\ delta' = delta \o InsertOps(pending) \o CopyOps(bi, len)
      /\ ti' = ti + len /\ pending' = <<>>
      /\ base' = base /\ target' = target /\ index' = index /\ at' = at
  BY DEF Copy
<1>2. /\ base \in Seq(Nat) /\ Len(base) \in Nat /\ Len(base) <= MaxTarget
      /\ target \in Seq(Nat) /\ Len(target) \in Nat
      /\ ti \in Nat /\ ti <= Len(target)
      /\ Yields(base, delta \o InsertOps(pending), SubSeq(target, 1, ti))
  BY SoFar
<1>3. Hits \subseteq 0..Len(base)
  <2>1. \A h \in DOMAIN index : index[h] \subseteq 0..Len(base)  BY DEF EncodeInv, Indexed
  <2> QED  BY <2>1 DEF Hits, Found, Scanned
<1>4. bi \in 0..Len(base)
  <2>1. Hits \in SUBSET Nat  BY <1>2, <1>3
  <2>2. bi \in Hits  BY <1>1, <2>1, LeastIs
  <2> QED  BY <1>3, <2>2
<1>5. /\ len \in Nat /\ bi + len <= Len(base) /\ ti + len <= Len(target)
      /\ SubSeq(base, bi + 1, bi + len) = SubSeq(target, ti + 1, ti + len)
  <2>1. ti \in 0..Len(target)  BY <1>2
  <2> HIDE DEF bi
  <2> QED  BY <1>2, <1>4, <2>1, MatchLenIs
<1> HIDE DEF bi, len
<1>6. bi \in Nat /\ ti + len \in Nat /\ ti <= ti + len  BY <1>2, <1>4, <1>5
<1>7. Yields(base, CopyOps(bi, len), SubSeq(target, ti + 1, ti + len))
  BY <1>2, <1>5, <1>6, YieldsCopies
<1>8. Yields(base, delta', SubSeq(target, 1, ti) \o SubSeq(target, ti + 1, ti + len))
  BY <1>1, <1>2, <1>7, YieldsBoth
<1>9. SubSeq(target, 0 + 1, ti) \o SubSeq(target, ti + 1, ti + len)
        = SubSeq(target, 0 + 1, ti + len)
  <2> DEFINE m == ti + len
  <2>1. /\ 0 \in Nat /\ 0 <= ti /\ ti \in Nat /\ m \in Nat /\ ti <= m /\ m <= Len(target)
        /\ target \in Seq(Nat)
    BY <1>2, <1>5, <1>6
  <2> HIDE DEF m
  <2>2. SubSeq(target, 0 + 1, ti) \o SubSeq(target, ti + 1, m) = SubSeq(target, 0 + 1, m)
    BY <2>1, SplitIs
  <2> QED  BY <2>2 DEF m
<1>10. Yields(base, delta', SubSeq(target, 1, ti + len))
  <2>1. 0 + 1 = 1  OBVIOUS
  <2> QED  BY <1>8, <1>9, <2>1
<1>11. pending' \in Seq(Nat) /\ Len(pending') = 0  BY <1>1
<1>12. Flushed' = ti + len  BY <1>1, <1>6, <1>11 DEF Flushed
<1>13. SubSeq(target, (ti + len) + 1, ti + len) = <<>>  BY <1>2, <1>5, <1>6, NoneOf
<1>14. /\ base \in Contents \ {<<>>} /\ target \in Contents /\ Indexed
  BY DEF EncodeInv
<1>15. Indexed'  BY <1>1, <1>14 DEF Indexed
<1>16. ti' \in 0..Len(target) /\ Len(pending') <= ti'  BY <1>1, <1>2, <1>5, <1>6, <1>11
<1>17. at' # "done"  BY <1>1
<1> QED
  BY <1>1, <1>10, <1>11, <1>12, <1>13, <1>14, <1>15, <1>16, <1>17 DEF EncodeInv

LEMMA InsertInv == EncodeInv /\ Insert => EncodeInv'
<1> SUFFICES ASSUME EncodeInv, Insert PROVE EncodeInv'
  OBVIOUS
<1> DEFINE more == Append(pending, target[ti + 1])
<1>1. /\ at = "scan" /\ ti < Len(target) /\ ti' = ti + 1
      /\ IF Len(more) = MaxInsert
         THEN pending' = <<>> /\ delta' = delta \o InsertOps(more)
         ELSE pending' = more /\ delta' = delta
      /\ base' = base /\ target' = target /\ at' = at
  BY DEF Insert
<1>2. index' = index \/ index' = Restrict(index, DOMAIN index \ {Bucket})  BY DEF Insert
<1>3. /\ base \in Seq(Nat) /\ target \in Seq(Nat) /\ Len(target) \in Nat
      /\ ti \in Nat /\ Flushed \in Nat /\ Flushed <= ti
  BY SoFar
<1>4. /\ base \in Contents \ {<<>>} /\ target \in Contents
      /\ pending \in Seq(Nat) /\ Len(pending) <= ti
      /\ pending = SubSeq(target, Flushed + 1, ti)
      /\ Yields(base, delta, SubSeq(target, 1, Flushed))
      /\ \A h \in DOMAIN index : index[h] \subseteq 0..Len(base)
  BY DEF EncodeInv, Indexed
<1>5. Indexed'
  <2>1. \A h \in DOMAIN index' : h \in DOMAIN index /\ index'[h] = index[h]
    BY <1>2 DEF Restrict
  <2> QED  BY <1>1, <1>4, <2>1 DEF Indexed
<1>6. Len(pending) \in Nat /\ Flushed = ti - Len(pending)  BY <1>4, SeqIs DEF Flushed
<1>7. ti + 1 \in Nat /\ ti + 1 <= Len(target) /\ ti + 1 \in 1..Len(target)
  BY <1>1, <1>3
<1>8. more = SubSeq(target, Flushed + 1, ti + 1) /\ more \in Seq(Nat)
      /\ Len(more) = Len(pending) + 1
  <2> DEFINE x == target[ti + 1]
             s == SubSeq(target, Flushed + 1, ti + 1)
             n == Len(pending)
  <2>1. x \in Nat  BY <1>3, <1>7, SeqIs
  <2> HIDE DEF x
  <2>2. /\ more \in Seq(Nat) /\ Len(more) = n + 1 /\ more[n + 1] = x
        /\ \A i \in 1..n : more[i] = pending[i]
    <3>1. pending \in Seq(Nat)  BY <1>4
    <3> QED  BY <2>1, <3>1 DEF x
  <2>3. n \in Nat /\ (ti + 1) - Flushed = n + 1 /\ Flushed <= ti + 1 /\ ti - Flushed = n
        /\ Flushed + (n + 1) = ti + 1
    BY <1>3, <1>6
  <2>4. /\ s \in Seq(Nat) /\ Len(s) = n + 1 /\ \A i \in 1..(n + 1) : s[i] = target[Flushed + i]
    <3>1. /\ s \in Seq(Nat) /\ Len(s) = (ti + 1) - Flushed
          /\ \A i \in 1..((ti + 1) - Flushed) : s[i] = target[Flushed + i]
      <4>1. Flushed \in Nat /\ ti + 1 \in Nat /\ Flushed <= ti + 1 /\ ti + 1 <= Len(target)
        BY <1>3, <1>7, <2>3
      <4> QED  BY <1>3, <4>1, SubSeqIs
    <3> QED  BY <2>3, <3>1
  <2>5. \A i \in 1..n : pending[i] = target[Flushed + i]
    <3>1. ti <= Len(target)  BY <1>1, <1>3
    <3>2. \A i \in 1..(ti - Flushed) : SubSeq(target, Flushed + 1, ti)[i] = target[Flushed + i]
      BY <1>3, <3>1, SubSeqIs
    <3> QED  BY <1>4, <2>3, <3>2
  <2> HIDE DEF more, s, n
  <2>6. \A i \in 1..(n + 1) : more[i] = s[i]
    <3>1. ASSUME NEW i \in 1..(n + 1) PROVE more[i] = s[i]
      <4>1. CASE i = n + 1  BY <2>2, <2>3, <2>4, <4>1 DEF x
      <4>2. CASE i # n + 1
        <5>1. i \in 1..n  BY <2>3, <4>2
        <5> QED  BY <2>2, <2>4, <2>5, <5>1
      <4> QED  BY <4>1, <4>2
    <3> QED  BY <3>1
  <2>7. more = s  BY <2>2, <2>4, <2>6, SameSeq
  <2> QED  BY <2>2, <2>7 DEF s, n
<1> HIDE DEF more
<1>9. at' # "done" /\ ti' \in 0..Len(target)  BY <1>1, <1>3, <1>7
<1>10. CASE Len(more) # MaxInsert
  <2>1. pending' = more /\ delta' = delta  BY <1>1, <1>10
  <2>2. Flushed' = Flushed
    <3>1. Flushed' = ti' - Len(pending')  BY DEF Flushed
    <3>2. (ti + 1) - (Len(pending) + 1) = ti - Len(pending)  BY <1>3, <1>6
    <3> QED  BY <1>1, <1>6, <1>8, <2>1, <3>1, <3>2
  <2>3. Len(pending') <= ti'
    <3>1. Len(pending) <= ti /\ ti \in Nat /\ Len(pending) \in Nat  BY <1>3, <1>4, <1>6
    <3>2. Len(pending) + 1 <= ti + 1  BY <3>1
    <3> QED  BY <1>1, <1>8, <2>1, <3>2
  <2> QED  BY <1>1, <1>4, <1>5, <1>8, <1>9, <2>1, <2>2, <2>3 DEF EncodeInv
<1>11. CASE Len(more) = MaxInsert
  <2>1. pending' = <<>> /\ delta' = delta \o InsertOps(more)  BY <1>1, <1>11
  <2>2. pending' \in Seq(Nat) /\ Len(pending') = 0  BY <2>1
  <2>3. Flushed' = ti + 1
    <3>1. Flushed' = ti' - Len(pending')  BY DEF Flushed
    <3> QED  BY <1>1, <1>7, <2>2, <3>1
  <2>4. Yields(base, delta', SubSeq(target, 1, Flushed) \o more)
    <3>1. Yields(base, InsertOps(more), more)  BY <1>3, <1>8, YieldsInserts
    <3> QED  BY <1>4, <2>1, <3>1, YieldsBoth
  <2>5. SubSeq(target, 1, Flushed) \o more = SubSeq(target, 1, ti + 1)
    <3>1. 0 + 1 = 1 /\ 0 <= Flushed /\ Flushed <= ti + 1  BY <1>3
    <3>2. SubSeq(target, 0 + 1, Flushed) \o SubSeq(target, Flushed + 1, ti + 1)
            = SubSeq(target, 0 + 1, ti + 1)
      BY <1>3, <1>7, <3>1, SplitIs
    <3> QED  BY <1>8, <3>1, <3>2
  <2>6. SubSeq(target, (ti + 1) + 1, ti + 1) = <<>>  BY <1>3, <1>7, NoneOf
  <2>7. Len(pending') <= ti'  BY <1>1, <1>3, <2>2
  <2> QED  BY <1>1, <1>4, <1>5, <1>9, <2>1, <2>2, <2>3, <2>4, <2>5, <2>6, <2>7 DEF EncodeInv
<1> QED  BY <1>10, <1>11

LEMMA FinishInv == EncodeInv /\ Finish => EncodeInv'
<1> SUFFICES ASSUME EncodeInv, Finish PROVE EncodeInv'
  OBVIOUS
<1>1. /\ ti = Len(target) /\ delta' = delta \o InsertOps(pending) /\ pending' = <<>>
      /\ base' = base /\ target' = target /\ ti' = ti /\ index' = index
  BY DEF Finish
<1>2. /\ target \in Seq(Nat) /\ Len(target) \in Nat /\ ti \in Nat /\ ti <= Len(target)
      /\ Yields(base, delta \o InsertOps(pending), SubSeq(target, 1, ti))
  BY SoFar
<1>3. pending' \in Seq(Nat) /\ Len(pending') = 0  BY <1>1
<1>4. Flushed' = ti  BY <1>1, <1>2, <1>3 DEF Flushed
<1>5. SubSeq(target, ti + 1, ti) = <<>>  BY <1>2, NoneOf
<1>6. /\ base \in Contents \ {<<>>} /\ target \in Contents /\ Indexed
  BY DEF EncodeInv
<1>7. Indexed'  BY <1>1, <1>6 DEF Indexed
<1>8. ti' \in 0..Len(target) /\ Len(pending') <= ti'  BY <1>1, <1>2, <1>3
<1> QED  BY <1>1, <1>2, <1>3, <1>4, <1>5, <1>6, <1>7, <1>8 DEF EncodeInv

LEMMA EncodeNextInv == EncodeInv /\ [EncodeNext]_encodeVars => EncodeInv'
<1> SUFFICES ASSUME EncodeInv, [EncodeNext]_encodeVars PROVE EncodeInv'
  OBVIOUS
<1>1. CASE Copy  BY <1>1, CopyInv
<1>2. CASE Insert  BY <1>2, InsertInv
<1>3. CASE Finish  BY <1>3, FinishInv
<1>4. CASE UNCHANGED encodeVars
  BY <1>4 DEF encodeVars, EncodeInv, Flushed, Indexed
<1> QED  BY <1>1, <1>2, <1>3, <1>4 DEF EncodeNext

(* EncodeDelta and ApplyDelta (delta.go 245, 22): at every turn of the     *)
(* loop, what was emitted and what waits restores what was read of the     *)
(* target, and at the end the whole target.                                *)
THEOREM DeltaRestores == EncodeSpec => []Restores
<1>1. EncodeInv => Restores
  <2> SUFFICES ASSUME EncodeInv PROVE Restores
    OBVIOUS
  <2> DEFINE d == delta \o InsertOps(pending)
             t == SubSeq(target, 1, ti)
             x == VarintLE(Len(base))
             y == VarintLE(ti)
  <2>1. /\ base \in Seq(Nat) /\ Len(base) \in Nat
        /\ target \in Seq(Nat) /\ Len(target) \in Nat /\ Len(target) <= MaxTarget
        /\ ti \in Nat /\ ti <= Len(target) /\ Yields(base, d, t)
    BY SoFar
  <2>2. Len(t) = ti
    <3>1. 0 + 1 = 1 /\ ti - 0 = ti  BY <2>1
    <3>2. Len(SubSeq(target, 0 + 1, ti)) = ti - 0  BY <2>1, SubSeqIs
    <3> QED  BY <3>1, <3>2
  <2>3. Len(t) <= MaxTarget
    <3>1. MaxTarget \in Nat  BY DeltaAssumption
    <3> HIDE DEF t
    <3> QED  BY <2>1, <2>2, <3>1
  <2>4. ApplyDelta(base, (x \o y) \o d) = {t}
    <3> HIDE DEF t, d
    <3> QED  BY <2>1, <2>2, <2>3, ApplyYields
  <2>5. Made(ti) = (x \o y) \o d
    <3>1. x \in Seq(Nat) /\ y \in Seq(Nat)
      <4>1. <<>> \in Seq(Nat)  OBVIOUS
      <4> QED  BY <2>1, <4>1, VarintRoundTrip
    <3>2. x \o y \in Seq(Nat)  BY <3>1, ConcatIs
    <3>3. delta \in Seq(Nat)  BY DEF EncodeInv, Yields
    <3>4. InsertOps(pending) \in Seq(Nat)
      <4>1. pending \in Seq(Nat)  BY DEF EncodeInv
      <4>2. Yields(base, InsertOps(pending), pending)  BY <2>1, <4>1, YieldsInserts
      <4> QED  BY <4>2 DEF Yields
    <3>5. ((x \o y) \o delta) \o InsertOps(pending) = (x \o y) \o (delta \o InsertOps(pending))
      BY <3>2, <3>3, <3>4, ConcatAssoc
    <3> QED  BY <3>5 DEF Made
  <2>6. at = "done" => ti = Len(target) /\ pending = <<>>  BY DEF EncodeInv
  <2> QED  BY <2>4, <2>5, <2>6 DEF Restores
<1> QED  BY <1>1, EncodeInitInv, EncodeNextInv, PTL DEF EncodeSpec
=============================================================================

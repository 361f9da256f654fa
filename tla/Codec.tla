------------------------------- MODULE Codec --------------------------------
(***************************************************************************)
(* The variable-length numbers of packs and deltas.  Base is 128 in the    *)
(* code and Low, the size digit of an entry's first byte, is 16; smaller   *)
(* radices reach the long encodings with small numbers.  More is the       *)
(* continuation bit.                                                       *)
(***************************************************************************)
EXTENDS Integers, Sequences, SequencesExt

CONSTANTS
    Base,
    Low,
    MaxObject,     \* the longest object that is accepted (maxObjectSize, 1 GiB)
    MaxHead,       \* the longest head of an entry: 10 bytes, 64 bits of shift
    MaxDistance    \* the longest distance to a base: 2^31 - 1

ASSUME RadixAssumption ==
    /\ Base \in 2..128
    /\ Low \in 2..16

More == 128
LowBits == 16

(* The bytes up to the first without the continuation bit, or all of them.  *)
Taken(bytes) ==
    LET last == SelectInSeq(bytes, LAMBDA b : b < More)
    IN  IF last = 0 THEN bytes ELSE SubSeq(bytes, 1, last)

EndsIn(bytes) == \E i \in DOMAIN bytes : bytes[i] < More

-----------------------------------------------------------------------------
(* What is left of v when k digits were taken from its low end; with a bias *)
(* of 1 each digit but the lowest stands for one more than it says.         *)
Quotients(v, bias) ==
    LET q[k \in 0..v] == IF k = 0 THEN v ELSE (q[k - 1] \div Base) - bias
    IN  q

(* The digits of v, the most significant first.                             *)
Digits(v, bias) ==
    LET q == Quotients(v, bias)
        last == Min({k \in 0..v : q[k] < Base})
    IN  [i \in 1..(last + 1) |-> q[last + 1 - i] % Base]

(* The number that digits make.                                             *)
Number(digits, bias) ==
    LET x[k \in 0..Len(digits)] ==
            IF k = 0 THEN -bias ELSE (x[k - 1] + bias) * Base + digits[k]
    IN  x[Len(digits)]

(* Every byte but the last has the continuation bit.                        *)
Flagged(digits) ==
    [i \in 1..Len(digits) |-> IF i < Len(digits) THEN More + digits[i] ELSE digits[i]]

Unflagged(bytes) == [i \in 1..Len(bytes) |-> bytes[i] % More]

(* The sizes of a delta's head: least significant digit first.              *)
VarintLE(v) == Flagged(Reverse(Digits(v, 0)))

ReadVarintLE(bytes) ==
    [value |-> Number(Reverse(Unflagged(Taken(bytes))), 0), n |-> Len(Taken(bytes))]

(* The type and the size that start an entry of a pack.                     *)
EntryHead(type, size) ==
    LET first == type * LowBits + (size % Low)
    IN  IF size < Low THEN <<first>> ELSE <<More + first>> \o VarintLE(size \div Low)

(* A size that is accepted fits into the head.  The check of a distance     *)
(* comes with its second byte; what one byte says is short enough.          *)
ASSUME LimitAssumption ==
    /\ MaxObject \in Nat /\ MaxHead \in Nat
    /\ MaxDistance \in Nat /\ MaxDistance >= Base - 1
    /\ \A type \in 0..7, size \in 0..MaxObject : Len(EntryHead(type, size)) <= MaxHead

(* ok says that the size is not refused.                                    *)
ReadEntryHead(bytes) ==
    LET first == bytes[1] % More
        rest == IF bytes[1] < More THEN [value |-> 0, n |-> 0] ELSE ReadVarintLE(Tail(bytes))
        size == (first % LowBits) + Low * rest.value
    IN  [type |-> first \div LowBits, size |-> size, n |-> 1 + rest.n,
         ok |-> 1 + rest.n <= MaxHead /\ size <= MaxObject]

(* Mutant: the digits of a plain number.                                    *)
EncodeOfsPlain(off) == Flagged(Digits(off, 0))

(* The distance to the base of an OFS_DELTA: most significant digit first.  *)
EncodeOfs(off) == Flagged(Digits(off, 1))

ReadOfs(bytes) ==
    LET value == Number(Unflagged(Taken(bytes)), 1)
    IN  [value |-> value, n |-> Len(Taken(bytes)), ok |-> value <= MaxDistance]
=============================================================================

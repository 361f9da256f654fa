------------------------------- MODULE Delta --------------------------------
(***************************************************************************)
(* EncodeDelta, one step of its loop at a time, and ApplyDelta             *)
(* (src/internal/pgs/git/delta.go).  The sizes of the code are constants:  *)
(* deltaWindow 16, deltaBucketScanLimit 64, 127 bytes to an insert, 256    *)
(* values to a byte, four bytes of offset and three of size, hashes modulo *)
(* 2^32, and targets of 1 GiB at most (maxDeltaTarget): ApplyDelta refuses *)
(* a longer one, as the decoder refuses such an object (pack_decode.go).   *)
(***************************************************************************)
EXTENDS Codec, FiniteSetsExt

CONSTANTS Contents, Window, ScanLimit, MaxInsert, Wide, OffsetBytes, SizeBytes,
          HashBase, HashMod, MaxTarget

(* The powers of Wide: one more than what n bytes can say.                  *)
Power[n \in 0..4] == IF n = 0 THEN 1 ELSE Wide * Power[n - 1]

ASSUME DeltaAssumption ==
    /\ Contents \subseteq Seq(0..(Wide - 1))
    /\ Wide \in 2..256
    /\ MaxInsert \in 1..127
    /\ OffsetBytes \in 1..4
    /\ SizeBytes \in 1..3
    /\ {Window, ScanLimit, HashBase, HashMod} \subseteq Nat \ {0}
    /\ MaxTarget \in Nat /\ MaxTarget <= Power[OffsetBytes]
    /\ \A c \in Contents : Len(c) <= MaxTarget

VARIABLES base, target, ti, pending, index, delta, at

encodeVars == <<base, target, ti, pending, index, delta, at>>

-----------------------------------------------------------------------------
HashWindow(w) == FoldLeft(LAMBDA h, b : (h * HashBase + b) % HashMod, 0, w)

HashPow == HashBase ^ (Window - 1)

RollHash(h, out, in) == ((h - out * HashPow) * HashBase + in) % HashMod

(* The positions (from 0) of the windows of b, by hash; the hash of a       *)
(* window is rolled from the one before it.                                 *)
IndexOf(b) ==
    LET last == Len(b) - Window
        hash[i \in 0..last] ==
            IF i = 0 THEN HashWindow(SubSeq(b, 1, Window))
            ELSE RollHash(hash[i - 1], b[i], b[i + Window])
    IN  [h \in {hash[i] : i \in 0..last} |-> {i \in 0..last : hash[i] = h}]

MatchLen(bi, i) ==
    LET most == Min({Len(base) - bi, Len(target) - i})
    IN  Max({n \in 0..most : SubSeq(base, bi + 1, bi + n) = SubSeq(target, i + 1, i + n)})

(* The bytes of v from its low end until nothing is left, or most of them.  *)
LowBytes(v, most) ==
    LET left[k \in 0..most] == IF k = 0 THEN v ELSE left[k - 1] \div Wide
        n == Min({k \in 1..most : k = most \/ left[k] = 0})
    IN  [i \in 1..n |-> left[i - 1] % Wide]

(* One copy instruction: which bytes of offset and of size follow is in its *)
(* first byte.                                                              *)
CopyOpOnce(offset, size) ==
    LET o == LowBytes(offset, OffsetBytes)
        s == LowBytes(size, SizeBytes)
    IN  <<More + (2 ^ Len(o) - 1) + 16 * (2 ^ Len(s) - 1)>> \o o \o s

MaxChunk == Power[SizeBytes] - 1

Chunks(size, most) == 1..((size + most - 1) \div most)
ChunkSize(k, size, most) == Min({most, size - (k - 1) * most})

(* Mutant: every chunk of a long copy starts at the same offset.            *)
CopyOpsStuck(offset, size) ==
    FlattenSeq([k \in Chunks(size, MaxChunk) |->
                  CopyOpOnce(offset, ChunkSize(k, size, MaxChunk))])

CopyOps(offset, size) ==
    FlattenSeq([k \in Chunks(size, MaxChunk) |->
                  CopyOpOnce(offset + (k - 1) * MaxChunk, ChunkSize(k, size, MaxChunk))])

InsertOps(data) ==
    FlattenSeq([k \in Chunks(Len(data), MaxInsert) |->
                  <<ChunkSize(k, Len(data), MaxInsert)>>
                  \o SubSeq(data, (k - 1) * MaxInsert + 1, Min({k * MaxInsert, Len(data)}))])

-----------------------------------------------------------------------------
EncodeInit ==
    /\ base \in Contents \ {<<>>}
    /\ target \in Contents
    /\ ti = 0
    /\ pending = <<>>
    /\ index = IndexOf(base)
    /\ delta = <<>>
    /\ at = "scan"

(* The positions tried for the window of target at ti, the lowest first,    *)
(* and those with a match that is long enough.                              *)
Bucket == HashWindow(SubSeq(target, ti + 1, ti + Window))
Found == ti + Window <= Len(target) /\ Bucket \in DOMAIN index
Scanned ==
    {bi \in index[Bucket] : Cardinality({i \in index[Bucket] : i < bi}) < ScanLimit}
Hits == IF Found THEN {bi \in Scanned : MatchLen(bi, ti) >= Window} ELSE {}

(* The first hit, extended as far as it goes.                               *)
Copy ==
    /\ at = "scan" /\ Hits # {}
    /\ LET bi == Min(Hits)
           len == MatchLen(bi, ti)
       IN  /\ delta' = delta \o InsertOps(pending) \o CopyOps(bi, len)
           /\ ti' = ti + len
    /\ pending' = <<>>
    /\ UNCHANGED <<base, target, index, at>>

(* No match: the byte waits to be inserted, and a bucket that was scanned   *)
(* to its end is dropped.                                                   *)
Insert ==
    /\ at = "scan" /\ Hits = {} /\ ti < Len(target)
    /\ LET more == Append(pending, target[ti + 1])
       IN  IF Len(more) = MaxInsert
           THEN pending' = <<>> /\ delta' = delta \o InsertOps(more)
           ELSE pending' = more /\ delta' = delta
    /\ ti' = ti + 1
    /\ index' = IF Found /\ Cardinality(index[Bucket]) <= ScanLimit
                THEN Restrict(index, DOMAIN index \ {Bucket}) ELSE index
    /\ UNCHANGED <<base, target, at>>

Finish ==
    /\ at = "scan" /\ ti = Len(target)
    /\ delta' = delta \o InsertOps(pending)
    /\ pending' = <<>>
    /\ at' = "done"
    /\ UNCHANGED <<base, target, ti, index>>

EncodeNext == Copy \/ Insert \/ Finish

EncodeSpec == EncodeInit /\ [][EncodeNext]_encodeVars

-----------------------------------------------------------------------------
Bit(op, i) == (op \div 2 ^ i) % 2 = 1

Refused == [pos |-> -1, out |-> <<>>]

(* One instruction of ops, s.pos of whose bytes were read: a copy of a part *)
(* of b, whose bytes of offset and of size are those that bits of op name,  *)
(* or an insert of the bytes that follow.  At the end of ops no turn is left. *)
Turn(b, ops, s) ==
    LET op == ops[s.pos + 1]
        place[i \in 0..7] ==
            IF i = 0 THEN s.pos + 2 ELSE place[i - 1] + (IF Bit(op, i - 1) THEN 1 ELSE 0)
        Field(i) == IF Bit(op, i) THEN ops[place[i]] ELSE 0
        offset == Field(0) + Wide * (Field(1) + Wide * (Field(2) + Wide * Field(3)))
        given == Field(4) + Wide * (Field(5) + Wide * Field(6))
        size == IF given = 0 THEN Power[SizeBytes - 1] ELSE given
        end == IF op >= More THEN place[7] - 1 ELSE s.pos + 1 + op
    IN  IF s = Refused \/ s.pos = Len(ops) THEN s
        ELSE IF op = 0 \/ end > Len(ops) \/ (op >= More /\ offset + size > Len(b)) THEN Refused
        ELSE [pos |-> end,
              out |-> s.out \o IF op >= More THEN SubSeq(b, offset + 1, offset + size)
                               ELSE SubSeq(ops, s.pos + 2, end)]

(* All turns: every one reads a byte at least.                              *)
Replay(b, ops) ==
    LET after[n \in 0..Len(ops)] ==
            IF n = 0 THEN [pos |-> 0, out |-> <<>>] ELSE Turn(b, ops, after[n - 1])
    IN  after[Len(ops)]

(* ApplyDelta: the set of its results, empty when it refuses the delta.     *)
ApplyDelta(b, d) ==
    LET source == ReadVarintLE(d)
        rest == SubSeq(d, source.n + 1, Len(d))
        size == ReadVarintLE(rest)
        end == Replay(b, SubSeq(rest, size.n + 1, Len(rest)))
    IN  IF \/ d = <<>> \/ source.value # Len(b)
           \/ rest = <<>> \/ size.value > MaxTarget
           \/ end = Refused \/ Len(end.out) # size.value
        THEN {} ELSE {end.out}

(* The delta that the instructions so far and the waiting bytes make.       *)
Made(n) == VarintLE(Len(base)) \o VarintLE(n) \o delta \o InsertOps(pending)

(* EncodeDelta's promise (delta.go 245) at every turn of its loop: what was *)
(* emitted, with the bytes that wait, restores exactly the part of target   *)
(* that was read, whatever the hashes collide with, however a copy or an    *)
(* insert is split, and whichever buckets are dropped; at the end the delta *)
(* restores the whole target.                                               *)
Restores ==
    /\ ApplyDelta(base, Made(ti)) = {SubSeq(target, 1, ti)}
    /\ at = "done" => ti = Len(target) /\ pending = <<>>
=============================================================================

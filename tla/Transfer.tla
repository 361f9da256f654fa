------------------------------ MODULE Transfer ------------------------------
(***************************************************************************)
(* A fetch of objects: the walk over what is reachable and the packing of  *)
(* ServeUploadPack (protocol.go, reach.go, pack_encode.go), the connection *)
(* and the decoding of fetchOnce (fetch.go, pack_decode.go).  The server   *)
(* is pgit's own, or another git that may use any delta the format has.    *)
(*                                                                         *)
(* An object's content is its name: a content-addressed store holds no     *)
(* other under it.  The wire is a sequence of pieces, each one tagged: a   *)
(* byte, a deflated content, a base's name, the count and the checksum.    *)
(* A deflated stream is one piece long and its real length is not used.    *)
(* The refs are replaced at the end in one step (module Mirror has the     *)
(* steps).  Deltas restore what they were made from (module Delta).        *)
(***************************************************************************)
EXTENDS Codec, FiniteSets

CONSTANTS
    Objects,       \* numbers
    Type,          \* 1 commit, 2 tree, 3 blob, 4 tag
    Links,         \* the names in each object, in order; a name may be unknown
    Gitlinks,      \* those that stand in a tree as submodules
    Size,          \* the length of each content
    DeltaSize,     \* the length of every delta
    Tips,          \* what the server's refs may be
    Starts,        \* what the refs of the client may be at the start
    Served,        \* what the server has: all that its objects name
    MaxFaults,     \* an object lost or damaged on the server, or a cut
    MaxAttempts

ASSUME TransferAssumption ==
    /\ Objects \subseteq Nat \ {0}
    /\ IsFiniteSet(Objects)
    /\ \A o \in Objects : Links[o] \in Seq(Nat)
    /\ \A o \in Objects : Type[o] \in 1..4 /\ Size[o] \in Nat
    /\ DeltaSize \in Nat
    /\ Served \subseteq Objects
    /\ \A o \in Served : ToSet(Links[o]) \ Gitlinks[o] \subseteq Served
    /\ Tips \subseteq SUBSET Served
    /\ Starts \subseteq SUBSET Objects

VARIABLES lost, damaged, refs, store, sender, wire, ended, reader, outcome, attempts, faults

serverVars == <<lost, damaged>>
clientVars == <<refs, store>>
vars == <<serverVars, clientVars, sender, wire, ended, reader, outcome, attempts, faults>>

Blob == 3
OfsDelta == 6
RefDelta == 7
Garbage == 0

(* The tags of the pieces of the wire.                                      *)
Byte == 1
Deflated == 2
Name == 3
Count == 4
Sum == 5

-----------------------------------------------------------------------------
(* Mutant: the parents of a commit are left out.                            *)
RefsOfFirst(o) ==
    SelectSeq(Links[o], LAMBDA r : r \notin Gitlinks[o] /\ r = Links[o][1])

(* The sequence s without the members of S.                                 *)
Without(s, S) ==
    LET kept[n \in 0..Len(s)] ==
            IF n = 0 THEN <<>>
            ELSE IF s[n] \in S THEN kept[n - 1]
            ELSE Append(kept[n - 1], s[n])
    IN  kept[Len(s)]

(* refsOf: the names in an object in their order, submodules left out.      *)
RefsOf(o) == Without(Links[o], Gitlinks[o])

Kids(o) == ToSet(Links[o]) \ Gitlinks[o]

(* Everything reachable from os through the objects in known.               *)
Reach(os, known) ==
    LET grown[s \in SUBSET known] ==
            LET more == s \cup (known \cap UNION {Kids(o) : o \in s})
            IN  IF more = s THEN s ELSE grown[more]
    IN  grown[os \cap known]

Closure(os) == Reach(os, Objects)

Has == Served \ lost

Idle(tips) == [at |-> "idle", wants |-> tips]

Init ==
    /\ lost \in {{}} \cup {{o} : o \in Served}
    /\ damaged \in {{}} \cup {{o} : o \in Served}
    /\ faults = Cardinality(lost) + Cardinality(damaged)
    /\ faults <= MaxFaults
    /\ refs \in Starts
    /\ store = Closure(refs)
    /\ sender = Idle({})
    /\ reader = [at |-> "idle"]
    /\ wire = <<>>
    /\ ended = "open"
    /\ outcome = "none"
    /\ attempts = 0

(* fetchOnce: the wants and the haves.  Nothing is asked when every         *)
(* advertised value is a local one.                                         *)
Fetch ==
    /\ sender.at = "idle" /\ reader.at = "idle"
    /\ attempts < MaxAttempts
    /\ attempts' = attempts + 1
    /\ \E tips \in Tips, peer \in {"pgit", "git"} :
          /\ ~(tips \subseteq refs)
          /\ sender' = [at |-> "exclude", peer |-> peer, wants |-> tips, todo |-> SetToSeq(refs),
                        exclude |-> {}, metas |-> <<>>,
                        start |-> [o \in {} |-> 0]]
    /\ reader' = [at |-> "head", pos |-> 0, left |-> 0, offsets |-> [p \in {} |-> 0]]
    /\ wire' = <<>> /\ ended' = "open" /\ outcome' = "none"
    /\ UNCHANGED <<serverVars, clientVars, faults>>

-----------------------------------------------------------------------------
(* The server gives up: the handler returns and the response, whose status  *)
(* is long sent, ends like any other.                                       *)
GiveUp ==
    /\ sender' = [sender EXCEPT !.at = "gone"]
    /\ ended' = "eof"
    /\ wire' = wire

(* Mutant: what a have names is excluded, what it reaches is not.           *)
ExcludeTips ==
    /\ sender.at = "exclude" /\ sender.todo # <<>>
    /\ LET o == Head(sender.todo)
       IN  sender' = [sender EXCEPT
              !.exclude = IF o \in Has THEN @ \cup {o} ELSE @,
              !.todo = Tail(@)]
    /\ UNCHANGED <<serverVars, clientVars, wire, ended, reader, outcome, attempts, faults>>

(* WalkReachable, the haves: what the server does not have is passed over.  *)
Exclude ==
    /\ sender.at = "exclude" /\ sender.todo # <<>>
    /\ LET o == Head(sender.todo)
       IN  sender' = [sender EXCEPT
              !.exclude = IF o \in Has THEN @ \cup {o} ELSE @,
              !.todo = IF o \in sender.exclude \/ o \notin Has \/ o \in damaged
                       THEN Tail(@) ELSE Tail(@) \o RefsOf(o)]
    /\ UNCHANGED <<serverVars, clientVars, wire, ended, reader, outcome, attempts, faults>>

(* The wants, in the order the client gave.                                 *)
ExcludeEnds ==
    /\ sender.at = "exclude" /\ sender.todo = <<>>
    /\ \E order \in SetToSeqs(sender.wants) :
          sender' = [sender EXCEPT !.at = "walk", !.todo = order]
    /\ UNCHANGED <<serverVars, clientVars, wire, ended, reader, outcome, attempts, faults>>

(* WalkReachable, the wants.  Stat reads the head of an object; only one    *)
(* that is not a blob is read through here.                                 *)
Walk ==
    /\ sender.at = "walk" /\ sender.todo # <<>>
    /\ LET o == Head(sender.todo)
           known == Contains(sender.metas, o) \/ o \in sender.exclude
       IN  IF known
           THEN /\ sender' = [sender EXCEPT !.todo = Tail(@)]
                /\ UNCHANGED <<wire, ended>>
           ELSE IF o \notin Has \/ (Type[o] # Blob /\ o \in damaged)
           THEN GiveUp
           ELSE /\ sender' = [sender EXCEPT !.metas = Append(@, o),
                                            !.todo = Tail(@) \o RefsOf(o)]
                /\ UNCHANGED <<wire, ended>>
    /\ UNCHANGED <<serverVars, clientVars, reader, outcome, attempts, faults>>

(* Another git that fails says so on the side band, which ends the stream   *)
(* with an error of its own (fetch.go 436).                                 *)
RemoteError ==
    /\ sender.at \in {"walk", "pack"} /\ sender.peer = "git"
    /\ sender' = [sender EXCEPT !.at = "gone"]
    /\ ended' = "error"
    /\ UNCHANGED <<serverVars, clientVars, wire, reader, outcome, attempts, faults>>

(* Nothing to send is answered with a flush alone.  Otherwise encodePack    *)
(* starts: the others in the order found, then the blobs, largest first;    *)
(* the sort leaves blobs of one size in any order.                          *)
StartPack ==
    /\ sender.at = "walk" /\ sender.todo = <<>>
    /\ IF sender.metas = <<>>
       THEN /\ sender' = [sender EXCEPT !.at = "gone"]
            /\ ended' = "flush"
            /\ wire' = wire
       ELSE /\ \E blobs \in SetToSeqs({o \in ToSet(sender.metas) : Type[o] = Blob}) :
                  /\ \A i, j \in DOMAIN blobs : i < j => Size[blobs[i]] >= Size[blobs[j]]
                  /\ sender' = [sender EXCEPT !.at = "pack",
                                   !.todo = Without(sender.metas, ToSet(blobs)) \o blobs]
            /\ wire' = <<<<Count, Len(sender.metas)>>>>
            /\ ended' = ended
    /\ UNCHANGED <<serverVars, clientVars, reader, outcome, attempts, faults>>

Bytes(bs) == [i \in DOMAIN bs |-> <<Byte, bs[i]>>]

Full(o) == Bytes(EntryHead(Type[o], Size[o])) \o <<<<Deflated, o>>>>

(* A delta's distance is from its own first byte to its base's.             *)
Ofs(base, o, own, start) ==
    Bytes(EntryHead(OfsDelta, DeltaSize)) \o Bytes(EncodeOfs(own - start))
    \o <<<<Deflated, base, o>>>>

Ref(base, o) ==
    Bytes(EntryHead(RefDelta, DeltaSize)) \o <<<<Name, base>>, <<Deflated, base, o>>>>

(* The map f with v under the key x.                                        *)
Put(f, x, v) == [y \in DOMAIN f \cup {x} |-> IF y = x THEN v ELSE f[y]]

(* Mutant: the place of a base is taken after it was written.               *)
PlacedLate(start, o, at, entry) == Put(start, o, at + Len(entry))

Placed(start, o, at, entry) == Put(start, o, at)

(* One object whole; what cannot be read ends the pack.                     *)
WriteFull ==
    /\ sender.at = "pack" /\ sender.todo # <<>>
    /\ LET o == Head(sender.todo)
       IN  /\ Type[o] = Blob /\ sender.peer = "pgit" => Len(sender.todo) = 1
           /\ IF o \in damaged THEN GiveUp
              ELSE /\ wire' = wire \o Full(o)
                   /\ sender' = [sender EXCEPT !.todo = Tail(@),
                                   !.start = Placed(@, o, Len(wire), Full(o))]
                   /\ ended' = ended
    /\ UNCHANGED <<serverVars, clientVars, reader, outcome, attempts, faults>>

(* Two blobs: both are read, the larger is written whole and the smaller as *)
(* a delta against it when their sizes are near and the delta pays off.     *)
WritePair ==
    /\ sender.at = "pack" /\ sender.peer = "pgit" /\ Len(sender.todo) >= 2
    /\ LET b == sender.todo[1]
           t == sender.todo[2]
           afterBase == Len(wire) + Len(Full(b))
       IN  /\ Type[b] = Blob
           /\ IF {b, t} \cap damaged # {} THEN GiveUp
              ELSE \E useDelta \in BOOLEAN :
                   /\ useDelta => Size[b] <= 2 * Size[t]
                   /\ LET start == Placed(sender.start, b, Len(wire), Full(b))
                          second == IF useDelta THEN Ofs(b, t, afterBase, start[b]) ELSE Full(t)
                      IN  /\ wire' = wire \o Full(b) \o second
                          /\ sender' = [sender EXCEPT !.todo = SubSeq(@, 3, Len(@)),
                                                      !.start = start]
                   /\ ended' = ended
    /\ UNCHANGED <<serverVars, clientVars, reader, outcome, attempts, faults>>

(* Another git: a delta against anything of the same type that is in the    *)
(* pack already or that the client is known to have.                        *)
WriteForeign ==
    /\ sender.at = "pack" /\ sender.peer = "git" /\ sender.todo # <<>>
    /\ LET o == Head(sender.todo)
       IN  /\ o \notin damaged
           /\ \E base \in DOMAIN sender.start \cup sender.exclude :
              /\ Type[base] = Type[o]
              /\ \/ /\ base \in DOMAIN sender.start
                    /\ wire' = wire \o Ofs(base, o, Len(wire), sender.start[base])
                 \/ wire' = wire \o Ref(base, o)
           /\ sender' = [sender EXCEPT !.todo = Tail(@), !.start = Put(@, o, Len(wire))]
    /\ UNCHANGED <<serverVars, clientVars, ended, reader, outcome, attempts, faults>>

SumOf(w) == <<Sum>> \o FlattenSeq(w)

(* The checksum and the flush that ends the response.                       *)
EndPack ==
    /\ sender.at = "pack" /\ sender.todo = <<>>
    /\ wire' = Append(wire, SumOf(wire))
    /\ sender' = [sender EXCEPT !.at = "gone"]
    /\ ended' = "flush"
    /\ UNCHANGED <<serverVars, clientVars, reader, outcome, attempts, faults>>

(* The connection is cut; any part of what was written is lost.             *)
Cut ==
    /\ reader.at = "head"
    /\ ended # "broken"
    /\ faults < MaxFaults
    /\ faults' = faults + 1
    /\ \E n \in 0..Len(wire) : wire' = SubSeq(wire, 1, n)
    /\ sender' = [sender EXCEPT !.at = "gone"]
    /\ ended' = "broken"
    /\ UNCHANGED <<serverVars, clientVars, reader, outcome, attempts>>

-----------------------------------------------------------------------------
Rest == SubSeq(wire, reader.pos + 1, Len(wire))

(* The call returns.                                                        *)
Returns(result) ==
    /\ outcome' = result
    /\ reader' = [at |-> "idle"]
    /\ sender' = Idle(sender.wants)
    /\ wire' = wire

(* What is read depends on what was written and not on when, so the reading *)
(* starts when the response has ended or was cut.                           *)
ReadHead ==
    /\ reader.at = "head" /\ Rest # <<>> /\ ended # "open"
    /\ reader' = [reader EXCEPT !.at = "objects", !.pos = 1, !.left = Rest[1][2]]
    /\ UNCHANGED <<serverVars, clientVars, sender, wire, ended, outcome, attempts, faults>>

(* isUpToDate: whatever ended the stream before its head was read.  A cut   *)
(* may also have come before the answer to the haves, which fails.          *)
NoHead ==
    /\ reader.at = "head" /\ Rest = <<>> /\ ended # "open"
    /\ \/ Returns("upToDate")
       \/ ended = "broken" /\ Returns("failed")
    /\ UNCHANGED <<serverVars, clientVars, ended, attempts, faults>>

(* The bytes before the first piece that is none.                           *)
BytesOf(rest) ==
    LET other == SelectInSeq(rest, LAMBDA p : p[1] # Byte)
    IN  [i \in 1..(IF other = 0 THEN Len(rest) ELSE other - 1) |-> rest[i][2]]

(* The next entry: its head, the distance or the name of a base, and the    *)
(* content; n is 0 when the stream ends within it.  It is not ok when its   *)
(* size or its distance is beyond the limit.                                *)
EntryOf(rest, pos) ==
    LET bytes == BytesOf(rest)
        head == ReadEntryHead(bytes)
        more == SubSeq(bytes, head.n + 1, Len(bytes))
        n == head.n + 1 + CASE head.type = OfsDelta -> Len(Taken(more))
                            [] head.type = RefDelta -> 1
                            [] OTHER -> 0
    IN  IF \/ ~EndsIn(bytes)
           \/ head.type = OfsDelta /\ ~EndsIn(more)
           \/ n > Len(rest)
        THEN [n |-> 0]
        ELSE [n |-> n, type |-> head.type, size |-> head.size, body |-> rest[n],
              ok |-> head.ok /\ (head.type = OfsDelta => ReadOfs(more).ok),
              base |-> CASE head.type = OfsDelta -> pos - ReadOfs(more).value
                         [] head.type = RefDelta -> rest[n - 1][2]
                         [] OTHER -> 0]

Entry == EntryOf(Rest, reader.pos)

(* What a delta makes of a base: its content when the base is the one it    *)
(* was made for, and if it is not, an error or, should the sizes agree,     *)
(* something else.  What would be longer than the limit is refused.         *)
Patch(base, body) ==
    IF Size[body[3]] > MaxObject THEN {}
    ELSE IF base = body[2] THEN {body[3]}
    ELSE IF Size[base] = Size[body[2]] THEN {Garbage} ELSE {}

(* readObject: the object that the entry is, if it is accepted.             *)
ResultsOf(e) ==
    LET bases == CASE e.type = OfsDelta ->
                        {reader.offsets[p] : p \in DOMAIN reader.offsets \cap {e.base}}
                   [] e.type = RefDelta -> {e.base}
                   [] OTHER -> {}
    IN  IF ~e.ok THEN {}
        ELSE IF e.type \in {OfsDelta, RefDelta}
        THEN IF e.size # DeltaSize THEN {}
             ELSE UNION {Patch(b, e.body) : b \in bases \cap (store \ {Garbage})}
        ELSE {o \in {e.body[2]} : Size[o] = e.size /\ Type[o] = e.type}

(* Every object is stored as soon as it is decoded.  One that is refused    *)
(* fails the fetch, and so does one that cannot be written.                 *)
ReadObject ==
    /\ reader.at = "objects" /\ reader.left > 0
    /\ LET e == Entry
       IN  /\ e.n > 0
           /\ IF ResultsOf(e) = {}
              THEN Returns("failed") /\ store' = store
              ELSE \/ Returns("unstored") /\ store' = store
                   \/ \E o \in ResultsOf(e) :
                      /\ store' = store \cup {o}
                      /\ reader' = [reader EXCEPT !.left = @ - 1, !.pos = @ + e.n,
                                                  !.offsets = Put(@, reader.pos, o)]
                      /\ UNCHANGED <<sender, wire, outcome>>
    /\ UNCHANGED <<serverVars, refs, ended, attempts, faults>>

(* The stream ends within the pack.  An end that is an io.EOF passes for    *)
(* "up to date", and so does an error whose text has the words that are     *)
(* looked for; a broken connection is an unexpected EOF and is retried.     *)
Starved ==
    /\ reader.at = "objects" /\ ended # "open"
    /\ IF reader.left > 0 THEN Entry.n = 0 ELSE Rest = <<>>
    /\ \/ ended \in {"eof", "error"} /\ Returns("upToDate")
       \/ ended # "eof" /\ Returns("failed")
    /\ UNCHANGED <<serverVars, clientVars, ended, attempts, faults>>

(* The checksum, the end of the response, and then the refs.                *)
Accept ==
    /\ reader.at = "objects" /\ reader.left = 0
    /\ Rest # <<>> /\ ended # "open"
    /\ IF Rest = <<SumOf(SubSeq(wire, 1, reader.pos))>> /\ ended = "flush"
       THEN refs' = sender.wants /\ Returns("done")
       ELSE refs' = refs /\ Returns("failed")
    /\ UNCHANGED <<serverVars, store, ended, attempts, faults>>

Next ==
    \/ Fetch
    \/ Exclude \/ ExcludeEnds \/ Walk \/ StartPack \/ RemoteError
    \/ WriteFull \/ WritePair \/ WriteForeign \/ EndPack
    \/ ReadHead \/ NoHead \/ ReadObject \/ Starved \/ Accept
    \/ Cut

Spec == Init /\ [][Next]_vars

-----------------------------------------------------------------------------
(* Whatever was cut, lost or damaged, everything that a ref of the client   *)
(* reaches is in its store: the refs are moved after the whole pack, and    *)
(* what is left out of a pack is what the client's refs reach               *)
(* (reach.go 168, fetch.go 533).                                            *)
Complete == Closure(refs) \subseteq store

(* The store has nothing but the objects there are: no entry is read from   *)
(* the wrong place and no delta is laid on the wrong base                   *)
(* (pack_decode.go 186, pack_encode.go 120).                                *)
Genuine == store \subseteq Objects

(* What the decoder has limits for: an object or a delta of more than 1 GiB *)
(* and, in a pack beyond 2 GiB, a base that is far back.                    *)
TooLarge ==
    \/ \E o \in Closure(sender.wants) : Size[o] > MaxObject
    \/ DeltaSize > MaxObject
    \/ Len(wire) > MaxDistance

(* A pack that arrives is accepted, from pgit or from a git that sends any  *)
(* delta there is, unless it is beyond the limits: otherwise only a broken  *)
(* connection or an error that the remote reports fails the decoding        *)
(* (protocol.go 634, pack_decode.go 84).  And as long as no object is       *)
(* unreadable, no connection cut and no error reported, "up to date" means  *)
(* that the client has everything (fetch.go 132, 600).                      *)
NeverRefused ==
    /\ outcome = "failed" => ended \in {"broken", "error"} \/ TooLarge
    /\ outcome = "upToDate" /\ faults = 0 /\ ended # "error" =>
          Closure(sender.wants) \subseteq Closure(refs)

(* What is sent: each object once, all that the wants reach and the         *)
(* client's refs do not, and nothing else: neither what the wants do not    *)
(* reach nor what the server can see the client has (reach.go 161).         *)
SentExactly ==
    sender.at = "pack" =>
        LET sent == ToSet(sender.metas)
        IN  /\ Cardinality(sent) = Len(sender.metas)
            /\ Closure(sender.wants) \ Closure(refs) \subseteq sent
            /\ sent \subseteq Closure(sender.wants)
            /\ sent \cap Reach(refs, Has \ damaged) = {}
=============================================================================

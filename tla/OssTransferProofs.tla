-------------------------- MODULE OssTransferProofs --------------------------
(***************************************************************************)
(* Proofs about OssTransfer, for any number of goroutines, any chunks, any *)
(* part size and any failures of the store.                                *)
(***************************************************************************)
EXTENDS OssTransfer, FiniteSetTheorems, SequenceTheorems, WellFoundedInduction, TLAPS

\* A goroutine's operation on the upload, by where it is in Send.
PartOps == [kind : {"part"}, partNumber : Nat, partStart : Nat, payload : Seq(Nat)]
CompleteOps == [kind : {"complete"}, parts : Seq(Nat)]
NotifyOps == [kind : {"notify"}, at : Nat]

Segments == UNION {[D -> Nat] : D \in SUBSET Nat}
PutParts == UNION {[D -> Seq(Nat)] : D \in SUBSET Nat}
Parts == [partNumber : Nat, start : Nat, end : Nat]
States ==
  [init : {"pending", "done", "failed"}, eofSeen : BOOLEAN, totalSize : {FileSize},
   covered : SUBSET Nat, nextOffset : Nat, pendingPartBuffer : Seq(Nat),
   pendingSegments : Segments, pendingBytes : Int,
   uploadedParts : Seq(Parts), nextPartNumber : Nat, uploading : BOOLEAN]

Drivers == {"next", "put", "complete"}
Labels == {"idle", "new", "join", "accept", "delete", "notify", "fail", "abort"} \cup Drivers

TypeInv ==
  /\ sessions \in 0..MaxSessions /\ states \in 1..sessions \cup {None}
  /\ transfer \in [Sessions -> States \cup {None}]
  /\ \A s \in 1..sessions : transfer[s] \in States
  /\ pc \in [Workers -> Labels]
  /\ chunk \in [Workers -> Chunks \cup {None}]
  /\ session \in [Workers -> 1..sessions \cup {None}]
  /\ op \in [Workers -> PartOps \cup CompleteOps \cup NotifyOps \cup {None}]
  /\ upload \in [Sessions -> {"none", "open", "completed", "aborted"}]
  /\ stored \in [Sessions -> PutParts]
  /\ object \in [Sessions -> Seq(Seq(Nat))]
  /\ failed \in [Sessions -> SUBSET {"new", "put", "complete", "limit", "abort"}]
  /\ notified \in [Sessions -> [Notifiers -> Nat]]
  /\ notifiers \in [Notifiers -> {"none", "open", "closed"}]
  /\ closed \in BOOLEAN

\* A goroutine in Send has its chunk, its session and the operation it is at; no
\* session is made before all notifiers are, nor does a goroutine outlive them.
CallInv ==
  /\ \A w \in Workers : pc[w] # "idle" =>
       chunk[w] \in Chunks /\ session[w] \in 1..sessions /\ Built
  /\ \A w \in Workers :
       /\ pc[w] = "put" => op[w] \in PartOps
       /\ pc[w] = "complete" => op[w] \in CompleteOps
       /\ pc[w] = "notify" => op[w] \in NotifyOps
  /\ closed => states = None /\ \A n \in Notifiers : notifiers[n] # "open"
  /\ ~closed /\ ~Built => sessions = 0
  /\ sessions > 0 => FileSize > 0

\* getOrCreateTransferState: one goroutine opens the upload of a session while the
\* others wait, and it stays in the map until then. An open upload is found there,
\* or is about to be aborted, or its abort failed.
OpenInv ==
  /\ \A w \in Workers : pc[w] = "new" =>
       /\ states = session[w] /\ transfer[session[w]].init = "pending"
       /\ \A v \in Workers : pc[v] = "new" => v = w
  /\ \A w \in Workers : pc[w] \notin {"idle", "new", "join"} =>
       transfer[session[w]].init = "done"
  /\ \A s \in Sessions :
       /\ upload[s] # "none" => s <= sessions /\ transfer[s].init = "done"
       /\ upload[s] = "open" =>
            \/ states = s \/ "abort" \in failed[s]
            \/ \E w \in Workers : session[w] = s /\ pc[w] = "abort"

\* uploading is a lock, and ready work without a driver has a reason.
DriveInv ==
  /\ \A v, w \in Workers :
       pc[v] \in Drivers /\ pc[w] \in Drivers /\ session[v] = session[w] => v = w
  /\ \A s \in 1..sessions :
       /\ transfer[s].uploading <=>
            \E w \in Workers : session[w] = s /\ pc[w] \in Drivers
       /\ hasUploadWork(transfer[s]) /\ ~transfer[s].uploading =>
            upload[s] = "completed" \/ failed[s] # {}

\* The contiguous prefix of the file is the uploaded parts and the buffer, with the
\* part in the driver's hands between them.
PartInv(puts, parts) ==
  \A i \in 1..Len(parts) :
    /\ parts[i].partNumber = i
    /\ parts[i].start = IF i = 1 THEN 0 ELSE parts[i - 1].end
    /\ parts[i].start < parts[i].end
    /\ i \in DOMAIN puts
    /\ puts[i] = Bytes(parts[i].start, parts[i].end)
Prefix(t, puts) ==
  /\ PartInv(puts, t.uploadedParts)
  /\ t.nextPartNumber = Len(t.uploadedParts) + 1
  /\ uploadedEnd(t) \in Nat /\ uploadedEnd(t) <= t.nextOffset /\ t.nextOffset <= FileSize
  /\ \A o \in DOMAIN t.pendingSegments :
       [start |-> o, end |-> t.pendingSegments[o]] \in Chunks
Taken(s) == \E w \in Workers : session[w] = s /\ pc[w] = "put"
PrefixInv ==
  \A s \in 1..sessions :
    /\ Prefix(transfer[s], stored[s])
    /\ Taken(s) \/ transfer[s].pendingPartBuffer =
                     Bytes(uploadedEnd(transfer[s]), transfer[s].nextOffset)
InHand(t, o) ==
  LET end == o.partStart + Len(o.payload) IN
  /\ o.partNumber = t.nextPartNumber /\ o.partStart = uploadedEnd(t)
  /\ Len(o.payload) > 0 /\ end <= t.nextOffset
  /\ o.payload = Bytes(o.partStart, end)
  /\ t.pendingPartBuffer = Bytes(end, t.nextOffset)
PutInv == \A w \in Workers : pc[w] = "put" => InHand(transfer[session[w]], op[w])
AllParts(t, o) ==
  /\ uploadedEnd(t) = FileSize
  /\ o.parts = [i \in 1..Len(t.uploadedParts) |-> i]
CompleteInv == \A w \in Workers : pc[w] = "complete" => AllParts(transfer[session[w]], op[w])
ByteInv == PrefixInv /\ PutInv /\ CompleteInv

\* The notifiers hear of an answered completion, once, from the one goroutine that
\* got the answer.
NoteInv ==
  /\ \A v, w \in Workers :
       pc[v] \in {"delete", "notify"} /\ pc[w] \in {"delete", "notify"}
         /\ session[v] = session[w] => v = w
  /\ \A w \in Workers : pc[w] \in {"delete", "notify"} => upload[session[w]] = "completed"
  /\ \A w \in Workers : pc[w] = "delete" =>
       \A n \in Notifiers : notified[session[w]][n] = 0
  /\ \A w \in Workers : pc[w] = "notify" =>
       \A n \in Notifiers : notified[session[w]][n] = IF n < op[w].at THEN 1 ELSE 0
  /\ \A s \in Sessions :
       /\ \A n \in Notifiers :
            notified[s][n] \in {0, 1} /\ (notified[s][n] = 1 => upload[s] = "completed")
       /\ upload[s] = "completed" /\ "complete" \notin failed[s] =>
            \/ \E w \in Workers : session[w] = s /\ pc[w] \in {"delete", "notify"}
            \/ \A n \in Notifiers : notified[s][n] = 1

OssInv == TypeInv /\ CallInv /\ OpenInv /\ DriveInv /\ ByteInv /\ ObjectIntact /\ NoteInv

\* The chunks of one reading of the file: streamObject and streamFile go on where the
\* last chunk ended. Each may still be sent several times.
OneReading == \A c, d \in Chunks : c = d \/ c.end <= d.start \/ d.end <= c.start

\* What arrived is the prefix and what waits behind the first gap.
Tiled(t) ==
  /\ t.covered = 0..(t.nextOffset - 1) \cup Waiting(t)
  /\ FileSize - 1 \in t.covered => t.eofSeen
  /\ \A o \in DOMAIN t.pendingSegments : o > t.nextOffset
  /\ \A c \in Chunks : c.end <= t.nextOffset \/ c.start >= t.nextOffset
  /\ IsFiniteSet(Waiting(t)) /\ t.pendingBytes = Cardinality(Waiting(t))

\* The limit on what waits is passed only in a transfer that is given up.
GivenUp(s) == states # s \/ \E w \in Workers : session[w] = s /\ pc[w] = "fail"
TileInv ==
  \A s \in 1..sessions :
    Tiled(transfer[s]) /\ (transfer[s].pendingBytes > PendingLimit => GivenUp(s))

-----------------------------------------------------------------------------
(* Numbers and bytes.                                                      *)

LEMMA Least ==
  ASSUME NEW T \in SUBSET Nat, T # {}
  PROVE  \E m \in T : \A n \in T : m <= n
  <1> DEFINE R == OpToRel(<, Nat)
  <1>1. PICK m \in T : \A n \in T : ~(<<n, m>> \in R)
    <2>1. IsWellFoundedOn(R, Nat) BY NatLessThanWellFounded
    <2> HIDE DEF R
    <2> QED BY <2>1, WFMin
  <1>2. \A n \in T : ~(n < m)
    BY <1>1 DEF OpToRel
  <1> QED BY <1>2

LEMMA BytesType ==
  ASSUME NEW a \in Nat, NEW b \in Nat, a <= b
  PROVE  /\ Bytes(a, b) \in Seq(Nat) /\ Len(Bytes(a, b)) = b - a
         /\ DOMAIN Bytes(a, b) = 1..(b - a)
         /\ \A i \in 1..(b - a) : Bytes(a, b)[i] = a + i - 1
         /\ Consecutive(Bytes(a, b))
  <1>1. \A i \in 1..(b - a) : a + i - 1 \in Nat
    OBVIOUS
  <1>2. Bytes(a, b) \in [1..(b - a) -> Nat] /\ b - a \in Nat
    BY <1>1 DEF Bytes
  <1>3. Bytes(a, b) \in Seq(Nat) /\ Len(Bytes(a, b)) = b - a
    BY <1>2
  <1>4. \A i \in 1..(b - a) : Bytes(a, b)[i] = a + i - 1
    BY DEF Bytes
  <1> QED BY <1>2, <1>3, <1>4 DEF Consecutive

\* What is appended to the prefix goes on where it ended.
LEMMA BytesJoin ==
  ASSUME NEW a \in Nat, NEW b \in Nat, NEW c \in Nat, a <= b, b <= c
  PROVE  Bytes(a, b) \o Bytes(b, c) = Bytes(a, c)
  <1>1. PICK p : p = Bytes(a, b)
    OBVIOUS
  <1>2. PICK q : q = Bytes(b, c)
    OBVIOUS
  <1>3. PICK r : r = Bytes(a, c)
    OBVIOUS
  <1>4. p \in Seq(Nat) /\ Len(p) = b - a /\ \A i \in 1..(b - a) : p[i] = a + i - 1
    BY <1>1, BytesType
  <1>5. q \in Seq(Nat) /\ Len(q) = c - b /\ \A i \in 1..(c - b) : q[i] = b + i - 1
    BY <1>2, BytesType
  <1>6. a <= c
    OBVIOUS
  <1>7. r \in Seq(Nat) /\ Len(r) = c - a /\ \A i \in 1..(c - a) : r[i] = a + i - 1
    BY <1>3, <1>6, BytesType
  <1>8. PICK z : z = p \o q
    OBVIOUS
  <1>9. /\ z \in Seq(Nat) /\ Len(z) = (b - a) + (c - b)
        /\ \A i \in 1..((b - a) + (c - b)) :
             z[i] = IF i <= b - a THEN p[i] ELSE q[i - (b - a)]
    <2>1. /\ z \in Seq(Nat) /\ Len(z) = Len(p) + Len(q)
          /\ \A i \in 1..(Len(p) + Len(q)) :
               z[i] = IF i <= Len(p) THEN p[i] ELSE q[i - Len(p)]
      BY <1>4, <1>5, <1>8, ConcatProperties, Zenon
    <2> QED BY <1>4, <1>5, <2>1
  <1>10. Len(z) = c - a /\ \A i \in 1..(c - a) : z[i] = r[i]
    <2>1. (b - a) + (c - b) = c - a
      OBVIOUS
    <2>2. ASSUME NEW i \in 1..(c - a) PROVE z[i] = r[i]
      <3>1. CASE i <= b - a
        BY <1>4, <1>7, <1>9, <2>1, <3>1
      <3>2. CASE i > b - a
        <4>1. z[i] = q[i - (b - a)]
          BY <1>9, <2>1, <3>2
        <4>2. i - (b - a) \in 1..(c - b)
          BY <3>2
        <4> QED BY <1>5, <1>7, <4>1, <4>2
      <3> QED BY <3>1, <3>2
    <2> QED BY <1>9, <2>1, <2>2
  <1>11. z = r
    BY <1>7, <1>9, <1>10, SeqEqual
  <1> QED BY <1>1, <1>2, <1>3, <1>8, <1>11

\* A part is taken off the front of the buffer.
LEMMA BytesSplit ==
  ASSUME NEW a \in Nat, NEW b \in Nat, NEW n \in Nat, a + n <= b
  PROVE  /\ SubSeq(Bytes(a, b), 1, n) = Bytes(a, a + n)
         /\ SubSeq(Bytes(a, b), n + 1, Len(Bytes(a, b))) = Bytes(a + n, b)
  <1>1. /\ Bytes(a, b) \in Seq(Nat) /\ Len(Bytes(a, b)) = b - a
        /\ \A i \in 1..(b - a) : Bytes(a, b)[i] = a + i - 1
    <2>1. a <= b
      OBVIOUS
    <2> QED BY <2>1, BytesType
  <1>2. /\ Bytes(a, a + n) \in Seq(Nat) /\ Len(Bytes(a, a + n)) = n
        /\ \A i \in 1..n : Bytes(a, a + n)[i] = a + i - 1
    BY BytesType
  <1>3. /\ Bytes(a + n, b) \in Seq(Nat) /\ Len(Bytes(a + n, b)) = b - (a + n)
        /\ \A i \in 1..(b - (a + n)) : Bytes(a + n, b)[i] = a + n + i - 1
    <2>1. a + n \in Nat
      OBVIOUS
    <2> QED BY <2>1, BytesType
  <1>4. SubSeq(Bytes(a, b), 1, n) = Bytes(a, a + n)
    <2>1. /\ SubSeq(Bytes(a, b), 1, n) \in Seq(Nat) /\ Len(SubSeq(Bytes(a, b), 1, n)) = n
          /\ \A i \in 1..n : SubSeq(Bytes(a, b), 1, n)[i] = Bytes(a, b)[i]
      BY <1>1
    <2> QED BY <1>1, <1>2, <2>1
  <1>5. SubSeq(Bytes(a, b), n + 1, b - a) = Bytes(a + n, b)
    <2> DEFINE q == SubSeq(Bytes(a, b), n + 1, b - a)
    <2>1. /\ q \in Seq(Nat) /\ Len(q) = b - (a + n)
          /\ \A i \in 1..(b - (a + n)) : q[i] = Bytes(a, b)[n + i]
      BY <1>1
    <2>2. \A i \in 1..(b - (a + n)) : q[i] = a + n + i - 1
      BY <1>1, <2>1
    <2> HIDE DEF q
    <2>3. q = Bytes(a + n, b)
      BY <1>3, <2>1, <2>2
    <2> QED BY <2>3 DEF q
  <1> QED BY <1>1, <1>4, <1>5

LEMMA SegmentsIntro ==
  ASSUME NEW D \in SUBSET Nat, NEW f \in [D -> Nat] PROVE f \in Segments
  BY DEF Segments
LEMMA SegmentsElim ==
  ASSUME NEW f \in Segments PROVE DOMAIN f \in SUBSET Nat /\ f \in [DOMAIN f -> Nat]
  BY DEF Segments
LEMMA PutPartsIntro ==
  ASSUME NEW D \in SUBSET Nat, NEW f \in [D -> Seq(Nat)] PROVE f \in PutParts
  BY DEF PutParts
LEMMA PutPartsElim ==
  ASSUME NEW f \in PutParts PROVE DOMAIN f \in SUBSET Nat /\ f \in [DOMAIN f -> Seq(Nat)]
  BY DEF PutParts

-----------------------------------------------------------------------------
(* The transfer state.                                                     *)

LEMMA SessionRange ==
  ASSUME TypeInv PROVE 1..sessions \subseteq Sessions
  BY SizesAssumption DEF TypeInv, Sessions

LEMMA ChunkType ==
  ASSUME NEW c \in Chunks
  PROVE  c.start \in Nat /\ c.end \in Nat /\ c.start < c.end /\ c.end <= FileSize
         /\ c = [start |-> c.start, end |-> c.end]
  BY ChunksAssumption

\* Segments laid end to end lead forward.
LEMMA ChainAhead ==
  ASSUME NEW segments \in Segments, \A o \in DOMAIN segments : o < segments[o],
         NEW from \in Nat, NEW D \in SUBSET DOMAIN segments, NEW to \in Nat,
         Chain(segments, from, D, to)
  PROVE  from <= to
  <1> USE SegmentsElim
  <1> DEFINE E == {from} \cup {segments[o] : o \in D}
  <1>1. E \in SUBSET Nat /\ E # {}
    OBVIOUS
  <1>2. PICK m \in E : \A n \in E : m <= n
    BY <1>1, Least
  <1>3. E = D \cup {to}
    BY DEF Chain
  <1>4. m = from
    <2> SUFFICES ASSUME NEW o \in D, m = segments[o] PROVE FALSE
      OBVIOUS
    <2>1. o \in E BY <1>3
    <2>2. o \in DOMAIN segments /\ o \in Nat /\ segments[o] \in Nat
      OBVIOUS
    <2>3. m <= o BY <1>2, <2>1
    <2> QED BY <2>2, <2>3
  <1>5. to \in E
    BY <1>3
  <1> QED BY <1>2, <1>4, <1>5

LEMMA NotedState ==
  ASSUME NEW t \in States, NEW c \in Chunks
  PROVE  /\ Noted(t, c) \in States
         /\ Noted(t, c).init = t.init /\ Noted(t, c).nextOffset = t.nextOffset
         /\ Noted(t, c).pendingPartBuffer = t.pendingPartBuffer
         /\ Noted(t, c).pendingSegments = t.pendingSegments
         /\ Noted(t, c).pendingBytes = t.pendingBytes
         /\ Noted(t, c).uploadedParts = t.uploadedParts
         /\ Noted(t, c).nextPartNumber = t.nextPartNumber
         /\ Noted(t, c).uploading = t.uploading
         /\ Noted(t, c).eofSeen = (t.eofSeen \/ c.end = FileSize)
         /\ Noted(t, c).covered = t.covered \cup c.start..(c.end - 1)
  <1>1. c.start..(c.end - 1) \in SUBSET Nat
    BY ChunkType
  <1> QED BY <1>1 DEF Noted, States

IsAppended(x, t, c, D, to) ==
  /\ x \in States
  /\ x.init = t.init /\ x.nextOffset = to
  /\ x.pendingPartBuffer = t.pendingPartBuffer \o Bytes(c.start, to)
  /\ DOMAIN x.pendingSegments = DOMAIN t.pendingSegments \ D
  /\ \A o \in DOMAIN x.pendingSegments : x.pendingSegments[o] = t.pendingSegments[o]
  /\ x.pendingBytes = t.pendingBytes - (to - c.end)
  /\ x.uploadedParts = t.uploadedParts /\ x.nextPartNumber = t.nextPartNumber
  /\ x.uploading = t.uploading /\ x.eofSeen = t.eofSeen /\ x.covered = t.covered

LEMMA AppendedState ==
  ASSUME NEW t \in States, NEW c \in Chunks, NEW D, NEW to \in Nat, c.end <= to
  PROVE  IsAppended(Appended(t, c, D, to), t, c, D, to)
  <1> DEFINE x == Appended(t, c, D, to)
  <1>1. Bytes(c.start, to) \in Seq(Nat) /\ t.pendingPartBuffer \in Seq(Nat)
    BY ChunkType, BytesType DEF States
  <1>2. t.pendingPartBuffer \o Bytes(c.start, to) \in Seq(Nat)
    BY <1>1
  <1>3. t.pendingSegments \in Segments
    BY DEF States
  <1>4. DOMAIN t.pendingSegments \in SUBSET Nat
        /\ t.pendingSegments \in [DOMAIN t.pendingSegments -> Nat]
    BY <1>3, SegmentsElim
  <1> DEFINE left == Restrict(t.pendingSegments, DOMAIN t.pendingSegments \ D)
  <1>5. /\ left \in [DOMAIN t.pendingSegments \ D -> Nat]
        /\ \A o \in DOMAIN t.pendingSegments \ D : left[o] = t.pendingSegments[o]
    BY <1>4 DEF Restrict
  <1>6. left \in Segments
    <2> HIDE DEF left
    <2> QED BY <1>4, <1>5, SegmentsIntro
  <1>7. t.pendingBytes - (to - c.end) \in Int
    BY ChunkType DEF States
  <1>8. DOMAIN left = DOMAIN t.pendingSegments \ D
    BY DEF Restrict
  <1>9. x =
          [t EXCEPT !.pendingPartBuffer = t.pendingPartBuffer \o Bytes(c.start, to),
                    !.nextOffset = to, !.pendingSegments = left,
                    !.pendingBytes = t.pendingBytes - (to - c.end)]
    BY DEF Appended
  <1> HIDE DEF left, x
  <1>10. IsAppended(x, t, c, D, to)
    BY <1>2, <1>5, <1>6, <1>7, <1>8, <1>9 DEF States, IsAppended
  <1> QED BY <1>10 DEF x

LEMMA StashedState ==
  ASSUME NEW t \in States, NEW c \in Chunks
  PROVE  LET x == Stashed(t, c) IN
         /\ x \in States
         /\ x.init = t.init /\ x.nextOffset = t.nextOffset
         /\ x.pendingPartBuffer = t.pendingPartBuffer
         /\ DOMAIN x.pendingSegments = DOMAIN t.pendingSegments \cup {c.start}
         /\ \A o \in DOMAIN x.pendingSegments :
              x.pendingSegments[o] = IF o = c.start THEN c.end ELSE t.pendingSegments[o]
         /\ x.pendingBytes = t.pendingBytes + (c.end - c.start)
         /\ x.uploadedParts = t.uploadedParts /\ x.nextPartNumber = t.nextPartNumber
         /\ x.uploading = t.uploading /\ x.eofSeen = t.eofSeen /\ x.covered = t.covered
  <1> DEFINE more == [o \in DOMAIN t.pendingSegments \cup {c.start} |->
                        IF o = c.start THEN c.end ELSE t.pendingSegments[o]]
  <1>1. t.pendingSegments \in Segments
    BY DEF States
  <1>2. DOMAIN t.pendingSegments \in SUBSET Nat
        /\ t.pendingSegments \in [DOMAIN t.pendingSegments -> Nat]
    BY <1>1, SegmentsElim
  <1>3. /\ DOMAIN t.pendingSegments \cup {c.start} \in SUBSET Nat
        /\ more \in [DOMAIN t.pendingSegments \cup {c.start} -> Nat]
    BY <1>2, ChunkType
  <1>4. more \in Segments
    <2> HIDE DEF more
    <2> QED BY <1>3, SegmentsIntro
  <1>5. t.pendingBytes + (c.end - c.start) \in Int
    BY ChunkType DEF States
  <1>6. Stashed(t, c) = [t EXCEPT !.pendingSegments = more,
                                  !.pendingBytes = t.pendingBytes + (c.end - c.start)]
    BY DEF Stashed
  <1>7. /\ DOMAIN more = DOMAIN t.pendingSegments \cup {c.start}
        /\ \A o \in DOMAIN more : more[o] = IF o = c.start THEN c.end ELSE t.pendingSegments[o]
    OBVIOUS
  <1> HIDE DEF more
  <1> QED BY <1>4, <1>5, <1>6, <1>7 DEF States

\* Whether there is work does not depend on who does it.
LEMMA WorkOnly ==
  ASSUME NEW t \in States, NEW b \in BOOLEAN
  PROVE  LET x == [t EXCEPT !.uploading = b] IN
         /\ x \in States /\ x.uploading = b
         /\ hasUploadWork(x) <=> hasUploadWork(t)
         /\ x.init = t.init /\ x.nextOffset = t.nextOffset
         /\ x.pendingPartBuffer = t.pendingPartBuffer
         /\ x.pendingSegments = t.pendingSegments /\ x.pendingBytes = t.pendingBytes
         /\ x.uploadedParts = t.uploadedParts /\ x.nextPartNumber = t.nextPartNumber
         /\ x.eofSeen = t.eofSeen /\ x.covered = t.covered
  BY DEF States, hasUploadWork, readyToComplete

\* What a part of the transfer state says does not depend on the other fields.
LEMMA PrefixSame ==
  ASSUME NEW t, NEW x, NEW puts, Prefix(t, puts),
         x.uploadedParts = t.uploadedParts, x.nextPartNumber = t.nextPartNumber,
         x.nextOffset = t.nextOffset, x.pendingSegments = t.pendingSegments
  PROVE  Prefix(x, puts) /\ uploadedEnd(x) = uploadedEnd(t)
  BY DEF Prefix, uploadedEnd

IsOpened(x, t, b) ==
  /\ x \in States /\ x.init = b
  /\ hasUploadWork(x) <=> hasUploadWork(t)
  /\ x.nextOffset = t.nextOffset /\ x.pendingPartBuffer = t.pendingPartBuffer
  /\ x.pendingSegments = t.pendingSegments /\ x.pendingBytes = t.pendingBytes
  /\ x.uploadedParts = t.uploadedParts /\ x.nextPartNumber = t.nextPartNumber
  /\ x.eofSeen = t.eofSeen /\ x.covered = t.covered /\ x.uploading = t.uploading

LEMMA InitOnly ==
  ASSUME NEW t \in States, NEW b \in {"done", "failed"}
  PROVE  IsOpened([t EXCEPT !.init = b], t, b)
  BY DEF IsOpened, States, hasUploadWork, readyToComplete

\* All fields but uploading.
SameBytes(x, u) ==
  /\ x.init = u.init /\ x.eofSeen = u.eofSeen /\ x.covered = u.covered
  /\ x.nextOffset = u.nextOffset /\ x.pendingPartBuffer = u.pendingPartBuffer
  /\ x.pendingSegments = u.pendingSegments /\ x.pendingBytes = u.pendingBytes
  /\ x.uploadedParts = u.uploadedParts /\ x.nextPartNumber = u.nextPartNumber

\* What acceptPacket makes of a transfer: u, before the lock on the upload is looked at.
Taking(t, c, u) ==
  LET n == Noted(t, c) IN
  \/ Ignored(n, c) /\ u = n
  \/ /\ ~Ignored(n, c) /\ c.start = n.nextOffset
     /\ \E D \in SUBSET DOMAIN n.pendingSegments, to \in {c.end} \cup Range(n.pendingSegments) :
          Chain(n.pendingSegments, c.end, D, to) /\ u = Appended(n, c, D, to)
  \/ ~Ignored(n, c) /\ c.start # n.nextOffset /\ u = Stashed(n, c)

LEMMA DrainTarget ==
  ASSUME NEW t \in States, NEW puts, Prefix(t, puts), NEW c \in Chunks,
         NEW D \in SUBSET DOMAIN t.pendingSegments,
         NEW to \in {c.end} \cup Range(t.pendingSegments),
         Chain(t.pendingSegments, c.end, D, to)
  PROVE  to \in Nat /\ c.end <= to /\ to <= FileSize
  <1>1. t.pendingSegments \in Segments
    BY DEF States
  <1>2. DOMAIN t.pendingSegments \in SUBSET Nat
        /\ t.pendingSegments \in [DOMAIN t.pendingSegments -> Nat]
    BY <1>1, SegmentsElim
  <1>3. \A o \in DOMAIN t.pendingSegments :
           o < t.pendingSegments[o] /\ t.pendingSegments[o] <= FileSize
    <2> TAKE o \in DOMAIN t.pendingSegments
    <2>1. [start |-> o, end |-> t.pendingSegments[o]] \in Chunks
      BY DEF Prefix
    <2> QED BY <2>1, ChunkType
  <1>4. to \in Nat /\ to <= FileSize
    BY <1>2, <1>3, ChunkType DEF Range
  <1> QED BY <1>1, <1>3, <1>4, ChainAhead, ChunkType

IsTaken(u, t, puts) ==
  /\ u \in States /\ u.init = t.init /\ u.uploading = t.uploading
  /\ u.uploadedParts = t.uploadedParts /\ u.nextPartNumber = t.nextPartNumber
  /\ t.nextOffset <= u.nextOffset
  /\ u.pendingPartBuffer = t.pendingPartBuffer \o Bytes(t.nextOffset, u.nextOffset)
  /\ Prefix(u, puts) /\ uploadedEnd(u) = uploadedEnd(t)

LEMMA TakingBytes ==
  ASSUME NEW t \in States, NEW puts, Prefix(t, puts), NEW c \in Chunks, NEW u, Taking(t, c, u)
  PROVE  IsTaken(u, t, puts)
  <1> USE DEF IsTaken
  <1>1. PICK n \in States : n = Noted(t, c)
    BY NotedState
  <1>2. /\ n.init = t.init /\ n.nextOffset = t.nextOffset /\ n.uploading = t.uploading
        /\ n.pendingPartBuffer = t.pendingPartBuffer /\ n.pendingSegments = t.pendingSegments
        /\ n.uploadedParts = t.uploadedParts /\ n.nextPartNumber = t.nextPartNumber
    BY <1>1, NotedState
  <1>3. Prefix(n, puts) /\ uploadedEnd(n) = uploadedEnd(t)
    BY <1>2, PrefixSame
  <1>4. t.nextOffset \in Nat /\ t.pendingPartBuffer \in Seq(Nat)
    BY DEF States
  <1>5. t.pendingPartBuffer \o Bytes(t.nextOffset, t.nextOffset) = t.pendingPartBuffer
    <2>1. PICK m \in Nat : m = t.nextOffset
      BY <1>4
    <2>2. Bytes(m, m) \in Seq(Nat) /\ Len(Bytes(m, m)) = m - m
      BY BytesType
    <2>3. Bytes(m, m) = <<>>
      BY <2>2, EmptySeq
    <2> QED BY <1>4, <2>1, <2>3, ConcatEmptySeq
  <1>6. CASE u = n
    <2>1. t.nextOffset <= u.nextOffset
      BY <1>2, <1>4, <1>6
    <2>2. u.pendingPartBuffer = t.pendingPartBuffer \o Bytes(t.nextOffset, u.nextOffset)
      BY <1>2, <1>5, <1>6, Zenon
    <2> QED BY <1>2, <1>3, <1>6, <2>1, <2>2
  <1>7. CASE u = Stashed(n, c)
    <2>1. /\ u \in States /\ u.init = n.init /\ u.nextOffset = n.nextOffset
          /\ u.pendingPartBuffer = n.pendingPartBuffer /\ u.uploading = n.uploading
          /\ u.uploadedParts = n.uploadedParts /\ u.nextPartNumber = n.nextPartNumber
          /\ DOMAIN u.pendingSegments = DOMAIN n.pendingSegments \cup {c.start}
          /\ \A o \in DOMAIN u.pendingSegments :
               u.pendingSegments[o] = IF o = c.start THEN c.end ELSE n.pendingSegments[o]
      BY <1>7, StashedState
    <2>2. \A o \in DOMAIN u.pendingSegments :
             [start |-> o, end |-> u.pendingSegments[o]] \in Chunks
      <3> SUFFICES ASSUME NEW o \in DOMAIN u.pendingSegments
                   PROVE  [start |-> o, end |-> u.pendingSegments[o]] \in Chunks
        OBVIOUS
      <3>1. CASE o = c.start
        BY <2>1, <3>1, ChunkType
      <3>2. CASE o # c.start
        BY <1>3, <2>1, <3>2 DEF Prefix
      <3> QED BY <3>1, <3>2
    <2>3. uploadedEnd(u) = uploadedEnd(n)
      BY <2>1 DEF uploadedEnd
    <2>4. Prefix(u, puts)
      BY <1>3, <2>1, <2>2, <2>3 DEF Prefix
    <2>5. t.nextOffset <= u.nextOffset
      BY <1>2, <1>4, <2>1
    <2>6. u.pendingPartBuffer = t.pendingPartBuffer \o Bytes(t.nextOffset, u.nextOffset)
      BY <1>2, <1>5, <2>1, Zenon
    <2> QED BY <1>2, <1>3, <2>1, <2>3, <2>4, <2>5, <2>6
  <1>8. ASSUME NEW D \in SUBSET DOMAIN n.pendingSegments,
               NEW to \in {c.end} \cup Range(n.pendingSegments), c.start = n.nextOffset,
               Chain(n.pendingSegments, c.end, D, to), u = Appended(n, c, D, to)
        PROVE  IsTaken(u, t, puts)
    <2>1. to \in Nat /\ c.end <= to /\ to <= FileSize
      BY <1>3, <1>8, DrainTarget
    <2>2. /\ u \in States /\ u.init = n.init /\ u.nextOffset = to
          /\ u.pendingPartBuffer = n.pendingPartBuffer \o Bytes(c.start, to)
          /\ DOMAIN u.pendingSegments = DOMAIN n.pendingSegments \ D
          /\ \A o \in DOMAIN u.pendingSegments : u.pendingSegments[o] = n.pendingSegments[o]
          /\ u.uploadedParts = n.uploadedParts /\ u.nextPartNumber = n.nextPartNumber
          /\ u.uploading = n.uploading
      <3>1. IsAppended(u, n, c, D, to)
        BY <1>8, <2>1, AppendedState
      <3> QED BY <3>1 DEF IsAppended
    <2>3. uploadedEnd(u) = uploadedEnd(n)
      BY <2>2 DEF uploadedEnd
    <2>4. t.nextOffset <= to
      BY <1>2, <1>8, <2>1, ChunkType
    <2>5. uploadedEnd(u) \in Nat /\ uploadedEnd(u) <= to
      BY <1>2, <1>3, <1>4, <2>1, <2>3, <2>4 DEF Prefix
    <2>6. Prefix(u, puts)
      BY <1>3, <2>1, <2>2, <2>5 DEF Prefix
    <2> QED BY <1>2, <1>3, <1>8, <2>2, <2>3, <2>4, <2>6
  <1> QED BY <1>1, <1>6, <1>7, <1>8 DEF Taking

LEMMA OfferEffect ==
  ASSUME NEW w, NEW s, NEW u \in States, Offer(w, s, u)
  PROVE  \E x \in States :
           /\ transfer' = [transfer EXCEPT ![s] = x]
           /\ SameBytes(x, u) /\ (hasUploadWork(x) <=> hasUploadWork(u))
           /\ \/ ~u.uploading /\ x.uploading /\ Goto(w, "next")
              \/ x.uploading = u.uploading /\ (u.uploading \/ ~hasUploadWork(x)) /\ Return(w)
  <1> DEFINE b == u.uploading \/ (~u.uploading /\ hasUploadWork(u))
             x == [u EXCEPT !.uploading = b]
  <1>1. b \in BOOLEAN
    OBVIOUS
  <1>2. x \in States /\ x.uploading = b /\ SameBytes(x, u)
        /\ (hasUploadWork(x) <=> hasUploadWork(u))
    <2> HIDE DEF b
    <2> QED BY <1>1, WorkOnly DEF SameBytes
  <1>3. transfer' = [transfer EXCEPT ![s] = x]
    BY DEF Offer, Set
  <1>4. u.uploading \in BOOLEAN
    BY DEF States
  <1>5. CASE ~u.uploading /\ hasUploadWork(u)
    <2>1. Goto(w, "next") /\ b
      BY <1>5 DEF Offer
    <2> HIDE DEF b
    <2>2. x.uploading
      BY <1>2, <2>1
    <2> HIDE DEF x
    <2> QED BY <1>2, <1>3, <1>5, <2>1, <2>2
  <1>6. CASE ~(~u.uploading /\ hasUploadWork(u))
    <2>1. Return(w) /\ b = u.uploading
      BY <1>4, <1>6 DEF Offer
    <2> HIDE DEF b
    <2>2. x.uploading = u.uploading /\ (u.uploading \/ ~hasUploadWork(x))
      BY <1>2, <1>4, <1>6, <2>1
    <2> HIDE DEF x
    <2> QED BY <1>2, <1>3, <2>1, <2>2
  <1> QED BY <1>5, <1>6

LEMMA AcceptEffect ==
  ASSUME OssInv, NEW w \in Workers, AcceptPacket(w), session[w] \in 1..sessions,
         chunk[w] \in Chunks
  PROVE  \E x \in States, u \in States :
           /\ Taking(transfer[session[w]], chunk[w], u) /\ SameBytes(x, u)
           /\ transfer' = [transfer EXCEPT ![session[w]] = x]
           /\ \/ /\ UNCHANGED failed
                 /\ \/ ~u.uploading /\ x.uploading /\ Goto(w, "next")
                    \/ /\ x.uploading = u.uploading /\ (u.uploading \/ ~hasUploadWork(x))
                       /\ Return(w)
                 /\ \/ u.pendingBytes <= PendingLimit
                    \/ u.pendingBytes <= transfer[session[w]].pendingBytes
              \/ /\ x.uploading = u.uploading /\ Goto(w, "fail")
                 /\ Fail(session[w], "limit")
  <1>1. PICK s : s = session[w]
    OBVIOUS
  <1>2. PICK c \in Chunks : c = chunk[w]
    OBVIOUS
  <1>3. PICK t \in States : t = transfer[s]
    BY <1>1 DEF OssInv, TypeInv
  <1>4. PICK n \in States : n = Noted(t, c)
    BY NotedState
  <1>5. Prefix(n, stored[s]) /\ n.pendingBytes = t.pendingBytes
    <2>1. Prefix(t, stored[s])
      BY <1>1, <1>3 DEF OssInv, ByteInv, PrefixInv
    <2> QED BY <1>4, <2>1, NotedState, PrefixSame
  <1>6. ASSUME NEW u \in States, Taking(t, c, u), Offer(w, s, u), UNCHANGED failed,
               u.pendingBytes <= PendingLimit \/ u.pendingBytes <= t.pendingBytes
        PROVE  \E x \in States :
                 /\ SameBytes(x, u) /\ transfer' = [transfer EXCEPT ![s] = x]
                 /\ \/ ~u.uploading /\ x.uploading /\ Goto(w, "next")
                    \/ /\ x.uploading = u.uploading /\ (u.uploading \/ ~hasUploadWork(x))
                       /\ Return(w)
    BY <1>6, OfferEffect
  <1>7. CASE Ignored(n, c) /\ Offer(w, s, n) /\ UNCHANGED failed
    <2>1. Taking(t, c, n) /\ n.pendingBytes <= t.pendingBytes
      BY <1>4, <1>5, <1>7 DEF Taking, States
    <2> QED BY <1>1, <1>2, <1>3, <1>6, <1>7, <2>1
  <1>8. CASE /\ ~Ignored(n, c) /\ c.start = n.nextOffset /\ UNCHANGED failed
             /\ \E D \in SUBSET DOMAIN n.pendingSegments,
                   to \in {c.end} \cup Range(n.pendingSegments) :
                  /\ Chain(n.pendingSegments, c.end, D, to)
                  /\ Offer(w, s, Appended(n, c, D, to))
    <2>1. PICK D \in SUBSET DOMAIN n.pendingSegments,
               to \in {c.end} \cup Range(n.pendingSegments) :
             Chain(n.pendingSegments, c.end, D, to) /\ Offer(w, s, Appended(n, c, D, to))
      BY <1>8
    <2>2. to \in Nat /\ c.end <= to
      BY <1>5, <2>1, DrainTarget
    <2>3. PICK u : u = Appended(n, c, D, to)
      OBVIOUS
    <2>4. u \in States /\ u.pendingBytes = n.pendingBytes - (to - c.end)
      <3>1. IsAppended(u, n, c, D, to)
        BY <2>2, <2>3, AppendedState
      <3> QED BY <3>1 DEF IsAppended
    <2>5. u.pendingBytes <= t.pendingBytes
      <3>1. c.end \in Nat
        BY ChunkType
      <3>2. n.pendingBytes \in Int
        BY DEF States
      <3> QED BY <1>5, <2>2, <2>4, <3>1, <3>2
    <2>6. Taking(t, c, u)
      BY <1>4, <1>8, <2>1, <2>3 DEF Taking
    <2>7. Offer(w, s, u) /\ UNCHANGED failed
      BY <1>8, <2>1, <2>3
    <2> QED BY <1>1, <1>2, <1>3, <1>6, <2>4, <2>5, <2>6, <2>7
  <1>9. CASE /\ ~Ignored(n, c) /\ c.start # n.nextOffset
             /\ ~(Stashed(n, c).pendingBytes > PendingLimit)
             /\ Offer(w, s, Stashed(n, c)) /\ UNCHANGED failed
    <2>1. PICK u \in States : u = Stashed(n, c)
      BY StashedState
    <2>2. Taking(t, c, u)
      BY <1>4, <1>9, <2>1 DEF Taking
    <2>3. u.pendingBytes <= PendingLimit
      BY <1>9, <2>1, SizesAssumption DEF States, PendingLimit
    <2> QED BY <1>1, <1>2, <1>3, <1>6, <1>9, <2>1, <2>2, <2>3
  <1>10. CASE /\ ~Ignored(n, c) /\ c.start # n.nextOffset
              /\ Set(s, Stashed(n, c)) /\ Goto(w, "fail") /\ Fail(s, "limit")
    <2>1. PICK u \in States : u = Stashed(n, c)
      BY StashedState
    <2>2. Taking(t, c, u)
      BY <1>4, <1>10, <2>1 DEF Taking
    <2>3. SameBytes(u, u) /\ transfer' = [transfer EXCEPT ![s] = u]
      BY <1>10, <2>1 DEF SameBytes, Set
    <2> QED BY <1>1, <1>2, <1>3, <1>10, <2>2, <2>3
  <1> QED BY <1>1, <1>2, <1>3, <1>4, <1>7, <1>8, <1>9, <1>10 DEF AcceptPacket

\* The fields the upload of parts does not touch.
SameChunks(x, t) ==
  /\ x.init = t.init /\ x.eofSeen = t.eofSeen /\ x.covered = t.covered
  /\ x.nextOffset = t.nextOffset /\ x.pendingSegments = t.pendingSegments
  /\ x.pendingBytes = t.pendingBytes

\* A part that was put: the parts still tile the prefix, one further.
LEMMA UploadedParts ==
  ASSUME NEW t \in States, NEW puts, Prefix(t, puts), NEW o \in PartOps, InHand(t, o),
         NEW kept, o.partNumber \in DOMAIN kept, kept[o.partNumber] = o.payload,
         \A i \in DOMAIN puts : i # o.partNumber => i \in DOMAIN kept /\ kept[i] = puts[i]
  PROVE  /\ Uploaded(t, o) \in States /\ SameChunks(Uploaded(t, o), t)
         /\ Uploaded(t, o).uploading = t.uploading
         /\ Uploaded(t, o).pendingPartBuffer = t.pendingPartBuffer
         /\ Prefix(Uploaded(t, o), kept)
         /\ uploadedEnd(Uploaded(t, o)) = o.partStart + Len(o.payload)
  <1>1. PICK e \in Nat : e = o.partStart + Len(o.payload)
    BY DEF PartOps
  <1>2. PICK p \in Parts : p = [partNumber |-> o.partNumber, start |-> o.partStart, end |-> e]
    BY DEF Parts, PartOps
  <1>3. PICK q \in Seq(Parts) : q = t.uploadedParts
    BY DEF States
  <1>4. PICK z : z = Append(q, p)
    OBVIOUS
  <1>5. PICK k \in Nat : k = Len(q)
    BY LenProperties
  <1>6. /\ z \in Seq(Parts) /\ Len(z) = k + 1 /\ z[k + 1] = p
        /\ \A i \in 1..k : z[i] = q[i]
    BY <1>4, <1>5
  <1>7. PICK x : x = Uploaded(t, o)
    OBVIOUS
  <1>8. /\ x \in States /\ SameChunks(x, t) /\ x.uploading = t.uploading
        /\ x.pendingPartBuffer = t.pendingPartBuffer
        /\ x.uploadedParts = z /\ x.nextPartNumber = t.nextPartNumber + 1
    <2>1. x = [t EXCEPT !.uploadedParts = z, !.nextPartNumber = t.nextPartNumber + 1]
      BY <1>1, <1>2, <1>3, <1>4, <1>7 DEF Uploaded
    <2>2. z \in Seq(Parts) /\ t.nextPartNumber + 1 \in Nat
      BY <1>6 DEF States
    <2>3. x \in States
      BY <2>1, <2>2 DEF States
    <2> QED BY <2>1, <2>3 DEF States, SameChunks
  <1>9. /\ t.nextPartNumber = k + 1 /\ o.partNumber = k + 1 /\ o.partStart = uploadedEnd(t)
        /\ o.partStart < e /\ e <= t.nextOffset /\ o.payload = Bytes(o.partStart, e)
        /\ o.partStart \in Nat
    BY <1>1, <1>3, <1>5 DEF Prefix, InHand, PartOps
  <1>10. uploadedEnd(x) = e
    <2>1. z # <<>>
      BY <1>5, <1>6
    <2>2. uploadedEnd(x) = z[k + 1].end
      BY <1>6, <1>8, <2>1 DEF uploadedEnd
    <2> QED BY <1>2, <1>6, <2>2
  <1>11. o.partStart = IF k = 0 THEN 0 ELSE q[k].end
    <2>1. q = <<>> <=> k = 0
      BY <1>5, EmptySeq
    <2>2. uploadedEnd(t) = IF k = 0 THEN 0 ELSE q[k].end
      BY <1>3, <1>5, <2>1 DEF uploadedEnd
    <2> QED BY <1>9, <2>2
  <1>12. PartInv(puts, q)
    BY <1>3 DEF Prefix
  <1>13. PartInv(kept, z)
    <2> SUFFICES ASSUME NEW i \in 1..(k + 1)
                 PROVE  /\ z[i].partNumber = i
                        /\ z[i].start = IF i = 1 THEN 0 ELSE z[i - 1].end
                        /\ z[i].start < z[i].end
                        /\ i \in DOMAIN kept
                        /\ kept[i] = Bytes(z[i].start, z[i].end)
      BY <1>6 DEF PartInv
    <2>1. CASE i = k + 1
      <3>1. z[i] = p /\ (k # 0 => z[i - 1] = q[k])
        BY <1>6, <2>1
      <3> QED BY <1>2, <1>9, <1>11, <2>1, <3>1
    <2>2. CASE i # k + 1
      <3>1. i \in 1..k /\ z[i] = q[i] /\ (i # 1 => z[i - 1] = q[i - 1])
        BY <1>6, <2>2
      <3>2. /\ q[i].partNumber = i
            /\ q[i].start = IF i = 1 THEN 0 ELSE q[i - 1].end
            /\ q[i].start < q[i].end
            /\ i \in DOMAIN puts
            /\ puts[i] = Bytes(q[i].start, q[i].end)
        BY <1>5, <1>12, <3>1 DEF PartInv
      <3>3. i \in DOMAIN kept /\ kept[i] = puts[i]
        BY <1>9, <2>2, <3>2
      <3> QED BY <3>1, <3>2, <3>3
    <2> QED BY <2>1, <2>2
  <1>14. /\ x.nextPartNumber = Len(z) + 1 /\ e <= x.nextOffset /\ x.nextOffset <= FileSize
         /\ x.pendingSegments = t.pendingSegments
    BY <1>6, <1>8, <1>9 DEF SameChunks, Prefix
  <1>15. Prefix(x, kept)
    BY <1>8, <1>10, <1>13, <1>14 DEF Prefix
  <1> QED BY <1>1, <1>7, <1>8, <1>10, <1>15


\* An object of all bytes of the file, in order.
Whole(o) ==
  /\ Len(o) > 0 /\ \A i \in 1..Len(o) : o[i] # <<>> /\ Consecutive(o[i])
  /\ o[1][1] = 0 /\ o[Len(o)][Len(o[Len(o)])] = FileSize - 1
  /\ \A i \in 1..(Len(o) - 1) : o[i + 1][1] = o[i][Len(o[i])] + 1

LEMMA PieceOfFile ==
  ASSUME NEW a \in Nat, NEW b \in Nat, a < b
  PROVE  /\ Bytes(a, b) \in Seq(Nat) /\ Bytes(a, b) # <<>> /\ Consecutive(Bytes(a, b))
         /\ Bytes(a, b)[1] = a /\ Bytes(a, b)[Len(Bytes(a, b))] = b - 1
  <1>1. /\ Bytes(a, b) \in Seq(Nat) /\ Len(Bytes(a, b)) = b - a /\ Consecutive(Bytes(a, b))
        /\ \A i \in 1..(b - a) : Bytes(a, b)[i] = a + i - 1
    <2>1. a <= b
      OBVIOUS
    <2> QED BY <2>1, BytesType
  <1>2. 1 \in 1..(b - a) /\ b - a \in 1..(b - a)
    OBVIOUS
  <1>3. Bytes(a, b)[1] = a + 1 - 1 /\ Bytes(a, b)[b - a] = a + (b - a) - 1
    BY <1>1, <1>2
  <1>4. Bytes(a, b) # <<>>
    BY <1>1, EmptySeq
  <1> QED BY <1>1, <1>3, <1>4

\* The store puts the parts of a transfer together.
LEMMA PartsMakeTheFile ==
  ASSUME NEW t \in States, NEW puts, Prefix(t, puts), uploadedEnd(t) = FileSize, FileSize > 0,
         NEW pieces, pieces = [i \in 1..Len(t.uploadedParts) |-> puts[i]]
  PROVE  pieces \in Seq(Seq(Nat)) /\ Whole(pieces)
  <1>1. PICK q \in Seq(Parts) : q = t.uploadedParts
    BY DEF States
  <1>2. PICK k \in Nat : k = Len(q)
    BY LenProperties
  <1>3. k > 0 /\ q[k].end = FileSize
    <2>1. q # <<>>
      BY <1>1 DEF uploadedEnd
    <2>2. k # 0
      BY <1>2, <2>1, EmptySeq
    <2> QED BY <1>1, <1>2, <2>1, <2>2 DEF uploadedEnd
  <1>4. \A i \in 1..k : /\ q[i].start \in Nat /\ q[i].end \in Nat /\ q[i].start < q[i].end
                        /\ q[i].start = IF i = 1 THEN 0 ELSE q[i - 1].end
                        /\ puts[i] = Bytes(q[i].start, q[i].end)
    <2>1. \A i \in 1..k : q[i] \in Parts
      BY <1>2
    <2> QED BY <1>1, <1>2, <2>1 DEF Prefix, PartInv, Parts
  <1>5. \A i \in 1..k :
           /\ puts[i] \in Seq(Nat) /\ puts[i] # <<>> /\ Consecutive(puts[i])
           /\ puts[i][1] = q[i].start /\ puts[i][Len(puts[i])] = q[i].end - 1
    <2> SUFFICES ASSUME NEW i \in 1..k
                 PROVE  /\ puts[i] \in Seq(Nat) /\ puts[i] # <<>> /\ Consecutive(puts[i])
                        /\ puts[i][1] = q[i].start /\ puts[i][Len(puts[i])] = q[i].end - 1
      OBVIOUS
    <2>1. PICK a \in Nat, b \in Nat : a = q[i].start /\ b = q[i].end /\ a < b
      BY <1>4
    <2>2. puts[i] = Bytes(a, b)
      BY <1>4, <2>1
    <2> QED BY <2>1, <2>2, PieceOfFile
  <1>6. pieces \in [1..k -> Seq(Nat)] /\ \A i \in 1..k : pieces[i] = puts[i]
    BY <1>1, <1>2, <1>5
  <1>7. pieces \in Seq(Seq(Nat)) /\ Len(pieces) = k
    BY <1>6
  <1>8. \A i \in 1..k : /\ pieces[i] # <<>> /\ Consecutive(pieces[i])
                        /\ pieces[i][1] = q[i].start /\ pieces[i][Len(pieces[i])] = q[i].end - 1
    BY <1>5, <1>6
  <1>9. pieces[1][1] = 0 /\ pieces[k][Len(pieces[k])] = FileSize - 1
    <2>1. 1 \in 1..k /\ k \in 1..k
      BY <1>3
    <2>2. q[1].start = 0
      BY <1>4, <2>1
    <2> QED BY <1>3, <1>8, <2>1, <2>2
  <1>10. ASSUME NEW i \in 1..(k - 1) PROVE pieces[i + 1][1] = pieces[i][Len(pieces[i])] + 1
    <2>1. i \in 1..k /\ i + 1 \in 1..k /\ (i + 1) - 1 = i /\ i + 1 # 1
      OBVIOUS
    <2>2. q[i + 1].start = q[i].end /\ q[i].end \in Nat
      BY <1>4, <2>1
    <2>3. pieces[i + 1][1] = q[i + 1].start /\ pieces[i][Len(pieces[i])] = q[i].end - 1
      BY <1>8, <2>1
    <2> QED BY <2>2, <2>3
  <1> QED BY <1>3, <1>7, <1>8, <1>9, <1>10 DEF Whole
-----------------------------------------------------------------------------
(* The actions.                                                            *)

LEMMA OssInit == Init => OssInv
  <1> SUFFICES ASSUME Init PROVE OssInv
    OBVIOUS
  <1> USE ChunksAssumption, SizesAssumption, NoneAssumption DEF Init
  <1>1. TypeInv
    <2>1. [n \in {} |-> <<>>] \in [{} -> Seq(Nat)] /\ {} \in SUBSET Nat
      OBVIOUS
    <2>2. [n \in {} |-> <<>>] \in PutParts
      BY <2>1, PutPartsIntro
    <2>3. \A s \in Sessions : stored[s] \in PutParts
      BY <2>2
    <2>4. stored \in [Sessions -> PutParts]
      BY <2>3
    <2>5. <<>> \in Seq(Seq(Nat))
      OBVIOUS
    <2>6. object \in [Sessions -> Seq(Seq(Nat))]
      BY <2>5
    <2>7. sessions \in 0..MaxSessions /\ states \in 1..sessions \cup {None} /\ 1..sessions = {}
      OBVIOUS
    <2>8. /\ pc \in [Workers -> Labels] /\ chunk \in [Workers -> Chunks \cup {None}]
          /\ session \in [Workers -> 1..sessions \cup {None}]
          /\ op \in [Workers -> PartOps \cup CompleteOps \cup NotifyOps \cup {None}]
          /\ transfer \in [Sessions -> States \cup {None}]
      BY DEF Labels
    <2>9. /\ upload \in [Sessions -> {"none", "open", "completed", "aborted"}]
          /\ failed \in [Sessions -> SUBSET {"new", "put", "complete", "limit", "abort"}]
          /\ notified \in [Sessions -> [Notifiers -> Nat]]
          /\ notifiers \in [Notifiers -> {"none", "open", "closed"}] /\ closed \in BOOLEAN
      OBVIOUS
    <2> QED BY <2>4, <2>6, <2>7, <2>8, <2>9 DEF TypeInv
  <1>2. CallInv BY DEF CallInv
  <1>3. OpenInv BY DEF OpenInv
  <1>4. DriveInv BY DEF DriveInv, Drivers
  <1>5. PrefixInv BY DEF PrefixInv
  <1>6. PutInv BY DEF PutInv
  <1>7. CompleteInv BY DEF CompleteInv
  <1>8. ObjectIntact BY DEF ObjectIntact
  <1>9. NoteInv BY DEF NoteInv
  <1> QED BY <1>1, <1>2, <1>3, <1>4, <1>5, <1>6, <1>7, <1>8, <1>9 DEF OssInv, ByteInv

LEMMA BuildNotifierStep ==
  ASSUME OssInv, NEW n \in Notifiers, BuildNotifier(n)
  PROVE  OssInv'
  <1> USE DEF OssInv, ByteInv
  <1>1. UNCHANGED <<states, sessions, transfer, pc, chunk, session, op, upload, stored, object,
                    failed, notified>>
    BY DEF BuildNotifier, worker, store, history
  <1>2. ~closed /\ ~Built
    BY DEF BuildNotifier, Built
  <1>3. sessions = 0 /\ \A v \in Workers : pc[v] = "idle"
    BY <1>2 DEF TypeInv, CallInv
  <1>4. /\ notifiers' \in [Notifiers -> {"none", "open", "closed"}] /\ closed' \in BOOLEAN
        /\ closed' => \A k \in Notifiers : notifiers'[k] # "open"
    <2>1. CASE notifiers' = [notifiers EXCEPT ![n] = "open"] /\ UNCHANGED closed
      BY <1>2, <2>1 DEF TypeInv
    <2>2. CASE notifiers' = AllClosed /\ closed' = TRUE
      <3>1. AllClosed \in [Notifiers -> {"none", "open", "closed"}]
            /\ \A k \in Notifiers : AllClosed[k] # "open"
        BY DEF TypeInv, AllClosed
      <3> QED BY <2>2, <3>1
    <2> QED BY <2>1, <2>2 DEF BuildNotifier
  <1>5. TypeInv' BY <1>1, <1>4 DEF TypeInv
  <1>6. CallInv' BY <1>1, <1>3, <1>4 DEF TypeInv, CallInv
  <1>7. OpenInv' BY <1>1 DEF OpenInv
  <1>8. DriveInv' BY <1>1 DEF DriveInv
  <1>9. PrefixInv' BY <1>1 DEF PrefixInv, Taken
  <1>10. PutInv' BY <1>1, <1>3 DEF PutInv
  <1>11. CompleteInv' BY <1>1, <1>3 DEF CompleteInv
  <1>12. ObjectIntact' BY <1>1 DEF ObjectIntact
  <1>13. NoteInv' BY <1>1 DEF NoteInv
  <1> QED BY <1>5, <1>6, <1>7, <1>8, <1>9, <1>10, <1>11, <1>12, <1>13 DEF OssInv, ByteInv

LEMMA JoinStep ==
  ASSUME OssInv, NEW w \in Workers, NEW c \in Chunks, Join(w, c)
  PROVE  OssInv'
  <1> USE DEF OssInv, ByteInv
  <1>1. UNCHANGED <<states, sessions, transfer, op, upload, stored, object, failed, notified,
                    notifiers, closed>>
    BY DEF Join, store, life
  <1>2. pc[w] = "idle" /\ Built /\ states \in 1..sessions
    BY DEF TypeInv, Join
  <1>3. pc'[w] = "join" /\ chunk'[w] = c /\ session'[w] = states
    BY DEF TypeInv, Join
  <1>4. \A v \in Workers : v # w =>
          pc'[v] = pc[v] /\ chunk'[v] = chunk[v] /\ session'[v] = session[v] /\ op'[v] = op[v]
    BY DEF TypeInv, Join
  <1>5. TypeInv'
    <2>1. /\ pc' \in [Workers -> Labels] /\ chunk' \in [Workers -> Chunks \cup {None}]
          /\ session' \in [Workers -> 1..sessions \cup {None}]
      BY <1>2 DEF TypeInv, Join, Labels
    <2> QED BY <1>1, <2>1 DEF TypeInv
  <1>6. CallInv'
    <2>1. Built' BY <1>1, <1>2 DEF Built
    <2> QED BY <1>1, <1>2, <1>3, <1>4, <2>1 DEF CallInv
  <1>7. OpenInv' BY <1>1, <1>2, <1>3, <1>4 DEF OpenInv
  <1>8. DriveInv'
    <2>1. \A v \in Workers : pc'[v] \in Drivers <=> pc[v] \in Drivers
      BY <1>2, <1>3, <1>4 DEF Drivers
    <2>2. pc[w] \notin Drivers BY <1>2 DEF Drivers
    <2> QED BY <1>1, <1>4, <2>1, <2>2 DEF DriveInv
  <1>9. PrefixInv'
    <2>1. \A v \in Workers : pc'[v] = "put" <=> pc[v] = "put"
      BY <1>2, <1>3, <1>4
    <2>2. \A s \in 1..sessions : Taken(s)' <=> Taken(s)
      BY <1>2, <1>4, <2>1 DEF Taken
    <2> QED BY <1>1, <2>2 DEF PrefixInv
  <1>10. PutInv' BY <1>1, <1>2, <1>3, <1>4 DEF PutInv
  <1>11. CompleteInv' BY <1>1, <1>2, <1>3, <1>4 DEF CompleteInv
  <1>12. ObjectIntact' BY <1>1 DEF ObjectIntact
  <1>13. NoteInv' BY <1>1, <1>2, <1>3, <1>4 DEF NoteInv
  <1> QED BY <1>5, <1>6, <1>7, <1>8, <1>9, <1>10, <1>11, <1>12, <1>13 DEF OssInv, ByteInv

LEMMA CreateStep ==
  ASSUME OssInv, NEW w \in Workers, NEW c \in Chunks, Create(w, c)
  PROVE  OssInv'
  <1> USE DEF OssInv, ByteInv
  <1>1. UNCHANGED <<op, upload, stored, object, failed, notified, notifiers, closed>>
    BY DEF Create, store, life
  <1>2. /\ pc[w] = "idle" /\ Built /\ states = None /\ sessions \in Nat /\ sessions < MaxSessions
        /\ FileSize > 0 /\ FileSize \in Nat
    <2>1. FileSize > 0 /\ FileSize \in Nat
      BY ChunkType, ChunksAssumption
    <2> QED BY <2>1, SizesAssumption DEF TypeInv, Create
  <1> DEFINE s == sessions + 1
  <1>3. /\ s \in Sessions /\ s \in 1..s /\ sessions' = s /\ states' = s
        /\ 1..s = 1..sessions \cup {s} /\ s \notin 1..sessions
    BY <1>2, SizesAssumption DEF Create, Sessions
  <1>4. NewState \in States /\ ~hasUploadWork(NewState)
    <2>1. [o \in {} |-> 0] \in [{} -> Nat] /\ {} \in SUBSET Nat
      OBVIOUS
    <2>2. [o \in {} |-> 0] \in Segments
      BY <2>1, SegmentsIntro
    <2> QED BY <2>2, SizesAssumption, ChunksAssumption
            DEF NewState, States, hasUploadWork, readyToComplete
  <1>5. transfer'[s] = NewState /\ \A r \in Sessions : r # s => transfer'[r] = transfer[r]
    BY <1>3 DEF TypeInv, Create, Set
  <1>6. pc'[w] = "new" /\ chunk'[w] = c /\ session'[w] = s
    BY <1>3 DEF TypeInv, Create
  <1>7. \A v \in Workers : v # w =>
          pc'[v] = pc[v] /\ chunk'[v] = chunk[v] /\ session'[v] = session[v] /\ op'[v] = op[v]
    BY DEF TypeInv, Create
  <1>8. \A r \in 1..sessions : r \in Sessions /\ r # s
    BY <1>2, SizesAssumption DEF Sessions
  <1>9. \A v \in Workers : v # w /\ pc[v] # "idle" => session[v] \in 1..sessions
    BY DEF CallInv
  <1>10. upload[s] = "none" /\ \A n \in Notifiers : notified[s][n] # 1
    BY <1>2, <1>3 DEF OpenInv, NoteInv
  <1> HIDE DEF s
  <1>11. TypeInv'
    <2>1. /\ pc' \in [Workers -> Labels] /\ chunk' \in [Workers -> Chunks \cup {None}]
          /\ session' \in [Workers -> 1..s \cup {None}]
      BY <1>3 DEF TypeInv, Create, Labels
    <2>2. transfer' \in [Sessions -> States \cup {None}]
      BY <1>3, <1>4 DEF TypeInv, Create, Set
    <2>3. \A r \in 1..s : transfer'[r] \in States
      BY <1>3, <1>4, <1>5, <1>8 DEF TypeInv
    <2>4. s \in 0..MaxSessions
      BY <1>3, SizesAssumption DEF Sessions
    <2> QED BY <1>1, <1>3, <2>1, <2>2, <2>3, <2>4 DEF TypeInv
  <1>12. CallInv'
    <2>1. Built' /\ ~closed' BY <1>1, <1>2 DEF Built
    <2> QED BY <1>1, <1>2, <1>3, <1>6, <1>7, <1>9, <2>1 DEF CallInv
  <1>13. OpenInv'
    <2>1. transfer'[s].init = "pending"
      BY <1>5 DEF NewState
    <2>2. \A v \in Workers : pc[v] # "new"
      BY <1>2, <1>9, NoneAssumption, <1>8 DEF OpenInv, CallInv
    <2>3. \A v \in Workers : v # w /\ pc[v] # "idle" => transfer'[session[v]] = transfer[session[v]]
      BY <1>5, <1>8, <1>9
    <2>4. \A v \in Workers : pc'[v] \notin {"idle", "new", "join"} =>
             transfer'[session'[v]].init = "done"
      BY <1>6, <1>7, <2>3 DEF OpenInv
    <2>5. \A r \in Sessions : upload[r] # "none" => r <= s /\ transfer'[r].init = "done"
      BY <1>2, <1>5, <1>10 DEF OpenInv, Sessions, s
    <2>6. \A r \in Sessions : upload[r] = "open" =>
            "abort" \in failed[r] \/ \E v \in Workers : session'[v] = r /\ pc'[v] = "abort"
      BY <1>2, <1>6, <1>7, NoneAssumption DEF OpenInv
    <2> QED BY <1>1, <1>3, <1>6, <1>7, <2>1, <2>2, <2>4, <2>5, <2>6 DEF OpenInv
  <1>14. DriveInv'
    <2>1. \A v \in Workers : (pc'[v] \in Drivers <=> pc[v] \in Drivers)
                             /\ (pc[v] \in Drivers => session'[v] = session[v] /\ session[v] # s)
      BY <1>2, <1>3, <1>6, <1>7, <1>9 DEF Drivers
    <2>2. ~transfer'[s].uploading /\ ~hasUploadWork(transfer'[s])
      BY <1>4, <1>5 DEF NewState
    <2>3. \A r \in 1..sessions : transfer'[r] = transfer[r]
      BY <1>5, <1>8
    <2> QED BY <1>1, <1>3, <2>1, <2>2, <2>3 DEF DriveInv
  <1>15. PrefixInv'
    <2>1. \A v \in Workers : pc'[v] = "put" <=> pc[v] = "put"
      BY <1>2, <1>6, <1>7
    <2>2. \A r \in 1..sessions : Taken(r)' <=> Taken(r)
      BY <1>2, <1>7, <2>1 DEF Taken
    <2>3. \A r \in 1..sessions : transfer'[r] = transfer[r]
      BY <1>5, <1>8
    <2>4. /\ NewState.uploadedParts = <<>> /\ Len(NewState.uploadedParts) = 0
          /\ NewState.nextPartNumber = 1
          /\ NewState.pendingPartBuffer = <<>> /\ NewState.nextOffset = 0
          /\ DOMAIN NewState.pendingSegments = {}
      BY DEF NewState
    <2>5. uploadedEnd(NewState) = 0 /\ Bytes(0, 0) = <<>>
      BY <2>4 DEF uploadedEnd, Bytes
    <2>6. PartInv(stored[s], NewState.uploadedParts)
      BY <2>4 DEF PartInv
    <2>7. Prefix(NewState, stored[s])
          /\ NewState.pendingPartBuffer = Bytes(uploadedEnd(NewState), NewState.nextOffset)
      BY <1>2, <2>4, <2>5, <2>6 DEF Prefix
    <2> QED BY <1>1, <1>3, <1>5, <2>2, <2>3, <2>7 DEF PrefixInv
  <1>16. PutInv'
    <2>1. \A v \in Workers : pc'[v] = "put" =>
             v # w /\ transfer'[session'[v]] = transfer[session[v]]
      BY <1>5, <1>6, <1>7, <1>8, <1>9
    <2> QED BY <1>7, <2>1 DEF PutInv
  <1>17. CompleteInv'
    <2>1. \A v \in Workers : pc'[v] = "complete" =>
             v # w /\ transfer'[session'[v]] = transfer[session[v]]
      BY <1>5, <1>6, <1>7, <1>8, <1>9
    <2> QED BY <1>7, <2>1 DEF CompleteInv
  <1>18. ObjectIntact' BY <1>1 DEF ObjectIntact
  <1>19. NoteInv' BY <1>1, <1>2, <1>6, <1>7 DEF NoteInv
  <1> QED BY <1>11, <1>12, <1>13, <1>14, <1>15, <1>16, <1>17, <1>18, <1>19 DEF OssInv, ByteInv

LEMMA AwaitInitStep ==
  ASSUME OssInv, NEW w \in Workers, AwaitInit(w)
  PROVE  OssInv'
  <1> USE DEF OssInv, ByteInv
  <1>1. UNCHANGED <<states, sessions, transfer, upload, stored, object, failed, notified,
                    notifiers, closed>>
    BY DEF AwaitInit, store, history, life
  <1>2. pc[w] = "join" /\ session[w] \in 1..sessions
    BY DEF TypeInv, CallInv, AwaitInit, Goto, Return
  <1>3. \A v \in Workers : v # w =>
          pc'[v] = pc[v] /\ chunk'[v] = chunk[v] /\ session'[v] = session[v] /\ op'[v] = op[v]
    BY DEF TypeInv, AwaitInit, Goto, Return
  <1>4. \/ pc'[w] = "accept" /\ chunk'[w] = chunk[w] /\ session'[w] = session[w]
        \/ pc'[w] = "idle" /\ session'[w] = None
    BY <1>2 DEF TypeInv, AwaitInit, Goto, Return
  <1>5. TypeInv'
    <2>1. pc' \in [Workers -> Labels] /\ chunk' \in [Workers -> Chunks \cup {None}]
          /\ session' \in [Workers -> 1..sessions \cup {None}]
      BY DEF TypeInv, AwaitInit, Goto, Return, Labels
    <2>2. op' \in [Workers -> PartOps \cup CompleteOps \cup NotifyOps \cup {None}]
      BY DEF TypeInv, AwaitInit, Goto, Return
    <2> QED BY <1>1, <2>1, <2>2 DEF TypeInv
  <1>6. CallInv'
    <2>1. Built' <=> Built BY <1>1 DEF Built
    <2> QED BY <1>1, <1>2, <1>3, <1>4, <2>1 DEF CallInv
  <1>7. OpenInv'
    <2>1. pc'[w] = "accept" => transfer[session[w]].init = "done"
      BY DEF TypeInv, AwaitInit, Goto, Return
    <2> QED BY <1>1, <1>2, <1>3, <1>4, <2>1 DEF OpenInv
  <1>8. DriveInv'
    <2>1. \A v \in Workers : pc'[v] \in Drivers <=> pc[v] \in Drivers
      BY <1>2, <1>3, <1>4 DEF Drivers
    <2>2. pc[w] \notin Drivers BY <1>2 DEF Drivers
    <2> QED BY <1>1, <1>3, <2>1, <2>2 DEF DriveInv
  <1>9. PrefixInv'
    <2>1. \A r \in 1..sessions : Taken(r)' <=> Taken(r)
      BY <1>2, <1>3, <1>4 DEF Taken
    <2> QED BY <1>1, <2>1 DEF PrefixInv
  <1>10. PutInv' BY <1>1, <1>2, <1>3, <1>4 DEF PutInv
  <1>11. CompleteInv' BY <1>1, <1>2, <1>3, <1>4 DEF CompleteInv
  <1>12. ObjectIntact' BY <1>1 DEF ObjectIntact
  <1>13. NoteInv' BY <1>1, <1>2, <1>3, <1>4 DEF NoteInv
  <1> QED BY <1>5, <1>6, <1>7, <1>8, <1>9, <1>10, <1>11, <1>12, <1>13 DEF OssInv, ByteInv

LEMMA DeleteStateStep ==
  ASSUME OssInv, NEW w \in Workers, DeleteState(w)
  PROVE  OssInv'
  <1> USE DEF OssInv, ByteInv
  <1>1. UNCHANGED <<sessions, transfer, upload, stored, object, failed, notified,
                    notifiers, closed>>
    BY DEF DeleteState, store, history, life
  <1>2. pc[w] = "delete" /\ session[w] \in 1..sessions
    BY DEF TypeInv, CallInv, DeleteState, Drop
  <1>3. \A v \in Workers : v # w =>
          pc'[v] = pc[v] /\ chunk'[v] = chunk[v] /\ session'[v] = session[v] /\ op'[v] = op[v]
    BY DEF TypeInv, DeleteState, Drop
  <1>4. pc'[w] = "notify" /\ session'[w] = session[w] /\ chunk'[w] = chunk[w]
    BY <1>2 DEF TypeInv, DeleteState, Drop
  <1>5. op'[w] \in NotifyOps /\ op'[w].at = 1 /\ states' \in {states, None}
    BY DEF TypeInv, DeleteState, NotifyOps, Drop
  <1>6. TypeInv'
    <2>1. pc' \in [Workers -> Labels] /\ chunk' \in [Workers -> Chunks \cup {None}]
          /\ session' \in [Workers -> 1..sessions \cup {None}]
      BY DEF TypeInv, DeleteState, Drop, Labels
    <2>2. op' \in [Workers -> PartOps \cup CompleteOps \cup NotifyOps \cup {None}]
      BY DEF TypeInv, DeleteState, Drop, NotifyOps
    <2>3. states' \in 1..sessions \cup {None}
      BY DEF TypeInv, DeleteState, Drop
    <2> QED BY <1>1, <2>1, <2>2, <2>3 DEF TypeInv
  <1>7. CallInv'
    <2>1. Built' <=> Built BY <1>1 DEF Built
    <2> QED BY <1>1, <1>2, <1>3, <1>4, <1>5, <2>1 DEF CallInv
  <1>8. OpenInv'
    <2>1. \A v \in Workers : pc[v] = "new" => session[v] # session[w]
      BY <1>2 DEF OpenInv
    <2>2. states' = states \/ (states = session[w] /\ states' = None)
      BY DEF DeleteState, Drop
    <2>3. upload[session[w]] # "open"
      BY <1>2 DEF NoteInv
    <2>4. \A v \in Workers : pc'[v] = "new" <=> pc[v] = "new" /\ v # w
      BY <1>2, <1>3, <1>4
    <2>5. \A v \in Workers : pc'[v] = "new" => states' = session'[v]
      BY <1>3, <2>1, <2>2, <2>4 DEF OpenInv
    <2>6. \A r \in Sessions : upload[r] = "open" /\ states = r => states' = r
      BY <2>2, <2>3
    <2>7. \A r \in Sessions, v \in Workers : session[v] = r /\ pc[v] = "abort" =>
             session'[v] = r /\ pc'[v] = "abort"
      BY <1>2, <1>3
    <2>8. \A r \in Sessions : upload[r] = "open" =>
            \/ states' = r \/ "abort" \in failed[r]
            \/ \E v \in Workers : session'[v] = r /\ pc'[v] = "abort"
      BY <2>6, <2>7 DEF OpenInv
    <2> QED BY <1>1, <1>2, <1>3, <1>4, <2>4, <2>5, <2>8 DEF OpenInv
  <1>9. DriveInv'
    <2>1. \A v \in Workers : pc'[v] \in Drivers <=> pc[v] \in Drivers
      BY <1>2, <1>3, <1>4 DEF Drivers
    <2>2. pc[w] \notin Drivers BY <1>2 DEF Drivers
    <2> QED BY <1>1, <1>3, <2>1, <2>2 DEF DriveInv
  <1>10. PrefixInv'
    <2>1. \A r \in 1..sessions : Taken(r)' <=> Taken(r)
      BY <1>2, <1>3, <1>4 DEF Taken
    <2> QED BY <1>1, <2>1 DEF PrefixInv
  <1>11. PutInv' BY <1>1, <1>2, <1>3, <1>4 DEF PutInv
  <1>12. CompleteInv' BY <1>1, <1>2, <1>3, <1>4 DEF CompleteInv
  <1>13. ObjectIntact' BY <1>1 DEF ObjectIntact
  <1>14. NoteInv'
    <2>1. \A v \in Workers : pc'[v] \in {"delete", "notify"} <=> pc[v] \in {"delete", "notify"}
      BY <1>2, <1>3, <1>4
    <2>2. \A v \in Workers : session'[v] = session[v]
      BY <1>3, <1>4
    <2>3. \A n \in Notifiers : ~(n < 1)
      BY DEF Notifiers
    <2>4. \A n \in Notifiers : notified[session[w]][n] = 0
      BY <1>2 DEF NoteInv
    <2> QED BY <1>1, <1>2, <1>3, <1>4, <1>5, <2>1, <2>2, <2>3, <2>4 DEF NoteInv
  <1> QED BY <1>6, <1>7, <1>8, <1>9, <1>10, <1>11, <1>12, <1>13, <1>14 DEF OssInv, ByteInv

LEMMA FailTransferStep ==
  ASSUME OssInv, NEW w \in Workers, FailTransfer(w)
  PROVE  OssInv'
  <1> USE DEF OssInv, ByteInv
  <1>1. UNCHANGED <<sessions, transfer, upload, stored, object, failed, notified,
                    notifiers, closed>>
    BY DEF FailTransfer, store, history, life
  <1>2. pc[w] = "fail" /\ session[w] \in 1..sessions
    BY DEF TypeInv, CallInv, FailTransfer, Drop, Goto
  <1>3. \A v \in Workers : v # w =>
          pc'[v] = pc[v] /\ chunk'[v] = chunk[v] /\ session'[v] = session[v] /\ op'[v] = op[v]
    BY DEF TypeInv, FailTransfer, Drop, Goto
  <1>4. pc'[w] = "abort" /\ op'[w] = op[w] /\ session'[w] = session[w] /\ chunk'[w] = chunk[w]
    BY <1>2 DEF TypeInv, FailTransfer, Drop, Goto
  <1>5. TypeInv'
    <2>1. pc' \in [Workers -> Labels] /\ chunk' \in [Workers -> Chunks \cup {None}]
          /\ session' \in [Workers -> 1..sessions \cup {None}]
      BY DEF TypeInv, FailTransfer, Drop, Goto, Labels
    <2>2. op' \in [Workers -> PartOps \cup CompleteOps \cup NotifyOps \cup {None}]
      BY DEF TypeInv, FailTransfer, Drop, Goto, NotifyOps
    <2>3. states' \in 1..sessions \cup {None}
      BY DEF TypeInv, FailTransfer, Drop, Goto
    <2> QED BY <1>1, <2>1, <2>2, <2>3 DEF TypeInv
  <1>6. CallInv'
    <2>1. Built' <=> Built BY <1>1 DEF Built
    <2>2. states' \in {states, None} BY DEF FailTransfer, Drop
    <2> QED BY <1>1, <1>2, <1>3, <1>4, <2>1, <2>2 DEF CallInv
  <1>7. OpenInv'
    <2>1. \A v \in Workers : pc[v] = "new" => session[v] # session[w]
      BY <1>2 DEF OpenInv
    <2>2. states' = states \/ (states = session[w] /\ states' = None)
      BY DEF FailTransfer, Drop
    <2>3. \A v \in Workers : pc'[v] = "new" <=> pc[v] = "new" /\ v # w
      BY <1>2, <1>3, <1>4
    <2>4. \A v \in Workers : pc'[v] = "new" => states' = session'[v]
      BY <1>3, <2>1, <2>2, <2>3 DEF OpenInv
    <2>5. \A r \in Sessions, v \in Workers : session[v] = r /\ pc[v] = "abort" =>
             session'[v] = r /\ pc'[v] = "abort"
      BY <1>2, <1>3
    <2>6. \A r \in Sessions : upload[r] = "open" =>
            \/ states' = r \/ "abort" \in failed[r]
            \/ \E v \in Workers : session'[v] = r /\ pc'[v] = "abort"
      BY <1>4, <2>2, <2>5 DEF OpenInv
    <2> QED BY <1>1, <1>2, <1>3, <1>4, <2>3, <2>4, <2>6 DEF OpenInv
  <1>8. DriveInv'
    <2>1. \A v \in Workers : pc'[v] \in Drivers <=> pc[v] \in Drivers
      BY <1>2, <1>3, <1>4 DEF Drivers
    <2>2. pc[w] \notin Drivers BY <1>2 DEF Drivers
    <2> QED BY <1>1, <1>3, <2>1, <2>2 DEF DriveInv
  <1>9. PrefixInv'
    <2>1. \A r \in 1..sessions : Taken(r)' <=> Taken(r)
      BY <1>2, <1>3, <1>4 DEF Taken
    <2> QED BY <1>1, <2>1 DEF PrefixInv
  <1>10. PutInv' BY <1>1, <1>2, <1>3, <1>4 DEF PutInv
  <1>11. CompleteInv' BY <1>1, <1>2, <1>3, <1>4 DEF CompleteInv
  <1>12. ObjectIntact' BY <1>1 DEF ObjectIntact
  <1>13. NoteInv' BY <1>1, <1>2, <1>3, <1>4 DEF NoteInv
  <1> QED BY <1>5, <1>6, <1>7, <1>8, <1>9, <1>10, <1>11, <1>12, <1>13 DEF OssInv, ByteInv

LEMMA NotifyFileReadyStep ==
  ASSUME OssInv, NEW w \in Workers, NotifyFileReady(w)
  PROVE  OssInv'
  <1> USE DEF OssInv, ByteInv
  <1>1. UNCHANGED <<states, sessions, transfer, pc, chunk, session, upload, stored, object, failed,
                    notifiers, closed>>
    BY DEF NotifyFileReady, store, life
  <1>2. pc[w] = "notify" /\ session[w] \in 1..sessions
    BY DEF TypeInv, CallInv, NotifyFileReady
  <1>3. \A v \in Workers : v # w =>
          pc'[v] = pc[v] /\ chunk'[v] = chunk[v] /\ session'[v] = session[v] /\ op'[v] = op[v]
    BY DEF TypeInv, NotifyFileReady
  <1>4. pc'[w] = pc[w] /\ session'[w] = session[w] /\ chunk'[w] = chunk[w]
    BY <1>2 DEF TypeInv, NotifyFileReady
  <1>5. op[w] \in NotifyOps /\ op'[w] \in NotifyOps /\ op'[w].at = op[w].at + 1
        /\ op[w].at \in Notifiers
    <2>1. op[w] \in NotifyOps
      BY <1>2 DEF CallInv
    <2>2. op'[w] = [op[w] EXCEPT !.at = op[w].at + 1] /\ op[w].at \in Notifiers
      BY DEF TypeInv, NotifyFileReady
    <2>3. op[w].at + 1 \in Nat
      BY <2>1 DEF NotifyOps
    <2> QED BY <2>1, <2>2, <2>3 DEF NotifyOps
  <1>6. /\ \A r \in Sessions : r # session[w] => notified'[r] = notified[r]
        /\ \A n \in Notifiers : notified'[session[w]][n] =
             IF n = op[w].at THEN notified[session[w]][n] + 1 ELSE notified[session[w]][n]
        /\ notified' \in [Sessions -> [Notifiers -> Nat]]
    <2>1. session[w] \in Sessions
      BY <1>2, SessionRange
    <2>2. notified[session[w]] \in [Notifiers -> Nat] /\ notified[session[w]][op[w].at] + 1 \in Nat
      BY <1>5, <2>1 DEF TypeInv
    <2> QED BY <1>5, <2>1, <2>2 DEF TypeInv, NotifyFileReady
  <1>7. TypeInv'
    <2>1. op' \in [Workers -> PartOps \cup CompleteOps \cup NotifyOps \cup {None}]
      BY <1>3, <1>5 DEF TypeInv, NotifyFileReady
    <2> QED BY <1>1, <1>6, <2>1 DEF TypeInv
  <1>8. CallInv'
    <2>1. Built' <=> Built BY <1>1 DEF Built
    <2> QED BY <1>1, <1>2, <1>3, <1>5, <2>1 DEF CallInv
  <1>9. OpenInv' BY <1>1, <1>2, <1>3, <1>4 DEF OpenInv
  <1>10. DriveInv'
    <2>1. \A v \in Workers : pc'[v] \in Drivers <=> pc[v] \in Drivers
      BY <1>2, <1>3, <1>4 DEF Drivers
    <2>2. pc[w] \notin Drivers BY <1>2 DEF Drivers
    <2> QED BY <1>1, <1>3, <2>1, <2>2 DEF DriveInv
  <1>11. PrefixInv'
    <2>1. \A r \in 1..sessions : Taken(r)' <=> Taken(r)
      BY <1>2, <1>3, <1>4 DEF Taken
    <2> QED BY <1>1, <2>1 DEF PrefixInv
  <1>12. PutInv' BY <1>1, <1>2, <1>3, <1>4 DEF PutInv
  <1>13. CompleteInv' BY <1>1, <1>2, <1>3, <1>4 DEF CompleteInv
  <1>14. ObjectIntact' BY <1>1 DEF ObjectIntact
  <1>15. NoteInv'
    <2>1. \A n \in Notifiers : notified[session[w]][n] = IF n < op[w].at THEN 1 ELSE 0
      BY <1>2 DEF NoteInv
    <2>2. \A n \in Notifiers : notified'[session[w]][n] = IF n < op'[w].at THEN 1 ELSE 0
      BY <1>5, <1>6, <2>1 DEF Notifiers
    <2>3. upload[session[w]] = "completed" /\ session[w] \in Sessions
      BY <1>2, SessionRange DEF NoteInv
    <2>4. \A v \in Workers : v # w /\ pc[v] \in {"delete", "notify"} =>
             session[v] # session[w] /\ session[v] \in Sessions
      BY <1>2, SessionRange DEF CallInv, NoteInv
    <2>5. \A v \in Workers : v # w /\ pc[v] \in {"delete", "notify"} =>
             notified'[session[v]] = notified[session[v]]
      BY <1>6, <2>4
    <2>6. \A r \in Sessions : \A n \in Notifiers :
             notified'[r][n] \in {0, 1} /\ (notified'[r][n] = 1 => upload[r] = "completed")
      BY <1>6, <2>2, <2>3 DEF NoteInv
    <2>7. \A r \in Sessions : upload[r] = "completed" /\ "complete" \notin failed[r] =>
            \/ \E v \in Workers : session[v] = r /\ pc[v] \in {"delete", "notify"}
            \/ \A n \in Notifiers : notified'[r][n] = 1
      BY <1>2, <1>6 DEF NoteInv
    <2> QED BY <1>1, <1>2, <1>3, <2>2, <2>5, <2>6, <2>7 DEF NoteInv
  <1> QED BY <1>7, <1>8, <1>9, <1>10, <1>11, <1>12, <1>13, <1>14, <1>15 DEF OssInv, ByteInv

LEMMA NotifiedStep ==
  ASSUME OssInv, NEW w \in Workers, Notified(w)
  PROVE  OssInv'
  <1> USE DEF OssInv, ByteInv
  <1>1. UNCHANGED <<states, sessions, transfer, upload, stored, object, failed, notified,
                    notifiers, closed>>
    BY DEF Notified, store, history, life
  <1>2. pc[w] = "notify" /\ session[w] \in 1..sessions
    BY DEF TypeInv, CallInv, Notified, Return
  <1>3. \A v \in Workers : v # w =>
          pc'[v] = pc[v] /\ chunk'[v] = chunk[v] /\ session'[v] = session[v] /\ op'[v] = op[v]
    BY DEF TypeInv, Notified, Return
  <1>4. pc'[w] = "idle" /\ session'[w] = None
    BY <1>2 DEF TypeInv, Notified, Return
  <1>5. \A n \in Notifiers : notified[session[w]][n] = 1
    <2>1. op[w].at \in Nat /\ op[w].at > NumNotifiers
      BY <1>2 DEF CallInv, Notified, NotifyOps
    <2> QED BY <1>2, <2>1, SizesAssumption DEF NoteInv, Notifiers
  <1>6. TypeInv'
    <2>1. pc' \in [Workers -> Labels] /\ chunk' \in [Workers -> Chunks \cup {None}]
          /\ session' \in [Workers -> 1..sessions \cup {None}]
      BY DEF TypeInv, Notified, Return, Labels
    <2>2. op' \in [Workers -> PartOps \cup CompleteOps \cup NotifyOps \cup {None}]
      BY DEF TypeInv, Notified, Return
    <2> QED BY <1>1, <2>1, <2>2 DEF TypeInv
  <1>7. CallInv'
    <2>1. Built' <=> Built BY <1>1 DEF Built
    <2> QED BY <1>1, <1>2, <1>3, <1>4, <2>1 DEF CallInv
  <1>8. OpenInv' BY <1>1, <1>2, <1>3, <1>4 DEF OpenInv
  <1>9. DriveInv'
    <2>1. \A v \in Workers : pc'[v] \in Drivers <=> pc[v] \in Drivers
      BY <1>2, <1>3, <1>4 DEF Drivers
    <2>2. pc[w] \notin Drivers BY <1>2 DEF Drivers
    <2> QED BY <1>1, <1>3, <2>1, <2>2 DEF DriveInv
  <1>10. PrefixInv'
    <2>1. \A r \in 1..sessions : Taken(r)' <=> Taken(r)
      BY <1>2, <1>3, <1>4 DEF Taken
    <2> QED BY <1>1, <2>1 DEF PrefixInv
  <1>11. PutInv' BY <1>1, <1>2, <1>3, <1>4 DEF PutInv
  <1>12. CompleteInv' BY <1>1, <1>2, <1>3, <1>4 DEF CompleteInv
  <1>13. ObjectIntact' BY <1>1 DEF ObjectIntact
  <1>14. NoteInv'
    <2>1. \A r \in Sessions : upload[r] = "completed" /\ "complete" \notin failed[r] =>
            \/ \E v \in Workers : session'[v] = r /\ pc'[v] \in {"delete", "notify"}
            \/ \A n \in Notifiers : notified[r][n] = 1
      BY <1>3, <1>5 DEF NoteInv
    <2> QED BY <1>1, <1>2, <1>3, <1>4, <2>1 DEF NoteInv
  <1> QED BY <1>6, <1>7, <1>8, <1>9, <1>10, <1>11, <1>12, <1>13, <1>14 DEF OssInv, ByteInv

LEMMA AbortTransferStep ==
  ASSUME OssInv, NEW w \in Workers, AbortTransfer(w)
  PROVE  OssInv'
  <1> USE DEF OssInv, ByteInv
  <1>1. UNCHANGED <<states, sessions, transfer, stored, object, notified, notifiers, closed>>
    BY DEF AbortTransfer, life
  <1>2. pc[w] = "abort" /\ session[w] \in 1..sessions
    BY DEF TypeInv, CallInv, AbortTransfer, Return
  <1>3. \A v \in Workers : v # w =>
          pc'[v] = pc[v] /\ chunk'[v] = chunk[v] /\ session'[v] = session[v] /\ op'[v] = op[v]
    BY DEF TypeInv, AbortTransfer, Return
  <1>4. pc'[w] = "idle" /\ session'[w] = None
    BY <1>2 DEF TypeInv, AbortTransfer, Return
  <1>5. /\ \A r \in Sessions : r # session[w] => upload'[r] = upload[r] /\ failed'[r] = failed[r]
        /\ \/ /\ upload[session[w]] = "open" /\ upload'[session[w]] = "aborted"
              /\ failed'[session[w]] = failed[session[w]]
           \/ /\ upload'[session[w]] = upload[session[w]]
              /\ failed'[session[w]] = failed[session[w]] \cup {"abort"}
        /\ upload' \in [Sessions -> {"none", "open", "completed", "aborted"}]
        /\ failed' \in [Sessions -> SUBSET {"new", "put", "complete", "limit", "abort"}]
        /\ session[w] \in Sessions
    <2>1. session[w] \in Sessions
      BY <1>2, SessionRange
    <2>2. CASE /\ upload[session[w]] = "open" /\ upload' = [upload EXCEPT ![session[w]] = "aborted"]
               /\ UNCHANGED failed
      BY <2>1, <2>2 DEF TypeInv
    <2>3. CASE Fail(session[w], "abort") /\ UNCHANGED upload
      BY <2>1, <2>3 DEF TypeInv, Fail
    <2> QED BY <2>1, <2>2, <2>3 DEF AbortTransfer, Aborted
  <1>6. TypeInv'
    <2>1. pc' \in [Workers -> Labels] /\ chunk' \in [Workers -> Chunks \cup {None}]
          /\ session' \in [Workers -> 1..sessions \cup {None}]
      BY DEF TypeInv, AbortTransfer, Return, Labels
    <2>2. op' \in [Workers -> PartOps \cup CompleteOps \cup NotifyOps \cup {None}]
      BY DEF TypeInv, AbortTransfer, Return
    <2> QED BY <1>1, <1>5, <2>1, <2>2 DEF TypeInv
  <1>7. CallInv'
    <2>1. Built' <=> Built BY <1>1 DEF Built
    <2> QED BY <1>1, <1>2, <1>3, <1>4, <2>1 DEF CallInv
  <1>8. OpenInv'
    <2>1. \A v \in Workers : pc'[v] # "idle" => pc'[v] = pc[v] /\ session'[v] = session[v] /\ v # w
      BY <1>3, <1>4
    <2>2. \A r \in Sessions : upload'[r] # "none" => upload[r] # "none"
      BY <1>5
    <2>3. \A r \in Sessions : upload'[r] = "open" =>
            \/ states = r \/ "abort" \in failed'[r]
            \/ \E v \in Workers : session'[v] = r /\ pc'[v] = "abort"
      <3> SUFFICES ASSUME NEW r \in Sessions, upload'[r] = "open", states # r,
                          "abort" \notin failed'[r]
                   PROVE  \E v \in Workers : session'[v] = r /\ pc'[v] = "abort"
        OBVIOUS
      <3>1. r # session[w] /\ upload[r] = "open" /\ "abort" \notin failed[r]
        BY <1>5
      <3>2. PICK v \in Workers : session[v] = r /\ pc[v] = "abort"
        BY <3>1 DEF OpenInv
      <3> QED BY <1>3, <3>1, <3>2
    <2>4. \A v \in Workers : pc'[v] = "new" =>
             states = session[v] /\ transfer[session[v]].init = "pending"
             /\ \A u \in Workers : pc[u] = "new" => u = v
      BY <2>1 DEF OpenInv
    <2> QED BY <1>1, <1>3, <2>1, <2>2, <2>3, <2>4 DEF OpenInv
  <1>9. DriveInv'
    <2>1. \A v \in Workers : pc'[v] \in Drivers <=> pc[v] \in Drivers
      BY <1>2, <1>3, <1>4 DEF Drivers
    <2>2. pc[w] \notin Drivers BY <1>2 DEF Drivers
    <2>3. \A r \in 1..sessions : upload[r] = "completed" \/ failed[r] # {} =>
             upload'[r] = "completed" \/ failed'[r] # {}
      BY <1>5, SessionRange
    <2> QED BY <1>1, <1>3, <2>1, <2>2, <2>3 DEF DriveInv
  <1>10. PrefixInv'
    <2>1. \A r \in 1..sessions : Taken(r)' <=> Taken(r)
      BY <1>2, <1>3, <1>4 DEF Taken
    <2> QED BY <1>1, <2>1 DEF PrefixInv
  <1>11. PutInv' BY <1>1, <1>2, <1>3, <1>4 DEF PutInv
  <1>12. CompleteInv' BY <1>1, <1>2, <1>3, <1>4 DEF CompleteInv
  <1>13. ObjectIntact'
    <2>1. \A r \in Sessions : upload'[r] = "completed" => upload[r] = "completed"
      BY <1>5
    <2> QED BY <1>1, <2>1 DEF ObjectIntact
  <1>14. NoteInv'
    <2>1. \A r \in Sessions : /\ upload'[r] = "completed" <=> upload[r] = "completed"
                              /\ "complete" \in failed'[r] <=> "complete" \in failed[r]
      BY <1>5
    <2>2. \A v \in Workers : pc'[v] \in {"delete", "notify"} =>
             pc'[v] = pc[v] /\ session'[v] = session[v] /\ v # w /\ session[v] \in Sessions
      BY <1>3, <1>4, SessionRange DEF CallInv
    <2>3. \A v \in Workers : pc[v] \in {"delete", "notify"} =>
             pc'[v] = pc[v] /\ session'[v] = session[v]
      BY <1>2, <1>3
    <2>4. \A v, u \in Workers : pc'[v] \in {"delete", "notify"} /\ pc'[u] \in {"delete", "notify"}
             /\ session'[v] = session'[u] => v = u
      BY <2>2 DEF NoteInv
    <2>5. \A r \in Sessions : upload'[r] = "completed" /\ "complete" \notin failed'[r] =>
            \/ \E v \in Workers : session'[v] = r /\ pc'[v] \in {"delete", "notify"}
            \/ \A n \in Notifiers : notified[r][n] = 1
      BY <2>1, <2>3 DEF NoteInv
    <2> QED BY <1>1, <1>3, <2>1, <2>2, <2>4, <2>5 DEF NoteInv
  <1> QED BY <1>6, <1>7, <1>8, <1>9, <1>10, <1>11, <1>12, <1>13, <1>14 DEF OssInv, ByteInv

LEMMA CloseStep ==
  ASSUME OssInv, Close
  PROVE  OssInv'
  <1> USE DEF OssInv, ByteInv
  <1>1. UNCHANGED <<sessions, transfer, pc, chunk, session, op, stored, object, notified>>
    BY DEF Close, worker
  <1>2. \A v \in Workers : pc[v] = "idle"
    BY DEF Close
  <1>3. /\ closed' = TRUE /\ states' = None
        /\ notifiers' \in [Notifiers -> {"none", "open", "closed"}]
        /\ \A n \in Notifiers : notifiers'[n] # "open"
    <2>1. AllClosed \in [Notifiers -> {"none", "open", "closed"}]
          /\ \A n \in Notifiers : AllClosed[n] # "open"
      BY DEF TypeInv, AllClosed
    <2> QED BY <2>1 DEF Close
  <1>4. /\ \A r \in Sessions :
             \/ upload'[r] = upload[r] /\ failed'[r] = failed[r] /\ states # r
             \/ upload[r] = "open" /\ upload'[r] = "aborted" /\ failed'[r] = failed[r]
             \/ upload'[r] = upload[r] /\ failed'[r] = failed[r] \cup {"abort"}
        /\ upload' \in [Sessions -> {"none", "open", "completed", "aborted"}]
        /\ failed' \in [Sessions -> SUBSET {"new", "put", "complete", "limit", "abort"}]
    <2>1. CASE states = None /\ UNCHANGED <<upload, failed>>
      BY <2>1, NoneAssumption DEF TypeInv
    <2>2. CASE states # None /\ Aborted(states)
      <3>1. states \in Sessions
        BY <2>2, SessionRange DEF TypeInv
      <3>2. CASE /\ upload[states] = "open" /\ upload' = [upload EXCEPT ![states] = "aborted"]
                 /\ UNCHANGED failed
        BY <3>1, <3>2 DEF TypeInv
      <3>3. CASE Fail(states, "abort") /\ UNCHANGED upload
        BY <3>1, <3>3 DEF TypeInv, Fail
      <3> QED BY <2>2, <3>2, <3>3 DEF Aborted
    <2> QED BY <2>1, <2>2 DEF Close
  <1>5. TypeInv' BY <1>1, <1>3, <1>4 DEF TypeInv
  <1>6. CallInv' BY <1>1, <1>2, <1>3 DEF CallInv
  <1>7. OpenInv'
    <2>1. \A r \in Sessions : upload'[r] # "none" => upload[r] # "none"
      BY <1>4
    <2>2. \A r \in Sessions : upload'[r] = "open" => "abort" \in failed'[r]
      BY <1>2, <1>4 DEF OpenInv
    <2> QED BY <1>1, <1>2, <2>1, <2>2 DEF OpenInv
  <1>8. DriveInv'
    <2>1. \A r \in 1..sessions : upload[r] = "completed" \/ failed[r] # {} =>
             upload'[r] = "completed" \/ failed'[r] # {}
      BY <1>4, SessionRange
    <2> QED BY <1>1, <2>1 DEF DriveInv
  <1>9. PrefixInv' BY <1>1 DEF PrefixInv, Taken
  <1>10. PutInv' BY <1>1, <1>2 DEF PutInv
  <1>11. CompleteInv' BY <1>1, <1>2 DEF CompleteInv
  <1>12. ObjectIntact'
    <2>1. \A r \in Sessions : upload'[r] = "completed" => upload[r] = "completed"
      BY <1>4
    <2> QED BY <1>1, <2>1 DEF ObjectIntact
  <1>13. NoteInv'
    <2>1. \A r \in Sessions : /\ upload'[r] = "completed" <=> upload[r] = "completed"
                              /\ "complete" \in failed'[r] <=> "complete" \in failed[r]
      BY <1>4
    <2> QED BY <1>1, <1>2, <2>1 DEF NoteInv
  <1> QED BY <1>5, <1>6, <1>7, <1>8, <1>9, <1>10, <1>11, <1>12, <1>13 DEF OssInv, ByteInv

LEMMA NewMultipartUploadStep ==
  ASSUME OssInv, NEW w \in Workers, NewMultipartUpload(w)
  PROVE  OssInv'
  <1> USE DEF OssInv, ByteInv
  <1>1. UNCHANGED <<sessions, stored, object, notified, notifiers, closed>>
    BY DEF NewMultipartUpload, life
  <1>2. pc[w] = "new"
    BY DEF NewMultipartUpload
  <1>3. PICK s \in 1..sessions : s = session[w] /\ s \in Sessions /\ chunk[w] \in Chunks
    BY <1>2, SessionRange DEF CallInv
  <1>4. PICK t \in States : t = transfer[s]
    BY DEF TypeInv
  <1>5. \A v \in Workers : v # w =>
          pc'[v] = pc[v] /\ chunk'[v] = chunk[v] /\ session'[v] = session[v] /\ op'[v] = op[v]
    BY DEF TypeInv, NewMultipartUpload, Goto, Return
  <1>6. /\ t.init = "pending" /\ states = s
        /\ \A v \in Workers : session[v] = s => v = w \/ pc[v] \in {"idle", "join"}
    BY <1>2, <1>3, <1>4 DEF OpenInv
  <1>7. PICK x \in States :
          /\ transfer'[s] = x /\ \A r \in Sessions : r # s => transfer'[r] = transfer[r]
          /\ transfer' \in [Sessions -> States \cup {None}]
          /\ x.uploadedParts = t.uploadedParts /\ x.nextPartNumber = t.nextPartNumber
          /\ x.nextOffset = t.nextOffset /\ x.pendingSegments = t.pendingSegments
          /\ x.pendingPartBuffer = t.pendingPartBuffer /\ x.uploading = t.uploading
          /\ (hasUploadWork(x) <=> hasUploadWork(t))
          /\ \/ /\ x.init = "done" /\ UNCHANGED <<states, failed>>
                /\ upload' = [upload EXCEPT ![s] = "open"] /\ Goto(w, "accept")
             \/ /\ x.init = "failed" /\ states' = None /\ UNCHANGED upload
                /\ Fail(s, "new") /\ Return(w)
    <2>1. PICK b \in {"done", "failed"} :
            /\ transfer' = [transfer EXCEPT ![s] = [t EXCEPT !.init = b]]
            /\ \/ /\ b = "done" /\ UNCHANGED <<states, failed>>
                  /\ upload' = [upload EXCEPT ![s] = "open"] /\ Goto(w, "accept")
               \/ /\ b = "failed" /\ states' = None /\ UNCHANGED upload
                  /\ Fail(s, "new") /\ Return(w)
      BY <1>3, <1>4, <1>6 DEF NewMultipartUpload, Set
    <2>2. PICK x \in States : x = [t EXCEPT !.init = b]
      BY InitOnly DEF IsOpened
    <2>3. transfer'[s] = x /\ \A r \in Sessions : r # s => transfer'[r] = transfer[r]
      BY <1>3, <2>1, <2>2 DEF TypeInv
    <2>4. transfer' \in [Sessions -> States \cup {None}]
      BY <1>3, <2>1, <2>2 DEF TypeInv
    <2>5. IsOpened(x, t, b)
      BY <2>2, InitOnly
    <2> QED BY <2>1, <2>3, <2>4, <2>5 DEF IsOpened
  <1>8. \/ pc'[w] = "accept" /\ session'[w] = s /\ chunk'[w] = chunk[w] /\ x.init = "done"
        \/ pc'[w] = "idle" /\ session'[w] = None /\ x.init = "failed"
    BY <1>3, <1>7 DEF TypeInv, Goto, Return
  <1>9. upload[s] = "none" /\ failed[s] \in SUBSET {"new", "put", "complete", "limit", "abort"}
    BY <1>3, <1>4, <1>6 DEF TypeInv, OpenInv
  <1>10. /\ \A r \in Sessions : r # s => upload'[r] = upload[r] /\ failed'[r] = failed[r]
         /\ \/ upload'[s] = "open" /\ failed'[s] = failed[s] /\ x.init = "done" /\ states' = s
            \/ /\ upload'[s] = "none" /\ failed'[s] = failed[s] \cup {"new"}
               /\ x.init = "failed" /\ states' = None
         /\ upload' \in [Sessions -> {"none", "open", "completed", "aborted"}]
         /\ failed' \in [Sessions -> SUBSET {"new", "put", "complete", "limit", "abort"}]
    <2>1. CASE x.init = "done"
      BY <1>3, <1>6, <1>7, <1>9, <2>1 DEF TypeInv
    <2>2. CASE x.init = "failed"
      <3>1. /\ states' = None /\ UNCHANGED upload
            /\ failed' = [failed EXCEPT ![s] = failed[s] \cup {"new"}]
        BY <1>7, <2>2 DEF Fail
      <3>2. failed[s] \cup {"new"} \in SUBSET {"new", "put", "complete", "limit", "abort"}
        BY <1>9
      <3> QED BY <1>3, <1>9, <2>2, <3>1, <3>2 DEF TypeInv
    <2> QED BY <1>7, <2>1, <2>2
  <1>11. \A v \in Workers : pc[v] \notin {"idle", "new", "join"} =>
            v # w /\ session[v] # s /\ session[v] \in Sessions
    BY <1>2, <1>3, <1>6, SessionRange DEF CallInv
  <1>12. TypeInv'
    <2>1. pc' \in [Workers -> Labels] /\ chunk' \in [Workers -> Chunks \cup {None}]
          /\ session' \in [Workers -> 1..sessions \cup {None}]
          /\ op' \in [Workers -> PartOps \cup CompleteOps \cup NotifyOps \cup {None}]
      BY <1>7 DEF TypeInv, Goto, Return, Labels
    <2>2. \A r \in 1..sessions : transfer'[r] \in States
      BY <1>7, SessionRange DEF TypeInv
    <2>3. states' \in 1..sessions \cup {None}
      BY <1>10
    <2> QED BY <1>1, <1>7, <1>10, <2>1, <2>2, <2>3 DEF TypeInv
  <1>13. CallInv'
    <2>1. Built' <=> Built BY <1>1 DEF Built
    <2>2. ~closed
      BY <1>2 DEF CallInv, Built
    <2> QED BY <1>1, <1>2, <1>3, <1>5, <1>8, <2>1, <2>2 DEF CallInv
  <1>14. OpenInv'
    <2>1. \A v \in Workers : pc'[v] # "new"
      BY <1>2, <1>5, <1>8 DEF OpenInv
    <2>2. \A v \in Workers : pc'[v] \notin {"idle", "new", "join"} =>
             transfer'[session'[v]].init = "done"
      <3> SUFFICES ASSUME NEW v \in Workers, pc'[v] \notin {"idle", "new", "join"}
                   PROVE  transfer'[session'[v]].init = "done"
        OBVIOUS
      <3>1. CASE v = w
        BY <1>7, <1>8, <3>1
      <3>2. CASE v # w
        BY <1>5, <1>7, <1>11, <3>2 DEF OpenInv
      <3> QED BY <3>1, <3>2
    <2>3. \A r \in Sessions : upload'[r] # "none" => r <= sessions /\ transfer'[r].init = "done"
      <3>1. s <= sessions
        BY DEF TypeInv
      <3> QED BY <1>7, <1>10, <3>1 DEF OpenInv
    <2>4. \A v \in Workers : pc[v] = "abort" => pc'[v] = "abort" /\ session'[v] = session[v]
      BY <1>2, <1>5
    <2>5. \A r \in Sessions : upload'[r] = "open" =>
            \/ states' = r \/ "abort" \in failed'[r]
            \/ \E v \in Workers : session'[v] = r /\ pc'[v] = "abort"
      BY <1>6, <1>10, <2>4 DEF OpenInv
    <2> QED BY <1>1, <2>1, <2>2, <2>3, <2>5 DEF OpenInv
  <1>15. DriveInv'
    <2>1. \A v \in Workers : /\ pc'[v] \in Drivers <=> pc[v] \in Drivers
                             /\ pc[v] \in Drivers => session'[v] = session[v]
      BY <1>2, <1>5, <1>8 DEF Drivers
    <2>2. \A r \in 1..sessions : /\ transfer'[r].uploading = transfer[r].uploading
                                 /\ hasUploadWork(transfer'[r]) <=> hasUploadWork(transfer[r])
      BY <1>4, <1>7, SessionRange
    <2>3. \A r \in 1..sessions : upload[r] = "completed" \/ failed[r] # {} =>
             upload'[r] = "completed" \/ failed'[r] # {}
      BY <1>9, <1>10, SessionRange
    <2> QED BY <1>1, <2>1, <2>2, <2>3 DEF DriveInv
  <1>16. PrefixInv'
    <2>1. \A r \in 1..sessions : Taken(r)' <=> Taken(r)
      BY <1>2, <1>5, <1>8 DEF Taken
    <2>2. Prefix(x, stored[s]) /\ uploadedEnd(x) = uploadedEnd(t)
      BY <1>4, <1>7, PrefixSame DEF PrefixInv
    <2>3. \A r \in 1..sessions : r # s => transfer'[r] = transfer[r]
      BY <1>7, SessionRange
    <2> QED BY <1>1, <1>4, <1>7, <2>1, <2>2, <2>3 DEF PrefixInv
  <1>17. PutInv'
    <2>1. \A v \in Workers : pc'[v] = "put" =>
             /\ pc[v] = "put" /\ op'[v] = op[v]
             /\ transfer'[session'[v]] = transfer[session[v]]
      BY <1>5, <1>7, <1>8, <1>11
    <2> QED BY <2>1 DEF PutInv
  <1>18. CompleteInv'
    <2>1. \A v \in Workers : pc'[v] = "complete" =>
             /\ pc[v] = "complete" /\ op'[v] = op[v]
             /\ transfer'[session'[v]] = transfer[session[v]]
      BY <1>5, <1>7, <1>8, <1>11
    <2> QED BY <2>1 DEF CompleteInv
  <1>19. ObjectIntact'
    <2>1. \A r \in Sessions : upload'[r] = "completed" => upload[r] = "completed"
      BY <1>10
    <2> QED BY <1>1, <2>1 DEF ObjectIntact
  <1>20. NoteInv'
    <2>1. \A r \in Sessions : /\ upload'[r] = "completed" <=> upload[r] = "completed"
                              /\ "complete" \in failed'[r] <=> "complete" \in failed[r]
      BY <1>9, <1>10
    <2>2. \A v \in Workers : /\ pc'[v] = "delete" <=> pc[v] = "delete"
                             /\ pc'[v] = "notify" <=> pc[v] = "notify"
                             /\ pc[v] \in {"delete", "notify"} =>
                                  session'[v] = session[v] /\ op'[v] = op[v]
      BY <1>2, <1>5, <1>8
    <2>3. \A v \in Workers : pc[v] \in {"delete", "notify"} => session[v] \in Sessions
      BY <1>11
    <2> QED BY <1>1, <2>1, <2>2, <2>3 DEF NoteInv
  <1> QED BY <1>12, <1>13, <1>14, <1>15, <1>16, <1>17, <1>18, <1>19, <1>20 DEF OssInv, ByteInv

LEMMA AcceptPacketStep ==
  ASSUME OssInv, NEW w \in Workers, AcceptPacket(w)
  PROVE  OssInv'
  <1> USE DEF OssInv, ByteInv
  <1>1. UNCHANGED <<states, sessions, upload, stored, object, notified, notifiers, closed>>
    BY DEF AcceptPacket, store, life
  <1>2. pc[w] = "accept"
    BY DEF AcceptPacket
  <1>3. PICK s \in 1..sessions : s = session[w] /\ s \in Sessions /\ chunk[w] \in Chunks
    BY <1>2, SessionRange DEF CallInv
  <1>4. PICK t \in States : t = transfer[s]
    BY DEF TypeInv
  <1>5. PICK x \in States, u \in States :
          /\ Taking(t, chunk[w], u) /\ SameBytes(x, u)
          /\ transfer' = [transfer EXCEPT ![s] = x]
          /\ \/ ~u.uploading /\ x.uploading /\ Goto(w, "next") /\ UNCHANGED failed
             \/ /\ x.uploading = u.uploading /\ (u.uploading \/ ~hasUploadWork(x)) /\ Return(w)
                /\ UNCHANGED failed
             \/ x.uploading = u.uploading /\ Goto(w, "fail") /\ Fail(s, "limit")
    BY <1>3, <1>4, AcceptEffect
  <1>6. \A v \in Workers : v # w =>
          pc'[v] = pc[v] /\ chunk'[v] = chunk[v] /\ session'[v] = session[v] /\ op'[v] = op[v]
    BY <1>5 DEF TypeInv, Goto, Return
  <1>7. /\ transfer'[s] = x /\ \A r \in Sessions : r # s => transfer'[r] = transfer[r]
        /\ transfer' \in [Sessions -> States \cup {None}]
    BY <1>3, <1>5 DEF TypeInv
  <1>8. Prefix(t, stored[s])
    BY <1>4 DEF PrefixInv
  <1>9. /\ x.init = t.init /\ u.uploading = t.uploading
        /\ x.uploadedParts = t.uploadedParts /\ x.nextPartNumber = t.nextPartNumber
        /\ t.nextOffset <= x.nextOffset
        /\ x.pendingPartBuffer = t.pendingPartBuffer \o Bytes(t.nextOffset, x.nextOffset)
        /\ Prefix(x, stored[s]) /\ uploadedEnd(x) = uploadedEnd(t)
    <2>1. IsTaken(u, t, stored[s])
      BY <1>3, <1>5, <1>8, TakingBytes
    <2>2. Prefix(x, stored[s]) /\ uploadedEnd(x) = uploadedEnd(u)
      BY <1>5, <2>1, PrefixSame DEF SameBytes, IsTaken
    <2> QED BY <1>5, <2>1, <2>2 DEF SameBytes, IsTaken
  <1>10. /\ \/ /\ pc'[w] = "next" /\ ~t.uploading /\ x.uploading
               /\ session'[w] = s /\ chunk'[w] = chunk[w] /\ failed'[s] = failed[s]
            \/ /\ pc'[w] = "idle" /\ session'[w] = None /\ x.uploading = t.uploading
               /\ (t.uploading \/ ~hasUploadWork(x)) /\ failed'[s] = failed[s]
            \/ /\ pc'[w] = "fail" /\ x.uploading = t.uploading
               /\ session'[w] = s /\ chunk'[w] = chunk[w]
               /\ failed'[s] = failed[s] \cup {"limit"}
         /\ \A r \in Sessions : r # s => failed'[r] = failed[r]
         /\ failed' \in [Sessions -> SUBSET {"new", "put", "complete", "limit", "abort"}]
    <2>1. failed[s] \cup {"limit"} \in SUBSET {"new", "put", "complete", "limit", "abort"}
      BY <1>3 DEF TypeInv
    <2>2. CASE Fail(s, "limit") /\ Goto(w, "fail") /\ x.uploading = u.uploading
      <3>1. failed' = [failed EXCEPT ![s] = failed[s] \cup {"limit"}]
        BY <2>2 DEF Fail
      <3> QED BY <1>3, <1>9, <2>1, <2>2, <3>1 DEF TypeInv, Goto
    <2>3. CASE ~u.uploading /\ x.uploading /\ Goto(w, "next") /\ UNCHANGED failed
      BY <1>3, <1>9, <2>3 DEF TypeInv, Goto
    <2>4. CASE x.uploading = u.uploading /\ (u.uploading \/ ~hasUploadWork(x)) /\ Return(w)
               /\ UNCHANGED failed
      BY <1>3, <1>9, <2>4 DEF TypeInv, Return
    <2> QED BY <1>5, <2>2, <2>3, <2>4
  <1>11. t.init = "done" /\ t.nextOffset \in Nat /\ x.nextOffset \in Nat /\ uploadedEnd(t) \in Nat
         /\ uploadedEnd(t) <= t.nextOffset
    BY <1>2, <1>3, <1>4, <1>8 DEF OpenInv, States, Prefix
  <1>12. TypeInv'
    <2>1. pc' \in [Workers -> Labels] /\ chunk' \in [Workers -> Chunks \cup {None}]
          /\ session' \in [Workers -> 1..sessions \cup {None}]
          /\ op' \in [Workers -> PartOps \cup CompleteOps \cup NotifyOps \cup {None}]
      BY <1>5 DEF TypeInv, Goto, Return, Labels, Drivers
    <2>2. \A r \in 1..sessions : transfer'[r] \in States
      BY <1>7, SessionRange DEF TypeInv
    <2> QED BY <1>1, <1>7, <1>10, <2>1, <2>2 DEF TypeInv
  <1>13. CallInv'
    <2>1. Built' <=> Built BY <1>1 DEF Built
    <2> QED BY <1>1, <1>2, <1>3, <1>6, <1>10, <2>1 DEF CallInv
  <1>14. OpenInv'
    <2>1. \A r \in Sessions : transfer'[r].init = transfer[r].init
      BY <1>4, <1>7, <1>9
    <2>2. \A v \in Workers : /\ pc'[v] = "new" <=> pc[v] = "new"
                             /\ pc[v] = "new" => session'[v] = session[v] /\ session[v] \in Sessions
      BY <1>2, <1>6, <1>10, SessionRange DEF CallInv
    <2>3. \A v \in Workers : pc'[v] \notin {"idle", "new", "join"} =>
             transfer'[session'[v]].init = "done"
      <3> SUFFICES ASSUME NEW v \in Workers, pc'[v] \notin {"idle", "new", "join"}
                   PROVE  transfer'[session'[v]].init = "done"
        OBVIOUS
      <3>1. CASE v = w
        BY <1>7, <1>9, <1>10, <1>11, <3>1
      <3>2. CASE v # w
        <4>1. session[v] \in Sessions /\ transfer[session[v]].init = "done"
          BY <1>6, <3>2, SessionRange DEF OpenInv, CallInv
        <4> QED BY <1>6, <2>1, <3>2, <4>1
      <3> QED BY <3>1, <3>2
    <2>4. \A v \in Workers : pc[v] = "abort" => pc'[v] = "abort" /\ session'[v] = session[v]
      BY <1>2, <1>6
    <2>5. \A r \in Sessions : upload[r] = "open" =>
            \/ states = r \/ "abort" \in failed'[r]
            \/ \E v \in Workers : session'[v] = r /\ pc'[v] = "abort"
      BY <1>10, <2>4 DEF OpenInv
    <2> QED BY <1>1, <2>1, <2>2, <2>3, <2>5 DEF OpenInv
  <1>15. DriveInv'
    <2>1. pc[w] \notin Drivers /\ (pc'[w] \in Drivers <=> pc'[w] = "next")
      BY <1>2, <1>10 DEF Drivers
    <2>2. \A v \in Workers : v # w => (session[v] = s /\ pc[v] \in Drivers => t.uploading)
      BY <1>4 DEF DriveInv
    <2>3. \A v, y \in Workers :
             pc'[v] \in Drivers /\ pc'[y] \in Drivers /\ session'[v] = session'[y] => v = y
      BY <1>6, <1>10, <2>1, <2>2 DEF DriveInv
    <2>4. \A r \in 1..sessions : r # s =>
             transfer'[r] = transfer[r] /\ failed'[r] = failed[r]
      BY <1>7, <1>10, SessionRange
    <2>5. ASSUME NEW r \in 1..sessions, r # s
          PROVE  (\E v \in Workers : session'[v] = r /\ pc'[v] \in Drivers)
                 <=> (\E v \in Workers : session[v] = r /\ pc[v] \in Drivers)
      BY <1>3, <1>6, <1>10, <2>1, <2>5, NoneAssumption, SessionRange
    <2>6. x.uploading <=> \E v \in Workers : session'[v] = s /\ pc'[v] \in Drivers
      <3>1. CASE pc'[w] = "next"
        BY <1>10, <2>1, <3>1
      <3>2. CASE pc'[w] # "next"
        <4>1. x.uploading = t.uploading
          BY <1>10, <3>2
        <4>2. t.uploading <=> \E v \in Workers : session[v] = s /\ pc[v] \in Drivers
          BY <1>4 DEF DriveInv
        <4> QED BY <1>3, <1>6, <2>1, <3>2, <4>1, <4>2
      <3> QED BY <3>1, <3>2
    <2>7. hasUploadWork(x) /\ ~x.uploading => upload[s] = "completed" \/ failed'[s] # {}
      BY <1>10
    <2> QED BY <1>1, <1>7, <2>3, <2>4, <2>5, <2>6, <2>7 DEF DriveInv
  <1>16. PrefixInv'
    <2>1. \A r \in 1..sessions : Taken(r)' <=> Taken(r)
      BY <1>2, <1>6, <1>10 DEF Taken
    <2>2. ~Taken(s) => x.pendingPartBuffer = Bytes(uploadedEnd(x), x.nextOffset)
      <3> SUFFICES ASSUME ~Taken(s)
                   PROVE  x.pendingPartBuffer = Bytes(uploadedEnd(x), x.nextOffset)
        OBVIOUS
      <3>1. t.pendingPartBuffer = Bytes(uploadedEnd(t), t.nextOffset)
        BY <1>4 DEF PrefixInv
      <3>2. Bytes(uploadedEnd(t), t.nextOffset) \o Bytes(t.nextOffset, x.nextOffset)
              = Bytes(uploadedEnd(t), x.nextOffset)
        BY <1>9, <1>11, BytesJoin
      <3> QED BY <1>9, <3>1, <3>2
    <2>3. \A r \in 1..sessions : r # s => transfer'[r] = transfer[r]
      BY <1>7, SessionRange
    <2> QED BY <1>1, <1>7, <1>9, <2>1, <2>2, <2>3 DEF PrefixInv
  <1>17. PutInv'
    <2> SUFFICES ASSUME NEW v \in Workers, pc'[v] = "put"
                 PROVE  InHand(transfer'[session'[v]], op'[v])
      BY DEF PutInv
    <2>1. v # w /\ pc[v] = "put" /\ session'[v] = session[v] /\ op'[v] = op[v]
          /\ session[v] \in Sessions /\ op[v] \in PartOps
      BY <1>6, <1>10, SessionRange DEF CallInv
    <2>2. CASE session[v] # s
      BY <1>7, <2>1, <2>2 DEF PutInv
    <2>3. CASE session[v] = s
      <3>1. PICK o \in PartOps : o = op[v]
        BY <2>1
      <3>2. InHand(t, o)
        BY <1>4, <2>1, <2>3, <3>1 DEF PutInv
      <3>3. PICK e \in Nat : e = o.partStart + Len(o.payload)
        BY DEF PartOps
      <3>4. e <= t.nextOffset /\ t.pendingPartBuffer = Bytes(e, t.nextOffset)
        BY <3>2, <3>3 DEF InHand
      <3>5. Bytes(e, t.nextOffset) \o Bytes(t.nextOffset, x.nextOffset) = Bytes(e, x.nextOffset)
        BY <1>9, <1>11, <3>4, BytesJoin
      <3>6. x.pendingPartBuffer = Bytes(e, x.nextOffset) /\ e <= x.nextOffset
        BY <1>9, <1>11, <3>4, <3>5
      <3>7. InHand(x, o)
        BY <1>9, <3>2, <3>3, <3>6 DEF InHand
      <3> QED BY <1>7, <2>1, <2>3, <3>1, <3>7
    <2> QED BY <2>2, <2>3
  <1>18. CompleteInv'
    <2>1. \A v \in Workers : pc'[v] = "complete" =>
             /\ pc[v] = "complete" /\ session'[v] = session[v] /\ op'[v] = op[v]
             /\ session[v] \in Sessions
      BY <1>6, <1>10, SessionRange DEF CallInv
    <2>2. \A o : AllParts(t, o) => AllParts(x, o)
      BY <1>9 DEF AllParts
    <2> QED BY <1>4, <1>7, <2>1, <2>2 DEF CompleteInv
  <1>19. ObjectIntact' BY <1>1 DEF ObjectIntact
  <1>20. NoteInv'
    <2>1. \A r \in Sessions : "complete" \in failed'[r] <=> "complete" \in failed[r]
      BY <1>10
    <2>2. \A v \in Workers : /\ pc'[v] = "delete" <=> pc[v] = "delete"
                             /\ pc'[v] = "notify" <=> pc[v] = "notify"
                             /\ pc[v] \in {"delete", "notify"} =>
                                  session'[v] = session[v] /\ op'[v] = op[v]
      BY <1>2, <1>6, <1>10
    <2> QED BY <1>1, <2>1, <2>2 DEF NoteInv
  <1> QED BY <1>12, <1>13, <1>14, <1>15, <1>16, <1>17, <1>18, <1>19, <1>20 DEF OssInv, ByteInv

LEMMA NextUploadOperationStep ==
  ASSUME OssInv, NEW w \in Workers, NextUploadOperation(w)
  PROVE  OssInv'
  <1> USE DEF OssInv, ByteInv
  <1>1. UNCHANGED <<states, sessions, upload, stored, object, failed, notified, notifiers, closed>>
    BY DEF NextUploadOperation, store, history, life
  <1>2. pc[w] = "next"
    BY DEF NextUploadOperation
  <1>3. PICK s \in 1..sessions : s = session[w] /\ s \in Sessions /\ chunk[w] \in Chunks
    BY <1>2, SessionRange DEF CallInv
  <1>4. PICK t \in States : t = transfer[s]
    BY DEF TypeInv
  <1>5. \A v \in Workers : v # w =>
          pc'[v] = pc[v] /\ chunk'[v] = chunk[v] /\ session'[v] = session[v] /\ op'[v] = op[v]
    BY DEF TypeInv, NextUploadOperation, Return
  <1>6. /\ t.uploading /\ t.uploading \in BOOLEAN
        /\ \A v \in Workers : session[v] = s /\ v # w => pc[v] \notin Drivers
    BY <1>2, <1>3, <1>4 DEF DriveInv, Drivers, States
  <1>7. PICK e \in Nat : e = uploadedEnd(t) /\ e <= t.nextOffset /\ t.nextOffset \in Nat
                         /\ t.nextOffset <= FileSize /\ Prefix(t, stored[s])
    BY <1>4 DEF PrefixInv, Prefix, States
  <1>8. /\ t.pendingPartBuffer = Bytes(e, t.nextOffset)
        /\ Len(t.pendingPartBuffer) = t.nextOffset - e
        /\ t.pendingPartBuffer \in Seq(Nat)
    <2>1. ~Taken(s)
      BY <1>2, <1>3, <1>6 DEF Taken, Drivers
    <2>2. t.pendingPartBuffer = Bytes(e, t.nextOffset)
      BY <1>4, <1>7, <2>1 DEF PrefixInv
    <2> QED BY <1>7, <2>2, BytesType
  <1>9. ASSUME NEW n \in Nat, n > 0, e + n <= t.nextOffset,
               Set(s, Reserved(t, n)), op' = [op EXCEPT ![w] = PartOp(t, n)],
               pc' = [pc EXCEPT ![w] = "put"], UNCHANGED <<chunk, session>>
        PROVE  \E x \in States :
                 /\ transfer' = [transfer EXCEPT ![s] = x] /\ SameChunks(x, t)
                 /\ x.uploadedParts = t.uploadedParts /\ x.nextPartNumber = t.nextPartNumber
                 /\ pc'[w] = "put" /\ session'[w] = s /\ chunk'[w] = chunk[w] /\ x.uploading
                 /\ op'[w] \in PartOps /\ InHand(x, op'[w])
    <2>1. /\ SubSeq(t.pendingPartBuffer, 1, n) = Bytes(e, e + n)
          /\ SubSeq(t.pendingPartBuffer, n + 1, Len(t.pendingPartBuffer))
               = Bytes(e + n, t.nextOffset)
      <3>1. PICK no \in Nat : no = t.nextOffset
        BY <1>7
      <3>2. /\ SubSeq(Bytes(e, no), 1, n) = Bytes(e, e + n)
            /\ SubSeq(Bytes(e, no), n + 1, Len(Bytes(e, no))) = Bytes(e + n, no)
        <4>1. e + n <= no
          BY <1>9, <3>1
        <4> QED BY <4>1, BytesSplit, Zenon
      <3>3. t.pendingPartBuffer = Bytes(e, no)
        BY <1>8, <3>1
      <3> QED BY <3>1, <3>2, <3>3, Zenon
    <2>2. e + n \in Nat /\ e <= e + n
      BY <1>9
    <2>3. /\ Bytes(e, e + n) \in Seq(Nat) /\ Len(Bytes(e, e + n)) = n
          /\ Bytes(e + n, t.nextOffset) \in Seq(Nat)
      <3>1. Bytes(e, e + n) \in Seq(Nat) /\ Len(Bytes(e, e + n)) = (e + n) - e
        BY <2>2, BytesType
      <3>2. Bytes(e + n, t.nextOffset) \in Seq(Nat)
        BY <1>7, <1>9, <2>2, BytesType
      <3> QED BY <3>1, <3>2
    <2>4. PICK x \in States : x = Reserved(t, n)
      <3>1. Reserved(t, n) = [t EXCEPT !.pendingPartBuffer = Bytes(e + n, t.nextOffset)]
        BY <2>1 DEF Reserved
      <3> QED BY <2>3, <3>1 DEF States
    <2>5. /\ SameChunks(x, t) /\ x.uploadedParts = t.uploadedParts /\ x.uploading
          /\ x.nextPartNumber = t.nextPartNumber
          /\ x.pendingPartBuffer = Bytes(e + n, t.nextOffset)
      BY <1>6, <2>1, <2>4 DEF Reserved, SameChunks, States
    <2>6. PICK o : o = PartOp(t, n)
      OBVIOUS
    <2>7. /\ o.partNumber = t.nextPartNumber /\ o.partStart = e /\ o.payload = Bytes(e, e + n)
          /\ o \in PartOps
      BY <1>7, <2>1, <2>3, <2>6 DEF PartOp, PartOps, States
    <2>8. InHand(x, o)
      <3>1. o.partStart + Len(o.payload) = e + n
        BY <2>3, <2>7
      <3>2. uploadedEnd(x) = e
        BY <1>7, <2>5 DEF uploadedEnd
      <3>3. Len(o.payload) > 0 /\ e + n <= x.nextOffset /\ x.nextOffset = t.nextOffset
        BY <1>9, <2>3, <2>5, <2>7 DEF SameChunks
      <3> QED BY <2>5, <2>7, <3>1, <3>2, <3>3 DEF InHand
    <2>9. op'[w] = o /\ pc'[w] = "put" /\ session'[w] = s /\ chunk'[w] = chunk[w]
          /\ transfer' = [transfer EXCEPT ![s] = x]
      BY <1>3, <1>9, <2>4, <2>6 DEF TypeInv, Set
    <2> QED BY <2>5, <2>7, <2>8, <2>9
  <1>10. PICK x \in States :
           /\ transfer' = [transfer EXCEPT ![s] = x] /\ SameChunks(x, t)
           /\ x.uploadedParts = t.uploadedParts /\ x.nextPartNumber = t.nextPartNumber
           /\ \/ /\ pc'[w] = "put" /\ session'[w] = s /\ chunk'[w] = chunk[w] /\ x.uploading
                 /\ op'[w] \in PartOps /\ InHand(x, op'[w])
              \/ /\ pc'[w] = "complete" /\ session'[w] = s /\ chunk'[w] = chunk[w]
                 /\ x.uploading /\ x.pendingPartBuffer = t.pendingPartBuffer
                 /\ op'[w] \in CompleteOps /\ AllParts(x, op'[w])
              \/ /\ pc'[w] = "idle" /\ session'[w] = None /\ op'[w] = None
                 /\ ~x.uploading /\ ~hasUploadWork(x)
                 /\ x.pendingPartBuffer = t.pendingPartBuffer
    <2> DEFINE size == Len(t.pendingPartBuffer)
               Take(n) == /\ Set(s, Reserved(t, n))
                          /\ op' = [op EXCEPT ![w] = PartOp(t, n)]
                          /\ pc' = [pc EXCEPT ![w] = "put"]
                          /\ UNCHANGED <<chunk, session>>
    <2>1. PartSize \in Nat /\ PartSize > 0 /\ size \in Nat /\ size = t.nextOffset - e
      BY <1>7, <1>8, SizesAssumption
    <2>2. CASE size >= PartSize /\ Take(PartSize)
      <3>1. e + PartSize <= t.nextOffset
        BY <1>7, <2>1, <2>2
      <3> QED BY <1>9, <2>1, <2>2, <3>1
    <2>3. CASE size > 0 /\ Take(size)
      <3>1. e + size <= t.nextOffset
        BY <1>7, <2>1
      <3> HIDE DEF size
      <3> QED BY <1>9, <2>1, <2>3, <3>1
    <2>4. CASE /\ size = 0 /\ readyToComplete(t)
               /\ op' = [op EXCEPT ![w] = [kind |-> "complete",
                    parts |-> [i \in DOMAIN t.uploadedParts |-> t.uploadedParts[i].partNumber]]]
               /\ pc' = [pc EXCEPT ![w] = "complete"]
               /\ UNCHANGED <<transfer, chunk, session>>
      <3>1. PICK q \in Seq(Parts) : q = t.uploadedParts
        BY DEF States
      <3>2. /\ DOMAIN q = 1..Len(q) /\ Len(q) \in Nat
            /\ \A i \in 1..Len(q) : q[i].partNumber = i
        BY <1>7, <3>1 DEF Prefix, PartInv
      <3>3. [i \in DOMAIN q |-> q[i].partNumber] = [i \in 1..Len(q) |-> i]
        BY <3>2
      <3>4. [i \in 1..Len(q) |-> i] \in Seq(Nat)
        BY <3>2
      <3>5. uploadedEnd(t) = FileSize
        <4>1. t.totalSize = FileSize /\ FileSize > 0 /\ FileSize \in Nat
          BY <1>3, ChunksAssumption DEF CallInv, TypeInv, States
        <4>2. t.nextOffset >= FileSize
          BY <2>4, <4>1 DEF readyToComplete
        <4> QED BY <1>7, <2>1, <2>4, <4>1, <4>2
      <3>6. PICK o : o = [kind |-> "complete", parts |-> [i \in 1..Len(q) |-> i]]
        OBVIOUS
      <3>7. o \in CompleteOps /\ AllParts(t, o)
        BY <3>1, <3>4, <3>5, <3>6 DEF CompleteOps, AllParts
      <3>8. op'[w] = o
        BY <2>4, <3>1, <3>3, <3>6 DEF TypeInv
      <3>9. transfer' = [transfer EXCEPT ![s] = t]
        BY <1>3, <1>4, <2>4 DEF TypeInv
      <3>10. pc'[w] = "complete" /\ session'[w] = s /\ chunk'[w] = chunk[w] /\ SameChunks(t, t)
        BY <1>3, <2>4 DEF TypeInv, SameChunks
      <3> QED BY <1>6, <3>7, <3>8, <3>9, <3>10
    <2>5. CASE /\ size < PartSize /\ ~readyToComplete(t)
               /\ Set(s, [t EXCEPT !.uploading = FALSE]) /\ Return(w)
      <3>1. ~hasUploadWork(t)
        BY <2>1, <2>5 DEF hasUploadWork
      <3>2. PICK x \in States : x = [t EXCEPT !.uploading = FALSE]
        BY DEF States
      <3>3. ~hasUploadWork(x) /\ ~x.uploading
        BY <3>1, <3>2, WorkOnly
      <3>4. /\ SameChunks(x, t) /\ x.pendingPartBuffer = t.pendingPartBuffer
            /\ x.uploadedParts = t.uploadedParts /\ x.nextPartNumber = t.nextPartNumber
        BY <3>2 DEF SameChunks, States
      <3>5. pc'[w] = "idle" /\ session'[w] = None /\ op'[w] = None
        BY <2>5 DEF TypeInv, Return
      <3>6. transfer' = [transfer EXCEPT ![s] = x]
        BY <2>5, <3>2 DEF Set
      <3> QED BY <3>3, <3>4, <3>5, <3>6
    <2> QED BY <1>3, <1>4, <2>2, <2>3, <2>4, <2>5 DEF NextUploadOperation
  <1>11. /\ transfer'[s] = x /\ \A r \in Sessions : r # s => transfer'[r] = transfer[r]
         /\ transfer' \in [Sessions -> States \cup {None}]
    BY <1>3, <1>10 DEF TypeInv
  <1>12. Prefix(x, stored[s]) /\ uploadedEnd(x) = e
    BY <1>7, <1>10, PrefixSame DEF SameChunks
  <1>13. op' \in [Workers -> PartOps \cup CompleteOps \cup NotifyOps \cup {None}]
    <2>1. op'[w] \in PartOps \cup CompleteOps \cup {None}
      BY <1>10
    <2>2. DOMAIN op' = Workers /\ op' = [v \in Workers |-> op'[v]]
      BY DEF TypeInv, NextUploadOperation, Return
    <2> QED BY <1>5, <2>1, <2>2 DEF TypeInv
  <1>14. TypeInv'
    <2>1. pc' \in [Workers -> Labels] /\ chunk' \in [Workers -> Chunks \cup {None}]
          /\ session' \in [Workers -> 1..sessions \cup {None}]
      BY DEF TypeInv, NextUploadOperation, Return, Labels, Drivers
    <2>2. \A r \in 1..sessions : transfer'[r] \in States
      BY <1>11, SessionRange DEF TypeInv
    <2> QED BY <1>1, <1>11, <1>13, <2>1, <2>2 DEF TypeInv
  <1>15. CallInv'
    <2>1. Built' <=> Built BY <1>1 DEF Built
    <2> QED BY <1>1, <1>2, <1>3, <1>5, <1>10, <2>1 DEF CallInv
  <1>16. OpenInv'
    <2>1. \A r \in Sessions : transfer'[r].init = transfer[r].init
      BY <1>4, <1>10, <1>11 DEF SameChunks
    <2>2. \A v \in Workers : /\ pc'[v] = "new" <=> pc[v] = "new"
                             /\ pc[v] = "new" => session'[v] = session[v] /\ session[v] \in Sessions
      BY <1>2, <1>5, <1>10, SessionRange DEF CallInv
    <2>3. t.init = "done"
      BY <1>2, <1>3, <1>4 DEF OpenInv
    <2>4. \A v \in Workers : pc'[v] \notin {"idle", "new", "join"} =>
             transfer'[session'[v]].init = "done"
      <3> SUFFICES ASSUME NEW v \in Workers, pc'[v] \notin {"idle", "new", "join"}
                   PROVE  transfer'[session'[v]].init = "done"
        OBVIOUS
      <3>1. CASE v = w
        BY <1>3, <1>4, <1>10, <2>1, <2>3, <3>1
      <3>2. CASE v # w
        <4>1. session[v] \in Sessions /\ transfer[session[v]].init = "done"
          BY <1>5, <3>2, SessionRange DEF OpenInv, CallInv
        <4> QED BY <1>5, <2>1, <3>2, <4>1
      <3> QED BY <3>1, <3>2
    <2>5. \A v \in Workers : pc[v] = "abort" => pc'[v] = "abort" /\ session'[v] = session[v]
      BY <1>2, <1>5
    <2>6. \A r \in Sessions : upload[r] = "open" =>
            \/ states = r \/ "abort" \in failed[r]
            \/ \E v \in Workers : session'[v] = r /\ pc'[v] = "abort"
      BY <2>5 DEF OpenInv
    <2> QED BY <1>1, <2>1, <2>2, <2>4, <2>6 DEF OpenInv
  <1>17. DriveInv'
    <2>1. /\ pc[w] \in Drivers /\ (pc'[w] \in Drivers <=> pc'[w] # "idle")
          /\ (pc'[w] \in Drivers => session'[w] = s /\ x.uploading)
          /\ (pc'[w] \notin Drivers => ~x.uploading /\ ~hasUploadWork(x))
      BY <1>2, <1>10 DEF Drivers
    <2>2. \A v, y \in Workers :
             pc'[v] \in Drivers /\ pc'[y] \in Drivers /\ session'[v] = session'[y] => v = y
      BY <1>3, <1>5, <1>6, <2>1 DEF DriveInv
    <2>3. \A r \in 1..sessions : r # s => transfer'[r] = transfer[r]
      BY <1>11, SessionRange
    <2>4. ASSUME NEW r \in 1..sessions, r # s
          PROVE  (\E v \in Workers : session'[v] = r /\ pc'[v] \in Drivers)
                 <=> (\E v \in Workers : session[v] = r /\ pc[v] \in Drivers)
      BY <1>3, <1>5, <2>1, <2>4
    <2>5. x.uploading <=> \E v \in Workers : session'[v] = s /\ pc'[v] \in Drivers
      BY <1>5, <1>6, <2>1
    <2> QED BY <1>1, <1>11, <2>1, <2>2, <2>3, <2>4, <2>5 DEF DriveInv
  <1>18. PrefixInv'
    <2>1. \A r \in 1..sessions : r # s => transfer'[r] = transfer[r] /\ (Taken(r) => Taken(r)')
      BY <1>3, <1>5, <1>11, SessionRange DEF Taken
    <2>2. Taken(s)' \/ x.pendingPartBuffer = Bytes(uploadedEnd(x), x.nextOffset)
      BY <1>8, <1>10, <1>12 DEF Taken, SameChunks
    <2> QED BY <1>1, <1>11, <1>12, <2>1, <2>2 DEF PrefixInv
  <1>19. PutInv'
    <2>1. \A v \in Workers : v # w /\ pc'[v] = "put" =>
             /\ pc[v] = "put" /\ session'[v] = session[v] /\ op'[v] = op[v]
             /\ session[v] \in Sessions /\ session[v] # s
      BY <1>5, <1>6, SessionRange DEF CallInv, Drivers
    <2> QED BY <1>10, <1>11, <2>1 DEF PutInv
  <1>20. CompleteInv'
    <2>1. \A v \in Workers : v # w /\ pc'[v] = "complete" =>
             /\ pc[v] = "complete" /\ session'[v] = session[v] /\ op'[v] = op[v]
             /\ session[v] \in Sessions /\ session[v] # s
      BY <1>5, <1>6, SessionRange DEF CallInv, Drivers
    <2> QED BY <1>10, <1>11, <2>1 DEF CompleteInv
  <1>21. ObjectIntact' BY <1>1 DEF ObjectIntact
  <1>22. NoteInv'
    <2>1. \A v \in Workers : /\ pc'[v] = "delete" <=> pc[v] = "delete"
                             /\ pc'[v] = "notify" <=> pc[v] = "notify"
                             /\ pc[v] \in {"delete", "notify"} =>
                                  session'[v] = session[v] /\ op'[v] = op[v]
      BY <1>2, <1>5, <1>10
    <2> QED BY <1>1, <2>1 DEF NoteInv
  <1> QED BY <1>14, <1>15, <1>16, <1>17, <1>18, <1>19, <1>20, <1>21, <1>22 DEF OssInv, ByteInv

LEMMA PutObjectPartStep ==
  ASSUME OssInv, NEW w \in Workers, PutObjectPart(w)
  PROVE  OssInv'
  <1> USE DEF OssInv, ByteInv
  <1>1. UNCHANGED <<states, sessions, upload, object, notified, notifiers, closed>>
    BY DEF PutObjectPart, life
  <1>2. pc[w] = "put"
    BY DEF PutObjectPart
  <1>3. PICK s \in 1..sessions : s = session[w] /\ s \in Sessions /\ chunk[w] \in Chunks
    BY <1>2, SessionRange DEF CallInv
  <1>4. PICK t \in States : t = transfer[s]
    BY DEF TypeInv
  <1>5. \A v \in Workers : v # w =>
          pc'[v] = pc[v] /\ chunk'[v] = chunk[v] /\ session'[v] = session[v] /\ op'[v] = op[v]
    BY DEF TypeInv, PutObjectPart, AfterPart, Return
  <1>6. /\ t.uploading /\ t.uploading \in BOOLEAN
        /\ \A v \in Workers : session[v] = s /\ v # w => pc[v] \notin Drivers
    BY <1>2, <1>3, <1>4 DEF DriveInv, Drivers, States
  <1>7. PICK o \in PartOps : o = op[w] /\ InHand(t, o)
    BY <1>2, <1>3, <1>4 DEF CallInv, PutInv
  <1>8. PICK q \in PutParts : q = stored[s] /\ Prefix(t, q)
    BY <1>3, <1>4 DEF TypeInv, PrefixInv
  <1>9. PICK kept : kept = [n \in DOMAIN q \cup {o.partNumber} |->
                              IF n = o.partNumber THEN o.payload ELSE q[n]]
    OBVIOUS
  <1>10. /\ kept \in PutParts /\ o.partNumber \in DOMAIN kept
         /\ kept[o.partNumber] = o.payload
         /\ \A i \in DOMAIN q : i # o.partNumber => i \in DOMAIN kept /\ kept[i] = q[i]
    <2>1. DOMAIN q \in SUBSET Nat /\ q \in [DOMAIN q -> Seq(Nat)]
      BY PutPartsElim
    <2>2. o.partNumber \in Nat /\ o.payload \in Seq(Nat)
      BY DEF PartOps
    <2>3. DOMAIN q \cup {o.partNumber} \in SUBSET Nat
          /\ kept \in [DOMAIN q \cup {o.partNumber} -> Seq(Nat)]
      BY <1>9, <2>1, <2>2
    <2>4. kept \in PutParts
      BY <2>3, PutPartsIntro
    <2> QED BY <1>9, <2>4
  <1>11. Prefix(t, kept)
    <2>1. o.partNumber = Len(t.uploadedParts) + 1 /\ Len(t.uploadedParts) \in Nat
      BY <1>7, <1>8 DEF InHand, Prefix, States
    <2>2. \A i \in 1..Len(t.uploadedParts) : i \in DOMAIN q /\ i # o.partNumber
      BY <1>8, <2>1 DEF Prefix, PartInv
    <2>3. \A i \in 1..Len(t.uploadedParts) : i \in DOMAIN kept /\ kept[i] = q[i]
      BY <1>10, <2>2
    <2>4. PartInv(kept, t.uploadedParts)
      BY <1>8, <2>3 DEF Prefix, PartInv
    <2> QED BY <1>8, <2>4 DEF Prefix
  <1>12. PICK x \in States, puts \in PutParts :
           /\ transfer' = [transfer EXCEPT ![s] = x]
           /\ stored' = [stored EXCEPT ![s] = puts]
           /\ SameChunks(x, t) /\ Prefix(x, puts)
           /\ x.pendingPartBuffer = Bytes(uploadedEnd(x), x.nextOffset)
           /\ op'[w] = None
           /\ \/ /\ failed' = failed /\ x.uploading /\ pc'[w] = "next" /\ session'[w] = s
                 /\ chunk'[w] = chunk[w]
              \/ /\ failed' = [failed EXCEPT ![s] = @ \cup {"put"}] /\ ~x.uploading
                 /\ pc'[w] = "idle" /\ session'[w] = None
    <2>1. CASE stored' = [stored EXCEPT ![s] = kept] /\ AfterPart(w, s) /\ UNCHANGED failed
      <3>1. PICK x : x = Uploaded(t, o)
        OBVIOUS
      <3>2. /\ x \in States /\ SameChunks(x, t) /\ x.uploading = t.uploading
            /\ x.pendingPartBuffer = t.pendingPartBuffer /\ Prefix(x, kept)
            /\ uploadedEnd(x) = o.partStart + Len(o.payload)
        BY <1>7, <1>8, <1>10, <3>1, UploadedParts
      <3>3. x.pendingPartBuffer = Bytes(uploadedEnd(x), x.nextOffset)
        BY <1>7, <3>2 DEF InHand, SameChunks
      <3>4. transfer' = [transfer EXCEPT ![s] = x]
        BY <1>4, <1>7, <2>1, <3>1 DEF AfterPart, Set
      <3>5. op'[w] = None /\ pc'[w] = "next" /\ session'[w] = s /\ chunk'[w] = chunk[w]
        BY <1>3, <2>1 DEF AfterPart, TypeInv
      <3> QED BY <1>6, <1>10, <2>1, <3>2, <3>3, <3>4, <3>5
    <2>2. ASSUME NEW now \in {q, kept}, stored' = [stored EXCEPT ![s] = now],
                 Set(s, PutBack(t, o)), Fail(s, "put"), Return(w)
          PROVE  \E x \in States, puts \in PutParts :
                   /\ transfer' = [transfer EXCEPT ![s] = x]
                   /\ stored' = [stored EXCEPT ![s] = puts]
                   /\ SameChunks(x, t) /\ Prefix(x, puts)
                   /\ x.pendingPartBuffer = Bytes(uploadedEnd(x), x.nextOffset)
                   /\ op'[w] = None
                   /\ failed' = [failed EXCEPT ![s] = @ \cup {"put"}] /\ ~x.uploading
                   /\ pc'[w] = "idle" /\ session'[w] = None
      <3>1. now \in PutParts /\ Prefix(t, now)
        BY <1>8, <1>10, <1>11, <2>2
      <3>2. PICK a \in Nat : a = o.partStart
        BY DEF PartOps
      <3>3. PICK e \in Nat : e = a + Len(o.payload)
        BY <3>2 DEF PartOps
      <3>4. PICK no \in Nat : no = t.nextOffset
        BY DEF States
      <3>5. /\ a <= e /\ e <= no /\ o.payload = Bytes(a, e)
            /\ t.pendingPartBuffer = Bytes(e, no) /\ uploadedEnd(t) = a
        BY <1>7, <3>2, <3>3, <3>4 DEF InHand
      <3>6. PICK z : z = Bytes(a, no)
        OBVIOUS
      <3>7. o.payload \o t.pendingPartBuffer = z /\ z \in Seq(Nat)
        <4>1. Bytes(a, e) \o Bytes(e, no) = Bytes(a, no)
          BY <3>5, BytesJoin, Zenon
        <4>2. a <= no
          BY <3>5
        <4>3. Bytes(a, no) \in Seq(Nat)
          BY <4>2, BytesType
        <4> QED BY <3>5, <3>6, <4>1, <4>3, Zenon
      <3>8. PICK x \in States : x = PutBack(t, o)
        <4>1. PutBack(t, o) = [t EXCEPT !.pendingPartBuffer = z, !.uploading = FALSE]
          BY <3>7 DEF PutBack
        <4> QED BY <3>7, <4>1 DEF States
      <3>9. /\ SameChunks(x, t) /\ x.uploadedParts = t.uploadedParts /\ ~x.uploading
            /\ x.nextPartNumber = t.nextPartNumber /\ x.pendingPartBuffer = z
        <4>1. x = [t EXCEPT !.pendingPartBuffer = z, !.uploading = FALSE]
          BY <3>7, <3>8 DEF PutBack
        <4> QED BY <4>1 DEF States, SameChunks
      <3>10. Prefix(x, now) /\ uploadedEnd(x) = a
        BY <3>1, <3>5, <3>9, PrefixSame DEF SameChunks
      <3>11. x.pendingPartBuffer = Bytes(uploadedEnd(x), x.nextOffset)
        BY <3>4, <3>6, <3>9, <3>10 DEF SameChunks
      <3>12. op'[w] = None /\ pc'[w] = "idle" /\ session'[w] = None
        BY <2>2 DEF Return, TypeInv
      <3>13. transfer' = [transfer EXCEPT ![s] = x]
        BY <2>2, <3>8 DEF Set
      <3>14. failed' = [failed EXCEPT ![s] = @ \cup {"put"}]
        BY <2>2 DEF Fail
      <3> QED BY <2>2, <3>1, <3>9, <3>10, <3>11, <3>12, <3>13, <3>14
    <2>3. CASE /\ \E now \in {q, kept} : stored' = [stored EXCEPT ![s] = now]
               /\ Set(s, PutBack(t, o)) /\ Fail(s, "put") /\ Return(w)
      BY <2>2, <2>3
    <2>4. CASE /\ UNCHANGED stored
               /\ Set(s, PutBack(t, o)) /\ Fail(s, "put") /\ Return(w)
      <3>1. stored' = [stored EXCEPT ![s] = q]
        BY <1>3, <1>8, <2>4 DEF TypeInv
      <3> QED BY <2>2, <2>4, <3>1
    <2> QED BY <1>3, <1>4, <1>7, <1>8, <1>9, <2>1, <2>3, <2>4 DEF PutObjectPart
  <1>13. /\ transfer'[s] = x /\ \A r \in Sessions : r # s => transfer'[r] = transfer[r]
         /\ transfer' \in [Sessions -> States \cup {None}]
         /\ stored'[s] = puts /\ \A r \in Sessions : r # s => stored'[r] = stored[r]
         /\ stored' \in [Sessions -> PutParts]
    BY <1>3, <1>12 DEF TypeInv
  <1>14. /\ \A r \in Sessions : failed[r] \subseteq failed'[r]
         /\ failed' \in [Sessions -> SUBSET {"new", "put", "complete", "limit", "abort"}]
         /\ pc'[w] = "idle" => "put" \in failed'[s]
    <2>1. PICK f : f = failed[s] \cup {"put"}
      OBVIOUS
    <2>2. f \in SUBSET {"new", "put", "complete", "limit", "abort"}
      BY <1>3, <2>1 DEF TypeInv
    <2>3. CASE failed' = failed /\ pc'[w] = "next"
      BY <2>3 DEF TypeInv
    <2>4. CASE failed' = [failed EXCEPT ![s] = f]
      <3>1. failed'[s] = f /\ \A r \in Sessions : r # s => failed'[r] = failed[r]
        BY <1>3, <2>4 DEF TypeInv
      <3>2. failed' \in [Sessions -> SUBSET {"new", "put", "complete", "limit", "abort"}]
        BY <2>2, <2>4 DEF TypeInv
      <3> QED BY <2>1, <3>1, <3>2
    <2>5. [failed EXCEPT ![s] = @ \cup {"put"}] = [failed EXCEPT ![s] = f]
      BY <2>1
    <2> QED BY <1>12, <2>3, <2>4, <2>5
  <1>15. TypeInv'
    <2>1. pc' \in [Workers -> Labels] /\ chunk' \in [Workers -> Chunks \cup {None}]
          /\ session' \in [Workers -> 1..sessions \cup {None}]
          /\ op' \in [Workers -> PartOps \cup CompleteOps \cup NotifyOps \cup {None}]
      BY DEF TypeInv, PutObjectPart, AfterPart, Return, Labels, Drivers
    <2>2. \A r \in 1..sessions : transfer'[r] \in States
      BY <1>13, SessionRange DEF TypeInv
    <2> QED BY <1>1, <1>13, <1>14, <2>1, <2>2 DEF TypeInv
  <1>16. CallInv'
    <2>1. Built' <=> Built BY <1>1 DEF Built
    <2> QED BY <1>1, <1>2, <1>3, <1>5, <1>12, <2>1 DEF CallInv
  <1>17. OpenInv'
    <2>1. \A r \in Sessions : transfer'[r].init = transfer[r].init
      BY <1>4, <1>12, <1>13 DEF SameChunks
    <2>2. \A v \in Workers : /\ pc'[v] = "new" <=> pc[v] = "new"
                             /\ pc[v] = "new" => session'[v] = session[v] /\ session[v] \in Sessions
      BY <1>2, <1>5, <1>12, SessionRange DEF CallInv
    <2>3. t.init = "done"
      BY <1>2, <1>3, <1>4 DEF OpenInv
    <2>4. \A v \in Workers : pc'[v] \notin {"idle", "new", "join"} =>
             transfer'[session'[v]].init = "done"
      <3> SUFFICES ASSUME NEW v \in Workers, pc'[v] \notin {"idle", "new", "join"}
                   PROVE  transfer'[session'[v]].init = "done"
        OBVIOUS
      <3>1. CASE v = w
        BY <1>3, <1>4, <1>12, <2>1, <2>3, <3>1
      <3>2. CASE v # w
        <4>1. session[v] \in Sessions /\ transfer[session[v]].init = "done"
          BY <1>5, <3>2, SessionRange DEF OpenInv, CallInv
        <4> QED BY <1>5, <2>1, <3>2, <4>1
      <3> QED BY <3>1, <3>2
    <2>5. \A v \in Workers : pc[v] = "abort" => pc'[v] = "abort" /\ session'[v] = session[v]
      BY <1>2, <1>5
    <2>6. \A r \in Sessions : upload[r] = "open" =>
            \/ states = r \/ "abort" \in failed'[r]
            \/ \E v \in Workers : session'[v] = r /\ pc'[v] = "abort"
      BY <1>14, <2>5 DEF OpenInv
    <2> QED BY <1>1, <2>1, <2>2, <2>4, <2>6 DEF OpenInv
  <1>18. DriveInv'
    <2>1. /\ pc[w] \in Drivers /\ (pc'[w] \in Drivers <=> pc'[w] # "idle")
          /\ (pc'[w] \in Drivers => session'[w] = s /\ x.uploading)
          /\ (pc'[w] \notin Drivers => ~x.uploading /\ failed'[s] # {})
      BY <1>2, <1>12, <1>14 DEF Drivers
    <2>2. \A v, y \in Workers :
             pc'[v] \in Drivers /\ pc'[y] \in Drivers /\ session'[v] = session'[y] => v = y
      BY <1>3, <1>5, <1>6, <2>1 DEF DriveInv
    <2>3. \A r \in 1..sessions : r # s => transfer'[r] = transfer[r]
                                          /\ (failed[r] # {} => failed'[r] # {})
      BY <1>13, <1>14, SessionRange
    <2>4. ASSUME NEW r \in 1..sessions, r # s
          PROVE  (\E v \in Workers : session'[v] = r /\ pc'[v] \in Drivers)
                 <=> (\E v \in Workers : session[v] = r /\ pc[v] \in Drivers)
      BY <1>3, <1>5, <2>1, <2>4
    <2>5. x.uploading <=> \E v \in Workers : session'[v] = s /\ pc'[v] \in Drivers
      BY <1>5, <1>6, <2>1
    <2> QED BY <1>1, <1>13, <2>1, <2>2, <2>3, <2>4, <2>5 DEF DriveInv
  <1>19. PrefixInv'
    <2>1. \A r \in 1..sessions : r # s => /\ transfer'[r] = transfer[r] /\ stored'[r] = stored[r]
                                          /\ Taken(r) => Taken(r)'
      BY <1>3, <1>5, <1>13, SessionRange DEF Taken
    <2> QED BY <1>1, <1>12, <1>13, <2>1 DEF PrefixInv
  <1>20. PutInv'
    <2>1. \A v \in Workers : v # w /\ pc'[v] = "put" =>
             /\ pc[v] = "put" /\ session'[v] = session[v] /\ op'[v] = op[v]
             /\ session[v] \in Sessions /\ session[v] # s
      BY <1>5, <1>6, SessionRange DEF CallInv, Drivers
    <2> QED BY <1>12, <1>13, <2>1 DEF PutInv
  <1>21. CompleteInv'
    <2>1. \A v \in Workers : v # w /\ pc'[v] = "complete" =>
             /\ pc[v] = "complete" /\ session'[v] = session[v] /\ op'[v] = op[v]
             /\ session[v] \in Sessions /\ session[v] # s
      BY <1>5, <1>6, SessionRange DEF CallInv, Drivers
    <2> QED BY <1>12, <1>13, <2>1 DEF CompleteInv
  <1>22. ObjectIntact' BY <1>1 DEF ObjectIntact
  <1>23. NoteInv'
    <2>1. \A v \in Workers : /\ pc'[v] = "delete" <=> pc[v] = "delete"
                             /\ pc'[v] = "notify" <=> pc[v] = "notify"
                             /\ pc[v] \in {"delete", "notify"} =>
                                  session'[v] = session[v] /\ op'[v] = op[v]
      BY <1>2, <1>5, <1>12
    <2>2. \A r \in Sessions : "complete" \notin failed'[r] => "complete" \notin failed[r]
      BY <1>14
    <2> QED BY <1>1, <2>1, <2>2 DEF NoteInv
  <1> QED BY <1>15, <1>16, <1>17, <1>18, <1>19, <1>20, <1>21, <1>22, <1>23 DEF OssInv, ByteInv

LEMMA CompleteMultipartUploadStep ==
  ASSUME OssInv, NEW w \in Workers, CompleteMultipartUpload(w)
  PROVE  OssInv'
  <1> USE DEF OssInv, ByteInv
  <1>1. UNCHANGED <<states, sessions, stored, notified, notifiers, closed>>
    BY DEF CompleteMultipartUpload, life
  <1>2. pc[w] = "complete"
    BY DEF CompleteMultipartUpload
  <1>3. PICK s \in 1..sessions : s = session[w] /\ s \in Sessions /\ chunk[w] \in Chunks
    BY <1>2, SessionRange DEF CallInv
  <1>4. PICK t \in States : t = transfer[s]
    BY DEF TypeInv
  <1>5. \A v \in Workers : v # w =>
          pc'[v] = pc[v] /\ chunk'[v] = chunk[v] /\ session'[v] = session[v] /\ op'[v] = op[v]
    BY DEF TypeInv, CompleteMultipartUpload, CompletionFailed, Return
  <1>6. \A v \in Workers : session[v] = s /\ v # w => pc[v] \notin Drivers
    BY <1>2, <1>3 DEF DriveInv, Drivers
  <1>7. PICK o \in CompleteOps : o = op[w] /\ AllParts(t, o)
    BY <1>2, <1>3, <1>4 DEF CallInv, CompleteInv
  <1>8. PICK q : q = stored[s] /\ Prefix(t, q)
    BY <1>3, <1>4 DEF PrefixInv
  <1>9. PICK pieces : pieces = [i \in DOMAIN o.parts |-> q[o.parts[i]]]
    OBVIOUS
  <1>10. pieces \in Seq(Seq(Nat)) /\ Whole(pieces)
    <2>1. DOMAIN o.parts = 1..Len(t.uploadedParts)
          /\ \A i \in 1..Len(t.uploadedParts) : o.parts[i] = i
      BY <1>7 DEF AllParts
    <2>2. pieces = [i \in 1..Len(t.uploadedParts) |-> q[i]]
      BY <1>9, <2>1
    <2>3. FileSize > 0
      BY <1>3 DEF CallInv, TypeInv
    <2> QED BY <1>7, <1>8, <2>2, <2>3, PartsMakeTheFile DEF AllParts
  <1>11. PICK x \in States : /\ transfer' = [transfer EXCEPT ![s] = x]
                             /\ SameBytes(x, t) /\ ~x.uploading
    <2>1. PICK x \in States : x = [t EXCEPT !.uploading = FALSE]
      BY DEF States
    <2>2. transfer' = [transfer EXCEPT ![s] = x]
      BY <1>3, <1>4, <2>1 DEF CompleteMultipartUpload, Set
    <2>3. ~x.uploading /\ SameBytes(x, t)
      BY <2>1 DEF States, SameBytes
    <2> QED BY <2>2, <2>3
  <1>12. /\ transfer'[s] = x /\ \A r \in Sessions : r # s => transfer'[r] = transfer[r]
         /\ transfer' \in [Sessions -> States \cup {None}]
    BY <1>3, <1>11 DEF TypeInv
  <1>13. \/ upload' = upload /\ object' = object
         \/ /\ upload[s] = "open" /\ upload' = [upload EXCEPT ![s] = "completed"]
            /\ object' = [object EXCEPT ![s] = pieces]
    BY <1>3, <1>7, <1>8, <1>9 DEF CompleteMultipartUpload
  <1>14. /\ upload' \in [Sessions -> {"none", "open", "completed", "aborted"}]
         /\ object' \in [Sessions -> Seq(Seq(Nat))]
         /\ \A r \in Sessions : /\ upload[r] = "completed" => upload'[r] = "completed"
                                /\ upload'[r] # "none" => upload[r] # "none"
                                /\ upload'[r] = "open" => upload[r] = "open"
                                /\ r # s => upload'[r] = upload[r]
    <2>1. CASE upload' = upload /\ object' = object
      BY <2>1 DEF TypeInv
    <2>2. CASE /\ upload[s] = "open" /\ upload' = [upload EXCEPT ![s] = "completed"]
               /\ object' = [object EXCEPT ![s] = pieces]
      <3>1. upload'[s] = "completed" /\ \A r \in Sessions : r # s => upload'[r] = upload[r]
        BY <1>3, <2>2 DEF TypeInv
      <3>2. upload' \in [Sessions -> {"none", "open", "completed", "aborted"}]
            /\ object' \in [Sessions -> Seq(Seq(Nat))]
        BY <1>3, <1>10, <2>2 DEF TypeInv
      <3> QED BY <2>2, <3>1, <3>2
    <2> QED BY <1>13, <2>1, <2>2
  <1>15. \/ /\ pc'[w] = "delete" /\ session'[w] = s /\ chunk'[w] = chunk[w] /\ op'[w] = None
            /\ failed' = failed /\ upload[s] = "open" /\ upload'[s] = "completed"
         \/ /\ pc'[w] = "idle" /\ session'[w] = None /\ op'[w] = None
            /\ failed' = [failed EXCEPT ![s] = @ \cup {"complete"}]
    <2>1. CASE CompletionFailed(w, s)
      BY <2>1 DEF CompletionFailed, Fail, Return, TypeInv
    <2>2. CASE /\ upload[s] = "open" /\ upload' = [upload EXCEPT ![s] = "completed"]
               /\ pc' = [pc EXCEPT ![w] = "delete"]
               /\ op' = [op EXCEPT ![w] = None]
               /\ UNCHANGED <<failed, chunk, session>>
      BY <1>3, <2>2 DEF TypeInv
    <2> QED BY <1>3, <2>1, <2>2 DEF CompleteMultipartUpload
  <1>16. /\ \A r \in Sessions : failed[r] \subseteq failed'[r]
         /\ \A r \in Sessions : r # s => failed'[r] = failed[r]
         /\ failed' \in [Sessions -> SUBSET {"new", "put", "complete", "limit", "abort"}]
         /\ pc'[w] = "idle" => "complete" \in failed'[s]
    <2>1. PICK f : f = failed[s] \cup {"complete"}
      OBVIOUS
    <2>2. f \in SUBSET {"new", "put", "complete", "limit", "abort"}
      BY <1>3, <2>1 DEF TypeInv
    <2>3. CASE failed' = failed /\ pc'[w] = "delete"
      BY <2>3 DEF TypeInv
    <2>4. CASE failed' = [failed EXCEPT ![s] = f]
      <3>1. failed'[s] = f /\ \A r \in Sessions : r # s => failed'[r] = failed[r]
        BY <1>3, <2>4 DEF TypeInv
      <3>2. failed' \in [Sessions -> SUBSET {"new", "put", "complete", "limit", "abort"}]
        BY <2>2, <2>4 DEF TypeInv
      <3> QED BY <2>1, <3>1, <3>2
    <2>5. [failed EXCEPT ![s] = @ \cup {"complete"}] = [failed EXCEPT ![s] = f]
      BY <2>1
    <2> QED BY <1>15, <2>3, <2>4, <2>5
  <1>17. TypeInv'
    <2>1. pc' \in [Workers -> Labels] /\ chunk' \in [Workers -> Chunks \cup {None}]
          /\ session' \in [Workers -> 1..sessions \cup {None}]
          /\ op' \in [Workers -> PartOps \cup CompleteOps \cup NotifyOps \cup {None}]
      BY DEF TypeInv, CompleteMultipartUpload, CompletionFailed, Return, Labels
    <2>2. \A r \in 1..sessions : transfer'[r] \in States
      BY <1>12, SessionRange DEF TypeInv
    <2> QED BY <1>1, <1>12, <1>14, <1>16, <2>1, <2>2 DEF TypeInv
  <1>18. CallInv'
    <2>1. Built' <=> Built BY <1>1 DEF Built
    <2> QED BY <1>1, <1>2, <1>3, <1>5, <1>15, <2>1 DEF CallInv
  <1>19. OpenInv'
    <2>1. \A r \in Sessions : transfer'[r].init = transfer[r].init
      BY <1>4, <1>11, <1>12 DEF SameBytes
    <2>2. \A v \in Workers : /\ pc'[v] = "new" <=> pc[v] = "new"
                             /\ pc[v] = "new" => session'[v] = session[v] /\ session[v] \in Sessions
      BY <1>2, <1>5, <1>15, SessionRange DEF CallInv
    <2>3. t.init = "done"
      BY <1>2, <1>3, <1>4 DEF OpenInv
    <2>4. \A v \in Workers : pc'[v] \notin {"idle", "new", "join"} =>
             transfer'[session'[v]].init = "done"
      <3> SUFFICES ASSUME NEW v \in Workers, pc'[v] \notin {"idle", "new", "join"}
                   PROVE  transfer'[session'[v]].init = "done"
        OBVIOUS
      <3>1. CASE v = w
        BY <1>3, <1>4, <1>15, <2>1, <2>3, <3>1
      <3>2. CASE v # w
        <4>1. session[v] \in Sessions /\ transfer[session[v]].init = "done"
          BY <1>5, <3>2, SessionRange DEF OpenInv, CallInv
        <4> QED BY <1>5, <2>1, <3>2, <4>1
      <3> QED BY <3>1, <3>2
    <2>5. \A v \in Workers : pc[v] = "abort" => pc'[v] = "abort" /\ session'[v] = session[v]
      BY <1>2, <1>5
    <2>6. \A r \in Sessions : upload'[r] = "open" =>
            \/ states = r \/ "abort" \in failed'[r]
            \/ \E v \in Workers : session'[v] = r /\ pc'[v] = "abort"
      BY <1>14, <1>16, <2>5 DEF OpenInv
    <2>7. \A r \in Sessions : upload'[r] # "none" => r <= sessions /\ transfer[r].init = "done"
      BY <1>14 DEF OpenInv
    <2> QED BY <1>1, <2>1, <2>2, <2>4, <2>6, <2>7 DEF OpenInv
  <1>20. DriveInv'
    <2>1. /\ pc[w] \in Drivers /\ pc'[w] \notin Drivers
          /\ upload'[s] = "completed" \/ failed'[s] # {}
      BY <1>2, <1>15, <1>16 DEF Drivers
    <2>2. \A v, y \in Workers :
             pc'[v] \in Drivers /\ pc'[y] \in Drivers /\ session'[v] = session'[y] => v = y
      BY <1>5, <2>1 DEF DriveInv
    <2>3. \A r \in 1..sessions : r # s => /\ transfer'[r] = transfer[r] /\ failed'[r] = failed[r]
                                          /\ upload'[r] = upload[r]
      BY <1>12, <1>14, <1>16, SessionRange
    <2>4. ASSUME NEW r \in 1..sessions, r # s
          PROVE  (\E v \in Workers : session'[v] = r /\ pc'[v] \in Drivers)
                 <=> (\E v \in Workers : session[v] = r /\ pc[v] \in Drivers)
      BY <1>3, <1>5, <2>1, <2>4
    <2>5. ~\E v \in Workers : session'[v] = s /\ pc'[v] \in Drivers
      BY <1>5, <1>6, <2>1
    <2> QED BY <1>1, <1>11, <1>12, <2>1, <2>2, <2>3, <2>4, <2>5 DEF DriveInv
  <1>21. PrefixInv'
    <2>1. \A r \in 1..sessions : r # s => transfer'[r] = transfer[r] /\ (Taken(r) => Taken(r)')
      BY <1>3, <1>5, <1>12, SessionRange DEF Taken
    <2>2. ~Taken(s)
      BY <1>2, <1>3, <1>6 DEF Taken, Drivers
    <2>3. t.pendingPartBuffer = Bytes(uploadedEnd(t), t.nextOffset)
      BY <1>3, <1>4, <2>2 DEF PrefixInv
    <2>4. Prefix(x, q) /\ uploadedEnd(x) = uploadedEnd(t)
      BY <1>8, <1>11, PrefixSame DEF SameBytes
    <2>5. x.pendingPartBuffer = Bytes(uploadedEnd(x), x.nextOffset)
      BY <1>11, <2>3, <2>4 DEF SameBytes
    <2> QED BY <1>1, <1>8, <1>12, <2>1, <2>4, <2>5 DEF PrefixInv
  <1>22. PutInv'
    <2>1. \A v \in Workers : pc'[v] = "put" =>
             /\ pc[v] = "put" /\ session'[v] = session[v] /\ op'[v] = op[v]
             /\ session[v] \in Sessions /\ session[v] # s
      BY <1>5, <1>6, <1>15, SessionRange DEF CallInv, Drivers
    <2> QED BY <1>12, <2>1 DEF PutInv
  <1>23. CompleteInv'
    <2>1. \A v \in Workers : pc'[v] = "complete" =>
             /\ pc[v] = "complete" /\ session'[v] = session[v] /\ op'[v] = op[v]
             /\ session[v] \in Sessions /\ session[v] # s
      BY <1>5, <1>6, <1>15, SessionRange DEF CallInv, Drivers
    <2> QED BY <1>12, <2>1 DEF CompleteInv
  <1>24. ObjectIntact'
    <2>1. \A r \in Sessions : upload[r] = "completed" => Whole(object[r])
      BY DEF ObjectIntact, Whole
    <2>2. \A r \in Sessions : upload'[r] = "completed" => Whole(object'[r])
      BY <1>3, <1>10, <1>13, <2>1 DEF TypeInv
    <2> QED BY <2>2 DEF ObjectIntact, Whole
  <1>25. NoteInv'
    <2>1. \A v \in Workers : v # w =>
             /\ pc'[v] = "delete" <=> pc[v] = "delete"
             /\ pc'[v] = "notify" <=> pc[v] = "notify"
             /\ session'[v] = session[v] /\ op'[v] = op[v]
      BY <1>5
    <2>2. /\ pc'[w] # "notify"
          /\ pc'[w] = "delete" => /\ session'[w] = s /\ upload[s] = "open"
                                  /\ upload'[s] = "completed"
          /\ pc'[w] # "delete" => "complete" \in failed'[s]
          /\ pc[w] \notin {"delete", "notify"}
      BY <1>2, <1>15, <1>16
    <2>3. upload[s] = "open" =>
             /\ \A n \in Notifiers : notified[s][n] = 0
             /\ \A v \in Workers : session[v] = s => pc[v] \notin {"delete", "notify"}
      BY <1>3 DEF NoteInv
    <2>4. \A v, y \in Workers :
             pc'[v] \in {"delete", "notify"} /\ pc'[y] \in {"delete", "notify"}
               /\ session'[v] = session'[y] => v = y
      BY <2>1, <2>2, <2>3 DEF NoteInv
    <2>5. \A v \in Workers : pc'[v] \in {"delete", "notify"} => upload'[session'[v]] = "completed"
      <3> SUFFICES ASSUME NEW v \in Workers, pc'[v] \in {"delete", "notify"}
                   PROVE  upload'[session'[v]] = "completed"
        OBVIOUS
      <3>1. CASE v = w
        BY <2>2, <3>1
      <3>2. CASE v # w
        <4>1. session[v] \in Sessions /\ upload[session[v]] = "completed"
          BY <2>1, <3>2, SessionRange DEF NoteInv, CallInv
        <4> QED BY <1>14, <2>1, <3>2, <4>1
      <3> QED BY <3>1, <3>2
    <2>6. \A v \in Workers : pc'[v] = "delete" => \A n \in Notifiers : notified[session'[v]][n] = 0
      BY <2>1, <2>2, <2>3 DEF NoteInv
    <2>7. \A v \in Workers : pc'[v] = "notify" =>
             \A n \in Notifiers : notified[session'[v]][n] = IF n < op'[v].at THEN 1 ELSE 0
      BY <2>1, <2>2 DEF NoteInv
    <2>8. \A r \in Sessions : upload'[r] = "completed" /\ "complete" \notin failed'[r] =>
            \/ \E v \in Workers : session'[v] = r /\ pc'[v] \in {"delete", "notify"}
            \/ \A n \in Notifiers : notified[r][n] = 1
      <3> SUFFICES ASSUME NEW r \in Sessions, upload'[r] = "completed", "complete" \notin failed'[r]
                   PROVE  \/ \E v \in Workers : session'[v] = r /\ pc'[v] \in {"delete", "notify"}
                          \/ \A n \in Notifiers : notified[r][n] = 1
        OBVIOUS
      <3>1. CASE r = s
        BY <2>2, <3>1
      <3>2. CASE r # s
        <4>1. upload[r] = "completed" /\ "complete" \notin failed[r]
          BY <1>14, <1>16, <3>2
        <4>2. \/ \E v \in Workers : session[v] = r /\ pc[v] \in {"delete", "notify"}
              \/ \A n \in Notifiers : notified[r][n] = 1
          BY <4>1 DEF NoteInv
        <4> QED BY <2>1, <2>2, <4>2
      <3> QED BY <3>1, <3>2
    <2>9. \A r \in Sessions : \A n \in Notifiers :
             notified[r][n] \in {0, 1} /\ (notified[r][n] = 1 => upload'[r] = "completed")
      BY <1>14 DEF NoteInv
    <2> QED BY <1>1, <2>4, <2>5, <2>6, <2>7, <2>8, <2>9 DEF NoteInv
  <1> QED BY <1>17, <1>18, <1>19, <1>20, <1>21, <1>22, <1>23, <1>24, <1>25 DEF OssInv, ByteInv

-----------------------------------------------------------------------------
(* The theorems.                                                           *)

LEMMA OssNext == OssInv /\ [Next]_vars => OssInv'
  <1> SUFFICES ASSUME OssInv, [Next]_vars PROVE OssInv'
    OBVIOUS
  <1>1. CASE UNCHANGED vars
    <2>1. UNCHANGED <<states, sessions, transfer, pc, chunk, session, op, upload, stored,
                      object, failed, notified, notifiers, closed>>
      BY <1>1 DEF vars, worker, store, history, life
    <2>2. TypeInv' BY <2>1 DEF OssInv, TypeInv
    <2>3. CallInv' BY <2>1 DEF OssInv, CallInv, Built
    <2>4. OpenInv' BY <2>1 DEF OssInv, OpenInv
    <2>5. DriveInv' BY <2>1 DEF OssInv, DriveInv
    <2>6. ByteInv' BY <2>1 DEF OssInv, ByteInv, PrefixInv, Taken, PutInv, CompleteInv
    <2>7. ObjectIntact' BY <2>1 DEF OssInv, ObjectIntact
    <2>8. NoteInv' BY <2>1 DEF OssInv, NoteInv
    <2> QED BY <2>2, <2>3, <2>4, <2>5, <2>6, <2>7, <2>8 DEF OssInv
  <1>2. ASSUME NEW w \in Workers, Step(w) PROVE OssInv'
    BY <1>2, NewMultipartUploadStep, AwaitInitStep, AcceptPacketStep, NextUploadOperationStep,
       PutObjectPartStep, CompleteMultipartUploadStep, DeleteStateStep, NotifyFileReadyStep,
       NotifiedStep, FailTransferStep, AbortTransferStep DEF Step
  <1>3. ASSUME NEW w \in Workers, NEW c \in Chunks, Join(w, c) \/ Create(w, c) PROVE OssInv'
    BY <1>3, JoinStep, CreateStep
  <1>4. CASE Close \/ \E n \in Notifiers : BuildNotifier(n)
    BY <1>4, CloseStep, BuildNotifierStep
  <1> QED BY <1>1, <1>2, <1>3, <1>4 DEF Next

(***************************************************************************)
(* The invariant of oss.go: who may hold which session, which goroutine    *)
(* drives its upload, and where each byte of the prefix is.                *)
(***************************************************************************)
THEOREM OssInvariant == Spec => []OssInv
  BY OssInit, OssNext, PTL DEF Spec

(***************************************************************************)
(* CompleteMultipartUpload never commits an object with a gap, a repeated  *)
(* or a misplaced byte, whatever chunks came in whatever order, how often  *)
(* each was sent, and whatever calls of the store failed or lost their     *)
(* answer.                                                                 *)
(***************************************************************************)
THEOREM ObjectIsIntact == Spec => []ObjectIntact
  <1>1. OssInv => ObjectIntact BY DEF OssInv
  <1> QED BY <1>1, OssInvariant, PTL

(***************************************************************************)
(* uploading is a lock: one goroutine at most is in driveOSSUpload for a   *)
(* session, and work that nobody drives has a failed call as its reason.   *)
(***************************************************************************)
THEOREM UploadIsDriven == Spec => []UploadDriven
  <1>1. ASSUME OssInv PROVE UploadDriven
    <2> SUFFICES ASSUME NEW s \in Sessions, Ready(s)
                 PROVE  /\ Cardinality(At(s, Drivers)) <= 1
                        /\ transfer[s].uploading <=> At(s, Drivers) # {}
                        /\ hasUploadWork(transfer[s]) /\ ~transfer[s].uploading =>
                             upload[s] = "completed" \/ failed[s] # {}
      BY DEF UploadDriven, Drivers
    <2>1. s \in 1..sessions /\ DriveInv
      BY <1>1, SizesAssumption DEF Ready, OssInv, TypeInv, Sessions
    <2>2. Cardinality(At(s, Drivers)) <= 1
      <3>1. CASE At(s, Drivers) = {}
        BY <3>1, FS_EmptySet
      <3>2. CASE At(s, Drivers) # {}
        <4>1. PICK w \in Workers : session[w] = s /\ pc[w] \in Drivers
          BY <3>2 DEF At
        <4>2. At(s, Drivers) = {w}
          BY <2>1, <4>1 DEF At, DriveInv
        <4> QED BY <4>2, FS_Singleton
      <3> QED BY <3>1, <3>2
    <2> QED BY <2>1, <2>2 DEF DriveInv, At
  <1> QED BY <1>1, OssInvariant, PTL

(***************************************************************************)
(* Close leaves no unfinished upload in the store, unless its abort failed,*)
(* and no notifier open.                                                   *)
(***************************************************************************)
THEOREM NothingLeaks == Spec => []NoLeakedUpload
  <1>1. ASSUME OssInv PROVE NoLeakedUpload
    <2>1. TypeInv /\ CallInv /\ OpenInv
      BY <1>1 DEF OssInv
    <2>2. closed => /\ states = None /\ \A n \in Notifiers : notifiers[n] # "open"
                    /\ \A w \in Workers : pc[w] = "idle"
      BY <2>1 DEF TypeInv, CallInv, Built
    <2> QED BY <2>1, <2>2, NoneAssumption DEF OpenInv, NoLeakedUpload
  <1> QED BY <1>1, OssInvariant, PTL

-----------------------------------------------------------------------------
(* Tiling: where the bytes behind the first gap are.                       *)

LEMMA Greatest ==
  ASSUME NEW n \in Nat, NEW T \in SUBSET (0..n), T # {}
  PROVE  \E m \in T : \A k \in T : k <= m
  <1> DEFINE U == {n - k : k \in T}
  <1>1. U \in SUBSET Nat /\ U # {}
    <2>1. \A k \in T : k \in Nat /\ n - k \in Nat
      OBVIOUS
    <2>2. PICK k \in T : TRUE
      OBVIOUS
    <2>3. n - k \in U
      BY <2>2
    <2> QED BY <2>1, <2>3
  <1>2. PICK u \in U : \A v \in U : u <= v
    BY <1>1, Least
  <1>3. PICK m \in T : u = n - m
    OBVIOUS
  <1>4. \A k \in T : n - m <= n - k
    BY <1>2, <1>3
  <1> QED BY <1>3, <1>4

\* The drained segments leave no gap and stay in bounds.
Drains(segments, from, D, to) ==
  /\ from <= to
  /\ \A o \in D : from <= o /\ segments[o] <= to
  /\ \A x \in from..(to - 1) : \E o \in D : o <= x /\ x < segments[o]

LEMMA ChainDrains ==
  ASSUME NEW segments \in Segments, \A o \in DOMAIN segments : o < segments[o],
         NEW from \in Nat, NEW D \in SUBSET DOMAIN segments, NEW to \in Nat,
         Chain(segments, from, D, to), NEW n \in Nat, from <= n,
         \A o \in DOMAIN segments : segments[o] <= n
  PROVE  Drains(segments, from, D, to)
  <1>0. DOMAIN segments \in SUBSET Nat /\ segments \in [DOMAIN segments -> Nat]
    BY SegmentsElim
  <1> DEFINE E == {from} \cup {segments[o] : o \in D}
  <1>1. E = D \cup {to}
    BY DEF Chain
  <1>2. E \in SUBSET Nat /\ E \in SUBSET (0..n) /\ from \in E /\ to \in E
    BY <1>0, <1>1
  <1>3. \A o \in D : o \in E /\ segments[o] \in E /\ o < segments[o] /\ o \in Nat
                     /\ segments[o] \in Nat
    BY <1>0, <1>1
  <1>4. \A e \in E : e = from \/ \E o \in D : e = segments[o]
    OBVIOUS
  <1>5. \A e \in E : e = to \/ e \in D
    BY <1>1
  <1> HIDE DEF E
  <1>6. \A e \in E : from <= e
    <2>1. PICK m \in E : \A k \in E : m <= k
      BY <1>2, Least
    <2>2. m = from
      BY <1>2, <1>3, <1>4, <2>1
    <2> QED BY <2>1, <2>2
  <1>7. \A e \in E : e <= to
    <2>1. PICK m \in E : \A k \in E : k <= m
      BY <1>2, Greatest
    <2>2. m = to
      BY <1>2, <1>3, <1>5, <2>1
    <2> QED BY <2>1, <2>2
  <1>8. ASSUME NEW x \in from..(to - 1) PROVE \E o \in D : o <= x /\ x < segments[o]
    <2> DEFINE T == {e \in E : e <= x}
    <2>1. T \in SUBSET (0..n) /\ T # {}
      <3>1. from \in T
        BY <1>2
      <3> QED BY <1>2, <3>1
    <2>2. PICK m \in T : \A k \in T : k <= m
      BY <2>1, Greatest
    <2>3. m \in E /\ m <= x /\ m # to /\ m \in Nat
      BY <1>2, <2>2
    <2>4. m \in D
      BY <1>5, <2>3
    <2>5. segments[m] \in E /\ segments[m] > m /\ segments[m] \in Nat
      BY <1>3, <2>4
    <2>6. ~(segments[m] <= x)
      BY <2>2, <2>3, <2>5
    <2> QED BY <2>3, <2>4, <2>5, <2>6
  <1> QED BY <1>2, <1>3, <1>6, <1>7, <1>8 DEF Drains

LEMMA WaitingBytes ==
  ASSUME NEW t, NEW x
  PROVE  x \in Waiting(t) <=> \E o \in DOMAIN t.pendingSegments :
                                x \in o..(t.pendingSegments[o] - 1)
  BY DEF Waiting

LEMMA CountInterval ==
  ASSUME NEW a \in Nat, NEW b \in Nat, a <= b
  PROVE  IsFiniteSet(a..(b - 1)) /\ Cardinality(a..(b - 1)) = b - a
  <1>1. b - 1 \in Int /\ a \in Int
    OBVIOUS
  <1>2. /\ IsFiniteSet(a..(b - 1))
        /\ Cardinality(a..(b - 1)) = IF a > b - 1 THEN 0 ELSE (b - 1) - a + 1
    BY <1>1, FS_Interval
  <1>3. CASE a = b
    BY <1>2, <1>3
  <1>4. CASE a < b
    <2>1. ~(a > b - 1) /\ (b - 1) - a + 1 = b - a
      BY <1>4
    <2> QED BY <1>2, <2>1
  <1> QED BY <1>3, <1>4

LEMMA CountApart ==
  ASSUME NEW S, NEW T, IsFiniteSet(S), IsFiniteSet(T), \A x \in S : x \notin T
  PROVE  /\ IsFiniteSet(S \cup T)
         /\ Cardinality(S \cup T) = Cardinality(S) + Cardinality(T)
  <1>1. S \cap T = {}
    OBVIOUS
  <1>2. Cardinality(S \cap T) = 0
    BY <1>1, FS_EmptySet
  <1>3. /\ IsFiniteSet(S \cup T)
        /\ Cardinality(S \cup T) = Cardinality(S) + Cardinality(T) - Cardinality(S \cap T)
    BY FS_Union
  <1>4. Cardinality(S) \in Nat /\ Cardinality(T) \in Nat
    BY FS_CardinalityType
  <1> QED BY <1>2, <1>3, <1>4


\* Two chunks of one reading that share a byte are the same.
LEMMA ChunksApart ==
  ASSUME OneReading, NEW c \in Chunks, NEW d \in Chunks, NEW x \in Int,
         c.start <= x, x < c.end, d.start <= x, x < d.end
  PROVE  c = d
  <1>1. c.start \in Nat /\ c.end \in Nat /\ d.start \in Nat /\ d.end \in Nat
    BY ChunkType
  <1>2. c = d \/ c.end <= d.start \/ d.end <= c.start
    BY DEF OneReading
  <1> QED BY <1>1, <1>2

\* The waiting segments, as numbers.
Waits(t) ==
  \A o \in DOMAIN t.pendingSegments :
    /\ o \in Nat /\ t.pendingSegments[o] \in Nat /\ o < t.pendingSegments[o]
    /\ t.pendingSegments[o] <= FileSize
    /\ [start |-> o, end |-> t.pendingSegments[o]] \in Chunks
LEMMA WaitingChunks ==
  ASSUME NEW t, NEW puts, Prefix(t, puts) PROVE Waits(t)
  <1> SUFFICES ASSUME NEW o \in DOMAIN t.pendingSegments
               PROVE  /\ o \in Nat /\ t.pendingSegments[o] \in Nat /\ o < t.pendingSegments[o]
                      /\ t.pendingSegments[o] <= FileSize
                      /\ [start |-> o, end |-> t.pendingSegments[o]] \in Chunks
    BY DEF Waits
  <1>1. [start |-> o, end |-> t.pendingSegments[o]] \in Chunks
    BY DEF Prefix
  <1> QED BY <1>1, ChunkType

\* A chunk that acceptChunk drops brings nothing new.
LEMMA TiledIgnored ==
  ASSUME OneReading, NEW t \in States, Tiled(t), Waits(t), NEW c \in Chunks,
         Ignored(Noted(t, c), c)
  PROVE  Tiled(Noted(t, c))
  <1>1. PICK n \in States : n = Noted(t, c)
    BY NotedState
  <1>2. /\ n.nextOffset = t.nextOffset /\ n.pendingSegments = t.pendingSegments
        /\ n.pendingBytes = t.pendingBytes /\ n.eofSeen = (t.eofSeen \/ c.end = FileSize)
        /\ n.covered = t.covered \cup c.start..(c.end - 1)
    BY <1>1, NotedState
  <1>3. /\ c.start \in Nat /\ c.end \in Nat /\ c.start < c.end /\ c.end <= FileSize
        /\ FileSize \in Nat /\ t.nextOffset \in Nat
        /\ c = [start |-> c.start, end |-> c.end]
    BY ChunkType, ChunksAssumption DEF States
  <1>4. Waiting(n) = Waiting(t)
    BY <1>2 DEF Waiting
  <1>5. c.start..(c.end - 1) \subseteq t.covered
    <2>1. CASE c.end <= t.nextOffset
      BY <1>3, <2>1 DEF Tiled
    <2>2. CASE c.start \in DOMAIN t.pendingSegments
      <3>1. PICK e \in Nat : e = t.pendingSegments[c.start] /\ c.start < e
        BY <2>2 DEF Waits
      <3>2. PICK d \in Chunks : d = [start |-> c.start, end |-> e]
        BY <2>2, <3>1 DEF Waits
      <3>3. c = d
        BY <1>3, <3>1, <3>2, ChunksApart
      <3>4. c.end = e
        BY <3>2, <3>3
      <3>5. \A x \in c.start..(c.end - 1) : x \in Waiting(t)
        BY <2>2, <3>1, <3>4, WaitingBytes
      <3> QED BY <3>5 DEF Tiled
    <2> QED BY <1>1, <1>2, <2>1, <2>2 DEF Ignored
  <1>6. n.covered = t.covered
    BY <1>2, <1>5
  <1>7. n.eofSeen \in BOOLEAN /\ (t.eofSeen => n.eofSeen)
    BY <1>2 DEF States
  <1> QED BY <1>1, <1>2, <1>4, <1>6, <1>7 DEF Tiled

\* A chunk behind the gap waits, apart from those that wait already.
LEMMA TiledStashed ==
  ASSUME OneReading, NEW t \in States, Tiled(t), Waits(t), NEW c \in Chunks,
         ~Ignored(Noted(t, c), c), c.start # t.nextOffset
  PROVE  Tiled(Stashed(Noted(t, c), c))
  <1>1. PICK n \in States : n = Noted(t, c)
    BY NotedState
  <1>2. /\ n.nextOffset = t.nextOffset /\ n.pendingSegments = t.pendingSegments
        /\ n.pendingBytes = t.pendingBytes /\ n.eofSeen = (t.eofSeen \/ c.end = FileSize)
        /\ n.covered = t.covered \cup c.start..(c.end - 1)
    BY <1>1, NotedState
  <1>3. PICK u \in States : u = Stashed(n, c)
    BY StashedState
  <1>4. /\ u.nextOffset = t.nextOffset
        /\ DOMAIN u.pendingSegments = DOMAIN t.pendingSegments \cup {c.start}
        /\ \A o \in DOMAIN u.pendingSegments :
             u.pendingSegments[o] = IF o = c.start THEN c.end ELSE t.pendingSegments[o]
        /\ u.pendingBytes = t.pendingBytes + (c.end - c.start)
        /\ u.eofSeen = (t.eofSeen \/ c.end = FileSize)
        /\ u.covered = t.covered \cup c.start..(c.end - 1)
    BY <1>2, <1>3, StashedState
  <1>5. /\ c.start \in Nat /\ c.end \in Nat /\ c.start < c.end /\ c.end <= FileSize
        /\ FileSize \in Nat /\ t.nextOffset \in Nat
        /\ c = [start |-> c.start, end |-> c.end]
    BY ChunkType, ChunksAssumption DEF States
  <1>6. c.start > t.nextOffset /\ c.start \notin DOMAIN t.pendingSegments
    <2>1. ~(c.end <= t.nextOffset) /\ c.start \notin DOMAIN t.pendingSegments
      BY <1>1, <1>2 DEF Ignored
    <2>2. c.end <= t.nextOffset \/ c.start >= t.nextOffset
      BY DEF Tiled
    <2> QED BY <1>5, <2>1, <2>2
  <1>7. Waiting(u) = Waiting(t) \cup c.start..(c.end - 1)
    <2>1. ASSUME NEW x \in Waiting(u) PROVE x \in Waiting(t) \cup c.start..(c.end - 1)
      <3>1. PICK o \in DOMAIN u.pendingSegments : x \in o..(u.pendingSegments[o] - 1)
        BY WaitingBytes
      <3>2. CASE o = c.start
        BY <1>4, <3>1, <3>2
      <3>3. CASE o # c.start
        BY <1>4, <3>1, <3>3, WaitingBytes
      <3> QED BY <3>2, <3>3
    <2>2. ASSUME NEW x \in Waiting(t) PROVE x \in Waiting(u)
      <3>1. PICK o \in DOMAIN t.pendingSegments : x \in o..(t.pendingSegments[o] - 1)
        BY WaitingBytes
      <3>2. o \in DOMAIN u.pendingSegments /\ u.pendingSegments[o] = t.pendingSegments[o]
        BY <1>4, <1>6
      <3> QED BY <3>1, <3>2, WaitingBytes
    <2>3. ASSUME NEW x \in c.start..(c.end - 1) PROVE x \in Waiting(u)
      <3>1. c.start \in DOMAIN u.pendingSegments /\ u.pendingSegments[c.start] = c.end
        BY <1>4
      <3> QED BY <3>1, WaitingBytes
    <2> QED BY <2>1, <2>2, <2>3
  <1>8. \A x \in Waiting(t) : x \notin c.start..(c.end - 1)
    <2> SUFFICES ASSUME NEW x \in Waiting(t), x \in c.start..(c.end - 1) PROVE FALSE
      OBVIOUS
    <2>1. PICK o \in DOMAIN t.pendingSegments : x \in o..(t.pendingSegments[o] - 1)
      BY WaitingBytes
    <2>2. PICK e \in Nat : e = t.pendingSegments[o] /\ o \in Nat
      BY DEF Waits
    <2>3. PICK d \in Chunks : d = [start |-> o, end |-> e]
      BY <2>2 DEF Waits
    <2>4. x \in Int /\ c.start <= x /\ x < c.end /\ d.start <= x /\ x < d.end
      BY <1>5, <2>1, <2>2, <2>3
    <2>5. c = d
      BY <2>4, ChunksApart
    <2> QED BY <1>6, <2>3, <2>5
  <1>9. IsFiniteSet(c.start..(c.end - 1)) /\ Cardinality(c.start..(c.end - 1)) = c.end - c.start
    BY <1>5, CountInterval
  <1>10. IsFiniteSet(Waiting(u)) /\ u.pendingBytes = Cardinality(Waiting(u))
    <2>1. IsFiniteSet(Waiting(t)) /\ t.pendingBytes = Cardinality(Waiting(t))
      BY DEF Tiled
    <2>2. /\ IsFiniteSet(Waiting(u))
          /\ Cardinality(Waiting(u)) = Cardinality(Waiting(t)) + Cardinality(c.start..(c.end - 1))
      BY <1>7, <1>8, <1>9, <2>1, CountApart
    <2> QED BY <1>4, <1>9, <2>1, <2>2
  <1>11. u.covered = 0..(u.nextOffset - 1) \cup Waiting(u)
    BY <1>4, <1>7 DEF Tiled
  <1>12. FileSize - 1 \in u.covered => u.eofSeen
    <2>1. FileSize - 1 \in c.start..(c.end - 1) => c.end = FileSize
      BY <1>5
    <2>2. FileSize - 1 \in t.covered => t.eofSeen
      BY DEF Tiled
    <2>3. FileSize - 1 \in u.covered => t.eofSeen \/ c.end = FileSize
      BY <1>4, <2>1, <2>2
    <2>4. t.eofSeen \/ c.end = FileSize => u.eofSeen
      BY <1>4
    <2> QED BY <2>3, <2>4
  <1>13. \A o \in DOMAIN u.pendingSegments : o > u.nextOffset
    BY <1>4, <1>6 DEF Tiled
  <1>14. \A d \in Chunks : d.end <= u.nextOffset \/ d.start >= u.nextOffset
    BY <1>4 DEF Tiled
  <1> QED BY <1>1, <1>3, <1>10, <1>11, <1>12, <1>13, <1>14 DEF Tiled

\* A chunk at the end of the prefix moves it, over what waited there, to the next gap.
LEMMA TiledAppended ==
  ASSUME OneReading, NEW t \in States, Tiled(t), Waits(t), NEW c \in Chunks,
         c.start = t.nextOffset,
         NEW D \in SUBSET DOMAIN t.pendingSegments, NEW to \in Nat, c.end <= to,
         Chain(t.pendingSegments, c.end, D, to)
  PROVE  Tiled(Appended(Noted(t, c), c, D, to))
  <1>1. PICK n \in States : n = Noted(t, c)
    BY NotedState
  <1>2. /\ n.nextOffset = t.nextOffset /\ n.pendingSegments = t.pendingSegments
        /\ n.pendingBytes = t.pendingBytes /\ n.eofSeen = (t.eofSeen \/ c.end = FileSize)
        /\ n.covered = t.covered \cup c.start..(c.end - 1)
    BY <1>1, NotedState
  <1>3. PICK u : u = Appended(n, c, D, to)
    OBVIOUS
  <1>4. /\ u.nextOffset = to /\ u \in States
        /\ DOMAIN u.pendingSegments = DOMAIN t.pendingSegments \ D
        /\ \A o \in DOMAIN u.pendingSegments : u.pendingSegments[o] = t.pendingSegments[o]
        /\ u.pendingBytes = t.pendingBytes - (to - c.end)
        /\ u.eofSeen = (t.eofSeen \/ c.end = FileSize)
        /\ u.covered = t.covered \cup c.start..(c.end - 1)
    <2>1. IsAppended(u, n, c, D, to)
      BY <1>3, AppendedState
    <2> QED BY <1>2, <2>1 DEF IsAppended
  <1>5. /\ c.start \in Nat /\ c.end \in Nat /\ c.start < c.end /\ c.end <= FileSize
        /\ FileSize \in Nat /\ t.nextOffset \in Nat
        /\ c = [start |-> c.start, end |-> c.end]
    BY ChunkType, ChunksAssumption DEF States
  <1>6. Drains(t.pendingSegments, c.end, D, to)
    <2>1. t.pendingSegments \in Segments
      BY DEF States
    <2>2. \A o \in DOMAIN t.pendingSegments :
             o < t.pendingSegments[o] /\ t.pendingSegments[o] <= FileSize
      BY DEF Waits
    <2> QED BY <1>5, <2>1, <2>2, ChainDrains
  <1>7. ASSUME NEW x \in c.start..(to - 1)
        PROVE  \E d \in Chunks : d.start <= x /\ x < d.end /\ d.end <= to
                                 /\ (d = c \/ d.start \in D)
    <2>1. CASE x < c.end
      BY <1>5, <2>1
    <2>2. CASE x >= c.end
      <3>1. x \in c.end..(to - 1)
        BY <1>5, <2>2
      <3>2. PICK o \in D : o <= x /\ x < t.pendingSegments[o]
        BY <1>6, <3>1 DEF Drains
      <3>3. t.pendingSegments[o] <= to
        BY <1>6 DEF Drains
      <3>4. PICK d \in Chunks : d = [start |-> o, end |-> t.pendingSegments[o]]
        BY DEF Waits
      <3> QED BY <3>2, <3>3, <3>4
    <2> QED BY <1>5, <2>1, <2>2
  <1>8. \A d \in Chunks : d.end <= to \/ d.start >= to
    <2> SUFFICES ASSUME NEW d \in Chunks, ~(d.end <= to), ~(d.start >= to) PROVE FALSE
      OBVIOUS
    <2>1. d.start \in Nat /\ d.end \in Nat /\ d.start < d.end
      BY ChunkType
    <2>2. d.end <= t.nextOffset \/ d.start >= t.nextOffset
      BY DEF Tiled
    <2>3. d.start \in c.start..(to - 1)
      BY <1>5, <2>1, <2>2
    <2>4. PICK b \in Chunks : b.start <= d.start /\ d.start < b.end /\ b.end <= to
      BY <1>7, <2>3
    <2>5. b = d
      BY <2>1, <2>4, ChunksApart
    <2> QED BY <2>4, <2>5
  <1>9. \A o \in DOMAIN u.pendingSegments : o > to
    <2> SUFFICES ASSUME NEW o \in DOMAIN t.pendingSegments, o \notin D PROVE o > to
      BY <1>4
    <2>1. PICK e \in Nat : e = t.pendingSegments[o] /\ o \in Nat /\ o < e
      BY DEF Waits
    <2>2. PICK d \in Chunks : d = [start |-> o, end |-> e]
      BY <2>1 DEF Waits
    <2>3. o # to /\ o > c.start
      BY <1>5 DEF Chain, Tiled
    <2>4. ASSUME o < to PROVE FALSE
      <3>1. o \in c.start..(to - 1)
        BY <1>5, <2>1, <2>3, <2>4
      <3>2. PICK b \in Chunks : b.start <= o /\ o < b.end /\ (b = c \/ b.start \in D)
        BY <1>7, <3>1
      <3>3. b = d
        BY <2>1, <2>2, <3>2, ChunksApart
      <3> QED BY <1>5, <2>2, <2>3, <3>2, <3>3
    <2> QED BY <2>1, <2>3, <2>4
  <1>10. Waiting(t) = Waiting(u) \cup c.end..(to - 1)
    <2>1. ASSUME NEW x \in Waiting(t) PROVE x \in Waiting(u) \cup c.end..(to - 1)
      <3>1. PICK o \in DOMAIN t.pendingSegments : x \in o..(t.pendingSegments[o] - 1)
        BY WaitingBytes
      <3>2. CASE o \in D
        <4>1. c.end <= o /\ t.pendingSegments[o] <= to /\ o \in Nat /\ t.pendingSegments[o] \in Nat
          BY <1>6, <3>2 DEF Drains, Waits
        <4> QED BY <1>5, <3>1, <4>1
      <3>3. CASE o \notin D
        <4>1. o \in DOMAIN u.pendingSegments /\ u.pendingSegments[o] = t.pendingSegments[o]
          BY <1>4, <3>3
        <4> QED BY <3>1, <4>1, WaitingBytes
      <3> QED BY <3>2, <3>3
    <2>2. ASSUME NEW x \in Waiting(u) PROVE x \in Waiting(t)
      <3>1. PICK o \in DOMAIN u.pendingSegments : x \in o..(u.pendingSegments[o] - 1)
        BY WaitingBytes
      <3>2. o \in DOMAIN t.pendingSegments /\ u.pendingSegments[o] = t.pendingSegments[o]
        BY <1>4
      <3> QED BY <3>1, <3>2, WaitingBytes
    <2>3. ASSUME NEW x \in c.end..(to - 1) PROVE x \in Waiting(t)
      <3>1. PICK o \in D : o <= x /\ x < t.pendingSegments[o]
        BY <1>6 DEF Drains
      <3>2. o \in DOMAIN t.pendingSegments /\ x \in Int
        BY <1>5
      <3>4. o \in Nat /\ t.pendingSegments[o] \in Nat
        BY <3>2 DEF Waits
      <3>3. x \in o..(t.pendingSegments[o] - 1)
        BY <3>1, <3>2, <3>4
      <3> QED BY <3>2, <3>3, WaitingBytes
    <2> QED BY <2>1, <2>2, <2>3
  <1>11. \A x \in Waiting(u) : x \in Int /\ x > to
    <2> SUFFICES ASSUME NEW x \in Waiting(u) PROVE x \in Int /\ x > to
      OBVIOUS
    <2>1. PICK o \in DOMAIN u.pendingSegments : x \in o..(u.pendingSegments[o] - 1)
      BY WaitingBytes
    <2>2. o \in Nat /\ u.pendingSegments[o] \in Nat /\ o > to
      BY <1>4, <1>9 DEF Waits
    <2> QED BY <2>1, <2>2
  <1>12. FileSize - 1 \in u.covered => u.eofSeen
    <2>1. FileSize - 1 \in c.start..(c.end - 1) => c.end = FileSize
      BY <1>5
    <2>2. FileSize - 1 \in t.covered => t.eofSeen
      BY DEF Tiled
    <2>3. FileSize - 1 \in u.covered => t.eofSeen \/ c.end = FileSize
      BY <1>4, <2>1, <2>2
    <2>4. t.eofSeen \/ c.end = FileSize => u.eofSeen
      BY <1>4
    <2> QED BY <2>3, <2>4
  <1>13. IsFiniteSet(Waiting(u)) /\ u.pendingBytes = Cardinality(Waiting(u))
    <2>1. IsFiniteSet(Waiting(t)) /\ t.pendingBytes = Cardinality(Waiting(t))
      BY DEF Tiled
    <2>2. Waiting(u) \in SUBSET Waiting(t)
      BY <1>10
    <2>3. IsFiniteSet(Waiting(u))
      BY <2>1, <2>2, FS_Subset
    <2>4. IsFiniteSet(c.end..(to - 1)) /\ Cardinality(c.end..(to - 1)) = to - c.end
      BY <1>5, CountInterval
    <2>5. \A x \in Waiting(u) : x \notin c.end..(to - 1)
      BY <1>11
    <2>6. Cardinality(Waiting(t)) = Cardinality(Waiting(u)) + Cardinality(c.end..(to - 1))
      BY <1>10, <2>3, <2>4, <2>5, CountApart
    <2>7. Cardinality(Waiting(u)) \in Nat
      BY <2>3, FS_CardinalityType
    <2> QED BY <1>4, <1>5, <2>1, <2>3, <2>4, <2>6, <2>7
  <1>14. u.covered = 0..(to - 1) \cup Waiting(u)
    <2>1. 0..(t.nextOffset - 1) \cup c.start..(c.end - 1) \cup c.end..(to - 1) = 0..(to - 1)
      BY <1>5
    <2>2. t.covered = 0..(t.nextOffset - 1) \cup Waiting(t)
      BY DEF Tiled
    <2> QED BY <1>4, <1>10, <2>1, <2>2
  <1> QED BY <1>1, <1>3, <1>4, <1>8, <1>9, <1>12, <1>13, <1>14 DEF Tiled

LEMMA TilingStep ==
  ASSUME OneReading, NEW t \in States, Tiled(t), NEW puts, Prefix(t, puts), NEW c \in Chunks,
         NEW u, Taking(t, c, u)
  PROVE  Tiled(u)
  <1>1. Waits(t)
    BY WaitingChunks
  <1>2. /\ Noted(t, c) \in States /\ Noted(t, c).nextOffset = t.nextOffset
        /\ Noted(t, c).pendingSegments = t.pendingSegments
    BY NotedState
  <1>3. CASE Ignored(Noted(t, c), c) /\ u = Noted(t, c)
    BY <1>1, <1>3, TiledIgnored
  <1>4. CASE /\ ~Ignored(Noted(t, c), c) /\ c.start # t.nextOffset
             /\ u = Stashed(Noted(t, c), c)
    BY <1>1, <1>4, TiledStashed
  <1>5. ASSUME NEW D \in SUBSET DOMAIN t.pendingSegments,
               NEW to \in {c.end} \cup Range(t.pendingSegments), c.start = t.nextOffset,
               Chain(t.pendingSegments, c.end, D, to), u = Appended(Noted(t, c), c, D, to)
        PROVE  Tiled(u)
    <2>1. to \in Nat /\ c.end <= to
      BY <1>5, DrainTarget
    <2> QED BY <1>1, <1>5, <2>1, TiledAppended
  <1> QED BY <1>2, <1>3, <1>4, <1>5 DEF Taking

\* Tiled says nothing of the upload.
SameTiles(x, t) ==
  /\ x.eofSeen = t.eofSeen /\ x.covered = t.covered /\ x.nextOffset = t.nextOffset
  /\ x.pendingSegments = t.pendingSegments /\ x.pendingBytes = t.pendingBytes
LEMMA TiledSame ==
  ASSUME NEW t, NEW x, Tiled(t), SameTiles(x, t) PROVE Tiled(x)
  BY DEF Tiled, Waiting, SameTiles

\* A step of one goroutine outside acceptPacket.
LEMMA TileFrame ==
  ASSUME TypeInv, TileInv, NEW w, UNCHANGED sessions, states' \in {states, None},
         \A r \in 1..sessions : SameTiles(transfer'[r], transfer[r]),
         \A v \in Workers : v # w => pc'[v] = pc[v] /\ session'[v] = session[v],
         w \in Workers /\ pc[w] = "fail" => states' # session[w]
  PROVE  TileInv'
  <1> SUFFICES ASSUME NEW r \in 1..sessions
               PROVE  /\ Tiled(transfer'[r])
                      /\ transfer'[r].pendingBytes > PendingLimit => GivenUp(r)'
    BY DEF TileInv
  <1>1. Tiled(transfer'[r])
    BY TiledSame DEF TileInv
  <1>2. transfer'[r].pendingBytes > PendingLimit => GivenUp(r)
    BY DEF TileInv, SameTiles
  <1>3. r # None
    BY NoneAssumption, SessionRange
  <1>4. GivenUp(r) => GivenUp(r)'
    <2>1. CASE states # r
      BY <1>3, <2>1 DEF GivenUp
    <2>2. ASSUME NEW v \in Workers, session[v] = r, pc[v] = "fail" PROVE GivenUp(r)'
      <3>1. CASE v = w
        BY <2>2, <3>1 DEF GivenUp
      <3>2. CASE v # w
        BY <2>2, <3>2 DEF GivenUp
      <3> QED BY <3>1, <3>2
    <2> QED BY <2>1, <2>2 DEF GivenUp
  <1> QED BY <1>1, <1>2, <1>4

LEMMA TileAccept ==
  ASSUME OneReading, OssInv, TileInv, NEW w \in Workers, AcceptPacket(w)
  PROVE  TileInv'
  <1>1. UNCHANGED <<states, sessions>> /\ pc[w] = "accept" /\ TypeInv
    BY DEF AcceptPacket, OssInv
  <1>2. PICK s \in 1..sessions : s = session[w] /\ s \in Sessions /\ chunk[w] \in Chunks
    BY <1>1, SessionRange DEF OssInv, CallInv
  <1>3. PICK t \in States : t = transfer[s]
    BY DEF OssInv, TypeInv
  <1>4. PICK x \in States, u \in States :
           /\ Taking(t, chunk[w], u) /\ SameBytes(x, u)
           /\ transfer' = [transfer EXCEPT ![s] = x]
           /\ \/ /\ Goto(w, "next") \/ Return(w)
                 /\ \/ u.pendingBytes <= PendingLimit
                    \/ u.pendingBytes <= t.pendingBytes
              \/ Goto(w, "fail")
    BY <1>2, <1>3, AcceptEffect
  <1>5. transfer'[s] = x /\ \A r \in 1..sessions : r # s => transfer'[r] = transfer[r]
    BY <1>1, <1>2, <1>4, SessionRange DEF TypeInv
  <1>6. Tiled(x)
    <2>1. Tiled(t) /\ Prefix(t, stored[s])
      BY <1>3 DEF TileInv, OssInv, ByteInv, PrefixInv
    <2>2. Tiled(u)
      BY <1>2, <1>4, <2>1, TilingStep
    <2> QED BY <1>4, <2>2, TiledSame DEF SameBytes, SameTiles
  <1>7. \A v \in Workers : v # w => pc'[v] = pc[v] /\ session'[v] = session[v]
    BY <1>1, <1>4 DEF Goto, Return, TypeInv
  <1>8. \A r \in 1..sessions : GivenUp(r) => GivenUp(r)'
    BY <1>1, <1>7 DEF GivenUp
  <1>9. x.pendingBytes > PendingLimit => GivenUp(s)'
    <2>1. x.pendingBytes = u.pendingBytes /\ PendingLimit \in Nat
          /\ t.pendingBytes \in Int /\ u.pendingBytes \in Int
      BY <1>4, SizesAssumption DEF SameBytes, PendingLimit, States
    <2>2. t.pendingBytes > PendingLimit => GivenUp(s)
      BY <1>3 DEF TileInv
    <2>3. CASE u.pendingBytes <= PendingLimit \/ u.pendingBytes <= t.pendingBytes
      BY <1>8, <2>1, <2>2, <2>3
    <2>4. CASE Goto(w, "fail")
      <3>1. pc'[w] = "fail" /\ session'[w] = s
        BY <1>1, <1>2, <2>4 DEF Goto, TypeInv
      <3> QED BY <3>1 DEF GivenUp
    <2> QED BY <1>4, <2>3, <2>4
  <1> QED BY <1>1, <1>5, <1>6, <1>8, <1>9 DEF TileInv

LEMMA TileCreate ==
  ASSUME OssInv, TileInv, NEW w \in Workers, NEW c \in Chunks, Create(w, c)
  PROVE  TileInv'
  <1>1. PICK k \in Nat : /\ k = sessions + 1 /\ sessions' = k /\ states' = k /\ states = None
                         /\ k \in Sessions /\ transfer' = [transfer EXCEPT ![k] = NewState]
                         /\ sessions \in Nat
    <2>1. /\ sessions \in Nat /\ sessions < MaxSessions /\ MaxSessions \in Nat
          /\ states = None /\ sessions' = sessions + 1 /\ states' = sessions'
          /\ transfer' = [transfer EXCEPT ![sessions'] = NewState]
      BY SizesAssumption DEF OssInv, TypeInv, Create, Set
    <2>2. PICK k \in Nat : k = sessions + 1
      BY <2>1
    <2>3. k \in Sessions
      BY <2>1, <2>2 DEF Sessions
    <2> QED BY <2>1, <2>2, <2>3
  <1>2. transfer'[k] = NewState /\ \A r \in 1..sessions : transfer'[r] = transfer[r]
    BY <1>1, SessionRange DEF OssInv, TypeInv
  <1>3. Tiled(NewState) /\ ~(NewState.pendingBytes > PendingLimit)
    <2>1. DOMAIN NewState.pendingSegments = {} /\ NewState.nextOffset = 0
          /\ NewState.covered = {} /\ NewState.pendingBytes = 0
      BY DEF NewState
    <2>2. Waiting(NewState) = {}
      BY <2>1 DEF Waiting
    <2>3. \A d \in Chunks : d.start >= 0
      BY ChunkType
    <2>4. PendingLimit \in Nat
      BY SizesAssumption DEF PendingLimit
    <2> QED BY <2>1, <2>2, <2>3, <2>4, FS_EmptySet DEF Tiled
  <1>4. \A r \in 1..sessions : GivenUp(r)'
    BY <1>1 DEF GivenUp
  <1>5. \A r \in 1..k : r = k \/ r \in 1..sessions
    BY <1>1
  <1> QED BY <1>1, <1>2, <1>3, <1>4, <1>5 DEF TileInv

LEMMA TileUpload ==
  ASSUME OssInv, TileInv, NEW w \in Workers,
         NewMultipartUpload(w) \/ NextUploadOperation(w) \/ PutObjectPart(w)
           \/ CompleteMultipartUpload(w)
  PROVE  TileInv'
  <1>1. TypeInv /\ CallInv
    BY DEF OssInv
  <1>2. pc[w] \in {"new", "next", "put", "complete"} /\ UNCHANGED sessions
    BY DEF NewMultipartUpload, NextUploadOperation, PutObjectPart, CompleteMultipartUpload
  <1>3. PICK s \in 1..sessions : s = session[w] /\ s \in Sessions
    BY <1>1, <1>2, SessionRange DEF CallInv
  <1>4. PICK t \in States : t = transfer[s]
    BY <1>1 DEF TypeInv
  <1>5. \E x : transfer' = [transfer EXCEPT ![s] = x] /\ SameTiles(x, t)
    <2>1. CASE NewMultipartUpload(w)
      <3>1. \A b : SameTiles([t EXCEPT !.init = b], t)
        BY DEF States, SameTiles
      <3> QED BY <1>3, <1>4, <2>1, <3>1 DEF NewMultipartUpload, Set
    <2>2. CASE NextUploadOperation(w)
      <3>1. \A n : SameTiles(Reserved(t, n), t)
        BY DEF States, SameTiles, Reserved
      <3>2. SameTiles([t EXCEPT !.uploading = FALSE], t) /\ SameTiles(t, t)
        BY DEF States, SameTiles
      <3>3. transfer = [transfer EXCEPT ![s] = t]
        BY <1>1, <1>3, <1>4 DEF TypeInv
      <3> QED BY <1>3, <1>4, <2>2, <3>1, <3>2, <3>3 DEF NextUploadOperation, Set
    <2>3. CASE PutObjectPart(w)
      <3>1. SameTiles(Uploaded(t, op[w]), t) /\ SameTiles(PutBack(t, op[w]), t)
        BY DEF States, SameTiles, Uploaded, PutBack
      <3> QED BY <1>3, <1>4, <2>3, <3>1 DEF PutObjectPart, AfterPart, Set
    <2>4. CASE CompleteMultipartUpload(w)
      <3>1. SameTiles([t EXCEPT !.uploading = FALSE], t)
        BY DEF States, SameTiles
      <3> QED BY <1>3, <1>4, <2>4, <3>1 DEF CompleteMultipartUpload, Set
    <2> QED BY <2>1, <2>2, <2>3, <2>4
  <1>6. \A r \in 1..sessions : SameTiles(transfer'[r], transfer[r])
    <2>1. PICK x : transfer' = [transfer EXCEPT ![s] = x] /\ SameTiles(x, t)
      BY <1>5
    <2>2. transfer'[s] = x /\ \A r \in 1..sessions : r # s => transfer'[r] = transfer[r]
      BY <1>1, <1>3, <2>1, SessionRange DEF TypeInv
    <2> QED BY <1>4, <2>1, <2>2 DEF SameTiles
  <1>7. \A v \in Workers : v # w => pc'[v] = pc[v] /\ session'[v] = session[v]
    <2>1. CASE NewMultipartUpload(w)
      BY <1>1, <2>1 DEF NewMultipartUpload, Goto, Return, TypeInv
    <2>2. CASE NextUploadOperation(w)
      BY <1>1, <2>2 DEF NextUploadOperation, Return, TypeInv
    <2>3. CASE PutObjectPart(w)
      BY <1>1, <2>3 DEF PutObjectPart, AfterPart, Return, TypeInv
    <2>4. CASE CompleteMultipartUpload(w)
      BY <1>1, <2>4 DEF CompleteMultipartUpload, CompletionFailed, Return, TypeInv
    <2> QED BY <2>1, <2>2, <2>3, <2>4
  <1>8. states' \in {states, None}
    BY DEF NewMultipartUpload, NextUploadOperation, PutObjectPart, CompleteMultipartUpload
  <1> QED BY <1>1, <1>2, <1>6, <1>7, <1>8, TileFrame

LEMMA TileQuiet ==
  ASSUME OssInv, TileInv, NEW w \in Workers,
         \/ AwaitInit(w) \/ DeleteState(w) \/ NotifyFileReady(w) \/ Notified(w)
         \/ FailTransfer(w) \/ AbortTransfer(w) \/ \E c \in Chunks : Join(w, c)
  PROVE  TileInv'
  <1>1. TypeInv /\ CallInv
    BY DEF OssInv
  <1>2. UNCHANGED <<sessions, transfer>> /\ states' \in {states, None}
        /\ (pc[w] = "fail" => states' = Drop(session[w]))
    BY DEF AwaitInit, DeleteState, NotifyFileReady, Notified, FailTransfer, AbortTransfer, Join,
           Drop
  <1>3. \A v \in Workers : v # w => pc'[v] = pc[v] /\ session'[v] = session[v]
    BY <1>1 DEF AwaitInit, DeleteState, NotifyFileReady, Notified, FailTransfer, AbortTransfer,
                Join, Goto, Return, TypeInv
  <1>4. pc[w] = "fail" => states' # session[w]
    BY <1>1, <1>2, NoneAssumption, SessionRange DEF CallInv, Drop
  <1>5. \A r \in 1..sessions : SameTiles(transfer'[r], transfer[r])
    BY <1>2 DEF SameTiles
  <1> QED BY <1>1, <1>2, <1>3, <1>4, <1>5, TileFrame

LEMMA TileNext ==
  ASSUME OneReading, OssInv, TileInv, [Next]_vars
  PROVE  TileInv'
  <1>1. CASE Close \/ (\E n \in Notifiers : BuildNotifier(n)) \/ UNCHANGED vars
    <2>1. UNCHANGED <<sessions, transfer, pc, session>> /\ states' \in {states, None} /\ TypeInv
      BY <1>1 DEF Close, BuildNotifier, vars, worker, OssInv
    <2>2. PICK w : w \notin Workers
      BY NoSetContainsEverything
    <2>3. \A r \in 1..sessions : SameTiles(transfer'[r], transfer[r])
      BY <2>1 DEF SameTiles
    <2> QED BY <2>1, <2>2, <2>3, TileFrame
  <1>2. ASSUME NEW w \in Workers, Step(w) PROVE TileInv'
    BY <1>2, TileAccept, TileUpload, TileQuiet DEF Step
  <1>3. ASSUME NEW w \in Workers, NEW c \in Chunks, Join(w, c) \/ Create(w, c) PROVE TileInv'
    BY <1>3, TileCreate, TileQuiet
  <1> QED BY <1>1, <1>2, <1>3 DEF Next

(***************************************************************************)
(* If the receivers read the file once, chunk after chunk, what a transfer *)
(* has received is the contiguous prefix and the segments behind the first *)
(* gap, and pendingBytes counts the latter.                                *)
(***************************************************************************)
THEOREM TileInvariant ==
  ASSUME OneReading PROVE Spec => []TileInv
  <1>1. Init => TileInv
    BY DEF Init, TileInv
  <1>2. OssInv /\ TileInv /\ [Next]_vars => TileInv'
    BY TileNext
  <1> QED BY <1>1, <1>2, OssInvariant, PTL DEF Spec

(***************************************************************************)
(* Then acceptChunk, drainContiguousSegments, reservePartUploadLocked and  *)
(* finishPartUpload conserve bytes: parts, the part in a goroutine's hands *)
(* and the buffer are the prefix, and more than the pending limit waits    *)
(* only in a transfer that failTransfer gives up.                          *)
(***************************************************************************)
THEOREM BytesAreConserved ==
  ASSUME OneReading PROVE Spec => []BytesConserved
  <1>1. ASSUME OssInv, TileInv PROVE BytesConserved
    <2> SUFFICES ASSUME NEW s \in Sessions, Ready(s)
                 PROVE  /\ PendingBounded(s)
                        /\ PartsTile(s, transfer[s].uploadedParts)
                        /\ transfer[s].nextPartNumber = Len(transfer[s].uploadedParts) + 1
                        /\ \A w \in At(s, {"put"}) :
                             op[w].payload \o transfer[s].pendingPartBuffer
                               = Bytes(uploadedEnd(transfer[s]), transfer[s].nextOffset)
                        /\ At(s, {"put"}) = {} =>
                             transfer[s].pendingPartBuffer
                               = Bytes(uploadedEnd(transfer[s]), transfer[s].nextOffset)
      BY DEF BytesConserved
    <2>1. s \in 1..sessions
      BY <1>1, SizesAssumption DEF Ready, OssInv, TypeInv, Sessions
    <2>2. PICK t \in States : t = transfer[s]
      BY <1>1, <2>1 DEF OssInv, TypeInv
    <2>3. /\ Prefix(t, stored[s])
          /\ Taken(s) \/ t.pendingPartBuffer = Bytes(uploadedEnd(t), t.nextOffset)
      BY <1>1, <2>1, <2>2 DEF OssInv, ByteInv, PrefixInv
    <2>4. PendingBounded(s)
      BY <1>1, <2>1 DEF TileInv, Tiled, GivenUp, PendingBounded, At
    <2>5. PartsTile(s, t.uploadedParts)
      <3>1. PICK q \in Seq(Parts) : q = t.uploadedParts
        BY DEF States
      <3>2. DOMAIN q = 1..Len(q)
        OBVIOUS
      <3> QED BY <2>3, <3>1, <3>2 DEF Prefix, PartInv, PartsTile
    <2>6. ASSUME NEW w \in At(s, {"put"})
          PROVE  op[w].payload \o t.pendingPartBuffer = Bytes(uploadedEnd(t), t.nextOffset)
      <3>1. w \in Workers /\ session[w] = s /\ pc[w] = "put"
        BY DEF At
      <3>2. PICK o \in PartOps : o = op[w] /\ InHand(t, o)
        BY <1>1, <2>2, <3>1 DEF OssInv, ByteInv, CallInv, PutInv
      <3>3. PICK a \in Nat : a = o.partStart
        BY DEF PartOps
      <3>4. PICK e \in Nat : e = a + Len(o.payload)
        BY <3>3 DEF PartOps
      <3>5. PICK no \in Nat : no = t.nextOffset
        BY DEF States
      <3>6. /\ a <= e /\ e <= no /\ o.payload = Bytes(a, e)
            /\ t.pendingPartBuffer = Bytes(e, no) /\ uploadedEnd(t) = a
        BY <3>2, <3>3, <3>4, <3>5 DEF InHand
      <3>7. Bytes(a, e) \o Bytes(e, no) = Bytes(a, no)
        BY <3>6, BytesJoin, Zenon
      <3> QED BY <3>2, <3>5, <3>6, <3>7, Zenon
    <2>7. At(s, {"put"}) = {} => t.pendingPartBuffer = Bytes(uploadedEnd(t), t.nextOffset)
      BY <2>3 DEF At, Taken
    <2>8. t.nextPartNumber = Len(t.uploadedParts) + 1
      BY <2>3 DEF Prefix
    <2> QED BY <2>2, <2>4, <2>5, <2>6, <2>7, <2>8
  <1> QED BY <1>1, OssInvariant, TileInvariant, PTL

(***************************************************************************)
(* And a file all of whose bytes arrived is committed and announced once:  *)
(* acceptPacket and driveOSSUpload leave no complete transfer behind, and  *)
(* notifyOSSCommitSuccess tells each notifier of it once.                  *)
(***************************************************************************)
THEOREM CommitsOnce ==
  ASSUME OneReading PROVE Spec => []CommittedOnce
  <1>1. ASSUME OssInv, TileInv PROVE CommittedOnce
    <2> SUFFICES ASSUME NEW s \in Sessions
                 PROVE  /\ Covered(s) /\ At(s, {"accept", "next", "put", "complete"}) = {}
                             /\ failed[s] = {} => upload[s] = "completed"
                        /\ upload[s] = "completed" /\ "complete" \notin failed[s]
                             /\ At(s, {"delete", "notify"}) = {}
                             => \A n \in Notifiers : notified[s][n] = 1
                        /\ \A n \in Notifiers :
                             /\ notified[s][n] <= 1
                             /\ notified[s][n] = 1 => upload[s] = "completed"
      BY DEF CommittedOnce
    <2>1. TypeInv /\ CallInv /\ DriveInv /\ PrefixInv /\ NoteInv
      BY <1>1 DEF OssInv, ByteInv
    <2>2. ASSUME Covered(s), At(s, {"accept", "next", "put", "complete"}) = {}, failed[s] = {}
          PROVE  upload[s] = "completed"
      <3>1. s \in 1..sessions /\ sessions > 0
        BY <2>1, <2>2, SizesAssumption DEF Covered, Ready, TypeInv, Sessions
      <3>2. PICK t \in States : t = transfer[s]
        BY <2>1, <3>1 DEF TypeInv
      <3>3. Tiled(t) /\ Prefix(t, stored[s]) /\ t.covered = 0..(FileSize - 1)
        BY <1>1, <2>1, <2>2, <3>1, <3>2 DEF TileInv, PrefixInv, Covered
      <3>4. Waits(t)
        BY <3>3, WaitingChunks
      <3>5. PICK no \in Nat : no = t.nextOffset /\ no <= FileSize
        BY <3>3 DEF Prefix, States
      <3>6. FileSize \in Nat /\ FileSize > 0 /\ t.totalSize = FileSize
        BY <2>1, <3>1, ChunksAssumption DEF CallInv, States
      <3>7. no = FileSize
        <4> SUFFICES ASSUME no < FileSize PROVE FALSE
          BY <3>5, <3>6
        <4>1. no \in t.covered /\ no \notin 0..(no - 1)
          BY <3>3, <3>6
        <4>2. no \in Waiting(t)
          BY <3>3, <3>5, <4>1 DEF Tiled
        <4>3. PICK o \in DOMAIN t.pendingSegments : no \in o..(t.pendingSegments[o] - 1)
          BY <4>2, WaitingBytes
        <4>4. o > no /\ o \in Nat
          BY <3>3, <3>4, <3>5 DEF Tiled, Waits
        <4> QED BY <3>4, <4>3, <4>4 DEF Waits
      <3>8. DOMAIN t.pendingSegments = {}
        <4> SUFFICES ASSUME NEW o \in DOMAIN t.pendingSegments PROVE FALSE
          OBVIOUS
        <4>1. o > FileSize
          BY <3>3, <3>5, <3>7 DEF Tiled
        <4>2. /\ o \in Nat /\ t.pendingSegments[o] \in Nat /\ o < t.pendingSegments[o]
              /\ t.pendingSegments[o] <= FileSize
          BY <3>4 DEF Waits
        <4> QED BY <3>6, <4>1, <4>2
      <3>9. t.eofSeen
        BY <3>3, <3>6 DEF Tiled
      <3>10. OneRange(t.covered)
        <4>1. 0 \in t.covered /\ FileSize - 1 \in t.covered
          BY <3>3, <3>6
        <4> QED BY <3>3, <4>1 DEF OneRange
      <3>11. hasUploadWork(t)
        BY <3>3, <3>5, <3>6, <3>7, <3>8, <3>9, <3>10 DEF readyToComplete, hasUploadWork
      <3>12. ~t.uploading
        BY <2>1, <2>2, <3>1, <3>2 DEF DriveInv, Drivers, At
      <3> QED BY <2>1, <2>2, <3>1, <3>2, <3>11, <3>12 DEF DriveInv
    <2>3. \A n \in Notifiers :
             notified[s][n] <= 1 /\ (notified[s][n] = 1 => upload[s] = "completed")
      BY <2>1 DEF NoteInv
    <2>4. upload[s] = "completed" /\ "complete" \notin failed[s] /\ At(s, {"delete", "notify"}) = {}
            => \A n \in Notifiers : notified[s][n] = 1
      BY <2>1 DEF NoteInv, At
    <2> QED BY <2>2, <2>3, <2>4
  <1> QED BY <1>1, OssInvariant, TileInvariant, PTL

==============================================================================

---------------------------- MODULE ByteBufferProofs ---------------------------
(***************************************************************************)
(* The buffers of ByteBuffer stay within their memory and are the queues   *)
(* of ByteQueue, for any buffers, contents, growth step and size below     *)
(* 2^32.                                                                   *)
(***************************************************************************)
EXTENDS ByteBuffer, TLAPS

(* A buffer on which no unsigned difference wraps. *)
Sound(b) ==
  /\ b \in gxByteBuffer
  /\ b.position <= b.size /\ b.size <= b.capacity /\ b.capacity = Len(b.data)

(* The result of a call that leaves such a buffer and kept to its memory.  *)
Safe(r) ==
  /\ Sound(r.bb)
  /\ r.ret \in {OK, OUTOFMEMORY, INVALID_PARAMETER}
  /\ r.touched \in Nat /\ r.touched <= Len(r.bb.data)

(* A function on 1..n is a sequence of length n. *)
LEMMA SequenceOf ==
  ASSUME NEW S, NEW n \in Nat, NEW f \in [1..n -> S]
  PROVE  f \in Seq(S) /\ Len(f) = n
  OBVIOUS

LEMMA SmallRemainder ==
  ASSUME NEW m \in Nat, NEW k \in Nat, k < m
  PROVE  k % m = k
  OBVIOUS

LEMMA ContentType ==
  ASSUME NEW b \in gxByteBuffer, NEW first \in Nat, NEW n \in Nat
  PROVE  /\ Content(b, first, first + n) \in Memory
         /\ Len(Content(b, first, first + n)) = n
<1> DEFINE f == [i \in 1..n |-> IF first + i <= Len(b.data) THEN b.data[first + i] ELSE Undef]
<1>1. first + n - first = n
  OBVIOUS
<1>2. ASSUME NEW i \in 1..n
      PROVE  (IF first + i <= Len(b.data) THEN b.data[first + i] ELSE Undef)
               \in Byte \cup {Undef}
  BY DEF gxByteBuffer, Memory
<1>3. f \in [1..n -> Byte \cup {Undef}]
  BY <1>2
<1>4. Content(b, first, first + n) = f
  BY <1>1 DEF Content
<1> QED
  BY <1>3, <1>4, SequenceOf DEF Memory

(* Reallocation keeps the numbers and sets the capacity. *)
LEMMA ReallocFacts ==
  ASSUME NEW b \in gxByteBuffer, NEW n \in Nat
  PROVE  /\ Realloc(b, n) \in gxByteBuffer
         /\ Len(Realloc(b, n).data) = n /\ Realloc(b, n).capacity = n
         /\ Realloc(b, n).size = b.size /\ Realloc(b, n).position = b.position
         /\ Realloc(b, n).attached = b.attached
<1> DEFINE f == [i \in 1..n |-> IF i <= Len(b.data) THEN b.data[i] ELSE Undef]
<1>1. f \in [1..n -> Byte \cup {Undef}]
  BY DEF gxByteBuffer, Memory
<1>2. f \in Memory /\ Len(f) = n
  BY <1>1, SequenceOf DEF Memory
<1>3. Realloc(b, n) = [b EXCEPT !.data = f, !.capacity = n]
  BY DEF Realloc
<1> HIDE DEF f
<1> QED
  BY <1>2, <1>3 DEF gxByteBuffer

(* Copying into the memory changes nothing but the memory's content. *)
LEMMA PutFacts ==
  ASSUME NEW b \in gxByteBuffer, NEW at \in Nat, NEW s \in Memory
  PROVE  /\ Put(b, at, s) \in gxByteBuffer
         /\ Len(Put(b, at, s).data) = Len(b.data) /\ Put(b, at, s).capacity = b.capacity
         /\ Put(b, at, s).size = b.size /\ Put(b, at, s).position = b.position
         /\ Put(b, at, s).attached = b.attached
<1> DEFINE n == Len(b.data)
           f == [i \in 1..n |-> IF i \in (at + 1)..(at + Len(s)) THEN s[i - at] ELSE b.data[i]]
<1>1. n \in Nat
  BY DEF gxByteBuffer, Memory
<1>2. ASSUME NEW i \in 1..n
      PROVE  (IF i \in (at + 1)..(at + Len(s)) THEN s[i - at] ELSE b.data[i])
               \in Byte \cup {Undef}
  <2>1. CASE i \in (at + 1)..(at + Len(s))
    <3>1. i - at \in 1..Len(s)
      BY <2>1 DEF Memory
    <3> QED
      BY <2>1, <3>1 DEF Memory
  <2>2. CASE i \notin (at + 1)..(at + Len(s))
    BY <2>2 DEF gxByteBuffer, Memory
  <2> QED
    BY <2>1, <2>2
<1>3. f \in [1..n -> Byte \cup {Undef}]
  BY <1>2
<1>4. f \in Memory /\ Len(f) = n
  BY <1>1, <1>3, SequenceOf DEF Memory
<1>5. Put(b, at, s) = [b EXCEPT !.data = f]
  BY DEF Put
<1> HIDE DEF f, n
<1>6. Len(b.data) = n
  BY DEF n
<1> QED
  BY <1>4, <1>5, <1>6 DEF gxByteBuffer

-----------------------------------------------------------------------------
(* The calls. *)

(* A call that does nothing is safe. *)
LEMMA UnchangedSafe ==
  ASSUME NEW b, Sound(b), NEW c \in {OK, OUTOFMEMORY, INVALID_PARAMETER}
  PROVE  Safe(Unchanged(c, b))
BY DEF Safe, Sound, Unchanged, Result, gxByteBuffer, Memory

(* bb_allocate is safe, keeps the content, and if it succeeds there is     *)
(* room for count bytes at index, wherever up to the end index is.         *)
LEMMA AllocateSafe ==
  ASSUME NEW b, Sound(b), NEW index \in Nat, index <= b.size,
         NEW count \in Nat, NEW mem \in BOOLEAN
  PROVE  LET a == bb_allocate(b, index, count, mem) IN
         /\ Safe(a) /\ a.bb.size = b.size /\ a.bb.position = b.position
         /\ a.ret \in {OK, OUTOFMEMORY}
         /\ a.ret = OK => index + count <= a.bb.capacity
<1> DEFINE grows == ~ b.attached /\ (b.capacity = 0 \/ index + count > b.capacity)
           step  == IF grows /\ b.capacity # 0 /\ count <= VECTOR_CAPACITY
                    THEN VECTOR_CAPACITY ELSE count
           a     == IF grows THEN Realloc(b, b.capacity + step) ELSE b
           r     == bb_allocate(b, index, count, mem)
<1>1. b \in gxByteBuffer /\ b.capacity \in Nat /\ b.size \in Nat /\ b.position \in Nat
  BY DEF Sound, gxByteBuffer
<1>2. step \in Nat /\ step >= count
  BY ByteBufferAssumption
<1>3. Sound(a) /\ a.size = b.size /\ a.position = b.position
  <2>1. CASE grows
    <3>1. b.capacity + step \in Nat
      BY <1>1, <1>2
    <3>2. a = Realloc(b, b.capacity + step)
      BY <2>1
    <3> HIDE DEF step, a, grows
    <3>3. /\ a \in gxByteBuffer /\ Len(a.data) = b.capacity + step
          /\ a.capacity = b.capacity + step /\ a.size = b.size /\ a.position = b.position
      BY <1>1, <3>1, <3>2, ReallocFacts
    <3> QED
      BY <1>1, <1>2, <3>3 DEF Sound
  <2> QED
    BY <2>1
<1>4. r = IF grows /\ ~ mem THEN Unchanged(OUTOFMEMORY, b)
          ELSE Unchanged(IF a.capacity < index + step THEN OUTOFMEMORY ELSE OK, a)
  BY DEF bb_allocate
<1> HIDE DEF grows, step, a, r
<1>5. Safe(r)
  BY <1>3, <1>4, UnchangedSafe
<1>6. r.bb.size = b.size /\ r.bb.position = b.position /\ r.ret \in {OK, OUTOFMEMORY}
  BY <1>3, <1>4 DEF Unchanged, Result
<1>7. r.ret = OK => r.bb = a /\ ~ (a.capacity < index + step)
  BY <1>4 DEF Unchanged, Result, OK, OUTOFMEMORY
<1>8. r.ret = OK => index + count <= r.bb.capacity
  BY <1>2, <1>3, <1>7 DEF Sound, gxByteBuffer
<1> QED
  BY <1>5, <1>6, <1>8 DEF r

(* Bytes put into a sound buffer with room for them. *)
LEMMA PutSafe ==
  ASSUME NEW b, Sound(b), NEW at \in Nat, NEW s \in Memory,
         at + Len(s) <= b.capacity
  PROVE  /\ Safe(Result(OK, Put(b, at, s), at + Len(s)))
         /\ Put(b, at, s).size = b.size /\ Put(b, at, s).position = b.position
         /\ Put(b, at, s).capacity = b.capacity
<1>1. Len(s) \in Nat
  BY DEF Memory
<1>2. Sound(Put(b, at, s))
  BY PutFacts DEF Sound
<1>3. b \in gxByteBuffer
  BY DEF Sound
<1> QED
  BY <1>1, <1>2, <1>3, PutFacts DEF Safe, Sound, Result

(* A buffer may grow in size up to what was written within its capacity.   *)
LEMMA Enlarged ==
  ASSUME NEW r, Safe(r), NEW n \in Nat, r.bb.size + n <= r.bb.capacity
  PROVE  /\ Sound([r.bb EXCEPT !.size = @ + n])
         /\ [r.bb EXCEPT !.size = @ + n].size = r.bb.size + n
BY DEF Safe, Sound, gxByteBuffer

(* bb_set is safe, and adds all of s or nothing. *)
LEMMA SetSafe ==
  ASSUME NEW b, Sound(b), NEW s \in Memory, NEW mem \in BOOLEAN
  PROVE  /\ Safe(bb_set(b, s, mem))
         /\ bb_set(b, s, mem).bb.position = b.position
         /\ bb_set(b, s, mem).ret = OK => bb_set(b, s, mem).bb.size = b.size + Len(s)
         /\ bb_set(b, s, mem).bb.size >= b.size
<1> DEFINE a == bb_allocate(b, b.size, Len(s), mem)
           p == Put(a.bb, b.size, s)
           e == [p EXCEPT !.size = @ + Len(s)]
<1>1. b.size \in Nat /\ Len(s) \in Nat
  BY DEF Sound, gxByteBuffer, Memory
<1>2. /\ Safe(a) /\ a.bb.size = b.size /\ a.bb.position = b.position
      /\ a.ret = OK => b.size + Len(s) <= a.bb.capacity
  BY <1>1, AllocateSafe
<1>3. bb_set(b, s, mem) = IF a.ret # OK \/ s = <<>> THEN a
                          ELSE Result(OK, e, b.size + Len(s))
  BY DEF bb_set
<1>4. Sound(a.bb)
  BY <1>2 DEF Safe
<1> HIDE DEF a, p
<1>5. CASE a.ret # OK
  BY <1>1, <1>2, <1>3, <1>5
<1>6. CASE a.ret = OK /\ s = <<>>
  BY <1>1, <1>2, <1>3, <1>6
<1>7. CASE a.ret = OK /\ s # <<>>
  <2>1. /\ Safe(Result(OK, p, b.size + Len(s)))
        /\ p.size = b.size /\ p.position = b.position /\ p.capacity = a.bb.capacity
    BY <1>1, <1>2, <1>4, <1>7, PutSafe DEF p
  <2>2. Sound(p) /\ b.size + Len(s) <= Len(p.data)
    BY <2>1 DEF Safe, Result
  <2>3. /\ Sound(e) /\ e.size = b.size + Len(s) /\ e.position = b.position
        /\ e.data = p.data
    BY <1>1, <1>2, <1>7, <2>1, <2>2 DEF Sound, gxByteBuffer
  <2> HIDE DEF e
  <2> QED
    BY <1>1, <1>3, <1>7, <2>2, <2>3 DEF Safe, Result
<1> QED
  BY <1>5, <1>6, <1>7

(* The fixed-size appends. *)
LEMMA AppendedSafe ==
  ASSUME NEW r, Safe(r), NEW n \in Nat, r.ret = OK => r.bb.size + n <= r.bb.capacity
  PROVE  Safe(Appended(r, n))
<1> DEFINE e == [r.bb EXCEPT !.size = @ + n]
<1>1. CASE r.ret = OK
  <2>1. Sound(e)
    BY <1>1 DEF Safe, Sound, gxByteBuffer
  <2>2. e.data = r.bb.data
    BY DEF Safe, Sound, gxByteBuffer
  <2>3. /\ Appended(r, n).bb = e /\ Appended(r, n).ret = r.ret
        /\ Appended(r, n).touched = r.touched
    BY <1>1 DEF Appended
  <2> QED
    BY <2>1, <2>2, <2>3 DEF Safe
<1>2. CASE r.ret # OK
  BY <1>2 DEF Appended
<1> QED
  BY <1>1, <1>2

(* Bytes written at index, which is at most the end of the content. *)
LEMMA SetByIndexSafe ==
  ASSUME NEW b, Sound(b), NEW index \in Nat, index <= b.size, NEW s \in Memory,
         NEW mem \in BOOLEAN
  PROVE  /\ Safe(bb_setByIndex(b, index, s, mem))
         /\ bb_setByIndex(b, index, s, mem).bb.size = b.size
         /\ bb_setByIndex(b, index, s, mem).ret = OK
              => index + Len(s) <= bb_setByIndex(b, index, s, mem).bb.capacity
<1> DEFINE a == bb_allocate(b, index, Len(s), mem)
           r == bb_setByIndex(b, index, s, mem)
<1>1. Len(s) \in Nat
  BY DEF Memory
<1>2. /\ Safe(a) /\ a.bb.size = b.size
      /\ a.ret = OK => index + Len(s) <= a.bb.capacity
  BY <1>1, AllocateSafe
<1>3. r = IF a.ret # OK THEN a ELSE Result(OK, Put(a.bb, index, s), index + Len(s))
  BY DEF bb_setByIndex
<1> SUFFICES /\ Safe(r) /\ r.bb.size = b.size
             /\ r.ret = OK => index + Len(s) <= r.bb.capacity
  OBVIOUS
<1> HIDE DEF a, r
<1>4. CASE a.ret = OK
  <2>1. Sound(a.bb) /\ index + Len(s) <= a.bb.capacity
    BY <1>2, <1>4 DEF Safe
  <2>2. /\ Safe(Result(OK, Put(a.bb, index, s), index + Len(s)))
        /\ Put(a.bb, index, s).size = b.size
        /\ Put(a.bb, index, s).capacity = a.bb.capacity
    BY <1>2, <2>1, PutSafe
  <2> QED
    BY <1>3, <1>4, <2>1, <2>2 DEF Result
<1>5. CASE a.ret # OK
  BY <1>2, <1>3, <1>5
<1> QED
  BY <1>4, <1>5

(* The bytes of a number. *)
LEMMA NumberBytes ==
  ASSUME NEW n \in Nat
  PROVE  UInt16Bytes(n) \in Memory /\ Len(UInt16Bytes(n)) = 2
<1>1. (n \div 256) % 256 \in 0..255 /\ n % 256 \in 0..255
  OBVIOUS
<1> QED
  BY <1>1 DEF UInt16Bytes, Memory, Byte

LEMMA LongNumberBytes ==
  ASSUME NEW n \in Nat
  PROVE  UInt32Bytes(n) \in Memory /\ Len(UInt32Bytes(n)) = 4
<1>1. n \div 65536 \in Nat /\ n % 65536 \in Nat
  OBVIOUS
<1>2. ASSUME NEW S, NEW s \in Seq(S), NEW t \in Seq(S)
      PROVE  s \o t \in Seq(S) /\ Len(s \o t) = Len(s) + Len(t)
  OBVIOUS
<1> DEFINE hi == UInt16Bytes(n \div 65536)
           lo == UInt16Bytes(n % 65536)
<1>3. hi \in Memory /\ Len(hi) = 2 /\ lo \in Memory /\ Len(lo) = 2
  BY <1>1, NumberBytes
<1>4. UInt32Bytes(n) = hi \o lo
  BY DEF UInt32Bytes
<1> HIDE DEF hi, lo
<1>5. hi \o lo \in Memory /\ Len(hi \o lo) = Len(hi) + Len(lo)
  BY <1>2, <1>3 DEF Memory
<1> QED
  BY <1>3, <1>4, <1>5

(* A word is appended or nothing is. *)
LEMMA SetUInt16Safe ==
  ASSUME NEW b, Sound(b), NEW n \in Words, NEW mem \in BOOLEAN
  PROVE  Safe(bb_setUInt16(b, n, mem))
<1> DEFINE a == bb_allocate(b, b.size, 2, mem)
           r == bb_setUInt16ByIndex(b, b.size, n, mem)
<1>1. n \in Nat /\ b.size \in Nat
  BY ByteBufferAssumption DEF Sound, gxByteBuffer
<1>2. UInt16Bytes(n) \in Memory /\ Len(UInt16Bytes(n)) = 2
  BY <1>1, NumberBytes
<1>3. /\ Safe(a) /\ a.bb.size = b.size
      /\ a.ret = OK => b.size + 2 <= a.bb.capacity
  BY <1>1, AllocateSafe
<1>4. r = IF a.ret # OK THEN a ELSE Result(OK, Put(a.bb, b.size, UInt16Bytes(n)), b.size + 2)
  BY <1>1 DEF bb_setUInt16ByIndex
<1> HIDE DEF a, r
<1>5. Safe(r) /\ (r.ret = OK => r.bb.size + 2 <= r.bb.capacity)
  <2>1. CASE a.ret = OK
    <3>1. Sound(a.bb) /\ b.size + 2 <= a.bb.capacity
      BY <1>3, <2>1 DEF Safe
    <3>2. /\ Safe(Result(OK, Put(a.bb, b.size, UInt16Bytes(n)), b.size + 2))
          /\ Put(a.bb, b.size, UInt16Bytes(n)).size = b.size
          /\ Put(a.bb, b.size, UInt16Bytes(n)).capacity = a.bb.capacity
      BY <1>1, <1>2, <1>3, <3>1, PutSafe
    <3> QED
      BY <1>4, <2>1, <3>1, <3>2 DEF Result
  <2>2. CASE a.ret # OK
    BY <1>3, <1>4, <2>2
  <2> QED
    BY <2>1, <2>2
<1> QED
  BY <1>5, AppendedSafe DEF r, bb_setUInt16

(* The end of a string lies within the memory and outside the content. *)
LEMMA AddStringSafe ==
  ASSUME NEW b, Sound(b), NEW s \in Seq(Byte), NEW mem \in BOOLEAN
  PROVE  Safe(bb_addString(b, s, mem))
<1> DEFINE t == Append(s, 0)
           a == bb_set(b, t, mem)
           e == [a.bb EXCEPT !.size = @ - 1]
<1>1. t \in Memory /\ Len(t) = Len(s) + 1 /\ Len(s) \in Nat
  BY DEF Memory, Byte
<1>2. /\ Safe(a) /\ a.bb.position = b.position
      /\ a.ret = OK => a.bb.size = b.size + Len(t)
  BY <1>1, SetSafe
<1>6. b.size \in Nat /\ b.position \in Nat /\ b.position <= b.size
  BY DEF Sound, gxByteBuffer
<1>3. bb_addString(b, s, mem) = IF a.ret = OK THEN [a EXCEPT !.bb.size = @ - 1] ELSE a
  BY DEF bb_addString
<1> HIDE DEF a, t
<1>4. CASE a.ret = OK
  <2>1. Sound(e) /\ e.data = a.bb.data
    BY <1>1, <1>2, <1>4, <1>6 DEF Safe, Sound, gxByteBuffer
  <2>2. /\ bb_addString(b, s, mem).bb = e /\ bb_addString(b, s, mem).ret = a.ret
        /\ bb_addString(b, s, mem).touched = a.touched
    BY <1>3, <1>4
  <2> QED
    BY <1>2, <2>1, <2>2 DEF Safe
<1>5. CASE a.ret # OK
  BY <1>2, <1>3, <1>5
<1> QED
  BY <1>4, <1>5

(* Reserving more than the content leaves all of it, and gives the room.   *)
LEMMA CapacitySafe ==
  ASSUME NEW b, Sound(b), NEW n \in Nat, n >= b.size, NEW mem \in BOOLEAN
  PROVE  /\ Safe(bb_capacity(b, n, mem))
         /\ bb_capacity(b, n, mem).ret = OK => n <= bb_capacity(b, n, mem).bb.capacity
         /\ bb_capacity(b, n, mem).bb.size = b.size
         /\ bb_capacity(b, n, mem).bb.position = b.position
<1> DEFINE r == bb_capacity(b, n, mem)
           e == [Realloc(b, n) EXCEPT !.size = Lower(@, n)]
           z == [b EXCEPT !.data = <<>>, !.capacity = 0, !.size = 0]
<1>1. b \in gxByteBuffer /\ b.size \in Nat /\ b.position \in Nat
  BY DEF Sound, gxByteBuffer
<1> SUFFICES /\ Safe(r)
             /\ r.ret = OK => n <= r.bb.capacity
             /\ r.bb.size = b.size /\ r.bb.position = b.position
  OBVIOUS
<1> HIDE DEF r
<1>2. CASE b.attached
  <2>1. r = Unchanged(IF b.capacity < n THEN OUTOFMEMORY ELSE OK, b)
    BY <1>2 DEF r, bb_capacity
  <2>2. Safe(r)
    BY <2>1, UnchangedSafe
  <2> QED
    BY <1>1, <2>1, <2>2 DEF Unchanged, Result, OK, OUTOFMEMORY, gxByteBuffer
<1>3. CASE ~ b.attached /\ n = 0
  <2>1. r = Unchanged(OK, z)
    BY <1>3 DEF r, bb_capacity
  <2>2. b.size = 0 /\ b.position = 0
    BY <1>1, <1>3 DEF Sound
  <2>3. <<>> \in Memory /\ Len(<<>>) = 0
    BY DEF Memory
  <2>4. /\ z \in gxByteBuffer /\ z.size = 0 /\ z.position = 0 /\ z.capacity = 0
        /\ z.data = <<>>
    BY <1>1, <2>2, <2>3 DEF gxByteBuffer
  <2> HIDE DEF z
  <2>5. Sound(z)
    BY <2>3, <2>4 DEF Sound
  <2>6. Safe(r)
    BY <2>1, <2>5, UnchangedSafe
  <2> QED
    BY <1>3, <2>1, <2>2, <2>4, <2>6 DEF Unchanged, Result
<1>4. CASE ~ b.attached /\ n # 0 /\ ~ mem
  <2>1. r = Unchanged(OUTOFMEMORY, b)
    BY <1>4 DEF r, bb_capacity
  <2> QED
    BY <2>1, UnchangedSafe DEF Unchanged, Result, OK, OUTOFMEMORY
<1>5. CASE ~ b.attached /\ n # 0 /\ mem
  <2>1. r = Unchanged(OK, e)
    BY <1>5 DEF r, bb_capacity
  <2> DEFINE q == Realloc(b, n)
  <2>4. /\ q \in gxByteBuffer /\ Len(q.data) = n /\ q.capacity = n
        /\ q.size = b.size /\ q.position = b.position
    BY <1>1, ReallocFacts
  <2>5. Lower(q.size, n) = q.size
    BY <1>1, <2>4 DEF Lower
  <2> HIDE DEF q
  <2>6. /\ e \in gxByteBuffer /\ e.data = q.data /\ e.capacity = n
        /\ e.size = b.size /\ e.position = b.position
    BY <2>4, <2>5 DEF gxByteBuffer, q
  <2> HIDE DEF e
  <2>2. /\ Sound(e) /\ e.size = b.size /\ e.position = b.position /\ e.capacity = n
    BY <1>1, <2>4, <2>6 DEF Sound
  <2>3. Safe(r)
    BY <2>1, <2>2, UnchangedSafe
  <2> QED
    BY <1>1, <2>1, <2>2, <2>3 DEF Unchanged, Result
<1> QED
  BY <1>2, <1>3, <1>4, <1>5

(* Content is moved within what the buffer holds or may hold. *)
LEMMA MoveSafe ==
  ASSUME NEW b, Sound(b), NEW src \in Nat, NEW dest \in Nat, NEW count \in Nat,
         src + count <= b.size, NEW mem \in BOOLEAN
  PROVE  /\ Safe(bb_move(b, src, dest, count, mem))
         /\ (bb_move(b, src, dest, count, mem).ret = OK /\ count # 0)
              => bb_move(b, src, dest, count, mem).bb.size = dest + count
<1> DEFINE room  == src <= dest /\ b.capacity < dest + count
           a     == IF room THEN bb_capacity(b, dest + count, mem) ELSE Unchanged(OK, b)
           c     == Content(a.bb, src, src + count)
           q     == Put(a.bb, dest, c)
           p     == Lower(b.position, dest + count)
           moved == [q EXCEPT !.size = dest + count, !.position = p]
           reach == (IF src > dest THEN src ELSE dest) + count
           r     == bb_move(b, src, dest, count, mem)
<1> SUFFICES Safe(r) /\ ((r.ret = OK /\ count # 0) => r.bb.size = dest + count)
  OBVIOUS
<1>1. b \in gxByteBuffer /\ b.size \in Nat /\ b.position \in Nat /\ b.capacity \in Nat
  BY DEF Sound, gxByteBuffer
<1>2. r = IF src > dest /\ b.size < dest + count THEN Unchanged(INVALID_PARAMETER, b)
          ELSE IF room /\ b.attached THEN Unchanged(INVALID_PARAMETER, b)
          ELSE IF a.ret # OK \/ count = 0 THEN a
          ELSE Result(OK, moved, reach)
  BY DEF bb_move
<1>3. Safe(a) /\ (a.ret = OK => dest + count <= a.bb.capacity /\ a.bb.size = b.size)
  <2>1. CASE room
    <3>1. dest + count \in Nat /\ dest + count >= b.size
      BY <1>1, <2>1 DEF Sound
    <3>2. a = bb_capacity(b, dest + count, mem)
      BY <2>1
    <3> HIDE DEF a, room
    <3>3. /\ Safe(a) /\ a.bb.size = b.size
          /\ a.ret = OK => dest + count <= a.bb.capacity
      BY <3>1, <3>2, CapacitySafe
    <3> QED
      BY <3>3
  <2>2. CASE ~ room
    <3>1. a = Unchanged(OK, b)
      BY <2>2
    <3>2. dest + count <= b.capacity
      BY <1>1, <2>2 DEF Sound
    <3> HIDE DEF a, room
    <3>3. Safe(a)
      BY <3>1, UnchangedSafe
    <3>4. a.bb = b
      BY <3>1 DEF Unchanged, Result
    <3> QED
      BY <3>2, <3>3, <3>4
  <2> QED
    BY <2>1, <2>2
<1>4. Safe(Unchanged(INVALID_PARAMETER, b)) /\ Unchanged(INVALID_PARAMETER, b).ret # OK
  BY UnchangedSafe DEF Unchanged, Result, OK, INVALID_PARAMETER
<1> HIDE DEF room, a
<1>5. ASSUME a.ret = OK, count # 0
      PROVE  Safe(Result(OK, moved, reach)) /\ moved.size = dest + count
  <2>1. Sound(a.bb) /\ a.bb \in gxByteBuffer
    BY <1>3 DEF Safe, Sound
  <2>2. c \in Memory /\ Len(c) = count
    BY <2>1, ContentType
  <2> HIDE DEF c
  <2>3. /\ Safe(Result(OK, q, dest + count)) /\ q.position = a.bb.position
        /\ q.capacity = a.bb.capacity
    BY <1>3, <1>5, <2>1, <2>2, PutSafe
  <2>4. Sound(q) /\ dest + count <= q.capacity /\ q.capacity = Len(q.data)
    BY <1>3, <1>5, <2>3 DEF Safe, Sound, Result
  <2> HIDE DEF q
  <2>5. p \in Nat /\ p <= dest + count /\ dest + count \in Nat
    BY <1>1 DEF Lower
  <2> HIDE DEF p
  <2>6. /\ moved \in gxByteBuffer /\ moved.data = q.data /\ moved.capacity = q.capacity
        /\ moved.size = dest + count /\ moved.position = p
    BY <2>4, <2>5 DEF Sound, gxByteBuffer
  <2> HIDE DEF moved
  <2>7. Sound(moved)
    BY <2>4, <2>5, <2>6 DEF Sound
  <2>8. a.bb.size = b.size /\ b.size <= q.capacity
    BY <1>3, <1>5, <2>1, <2>3 DEF Sound
  <2>9. reach \in Nat /\ reach <= Len(moved.data)
    BY <1>1, <2>4, <2>6, <2>8 DEF Sound, gxByteBuffer
  <2> QED
    BY <2>6, <2>7, <2>9 DEF Safe, Result
<1> HIDE DEF moved, reach, r
<1> QED
  BY <1>2, <1>3, <1>4, <1>5 DEF Result

LEMMA ClearSafe ==
  ASSUME NEW b, Sound(b)
  PROVE  Sound(bb_clear(b)) /\ bb_clear(b).size = 0
<1>1. <<>> \in Memory /\ Len(<<>>) = 0
  BY DEF Memory
<1>2. Sound(BYTE_BUFFER_INIT) /\ BYTE_BUFFER_INIT.size = 0
  BY <1>1 DEF Sound, BYTE_BUFFER_INIT, gxByteBuffer
<1>3. b \in gxByteBuffer /\ b.capacity >= 0
  BY DEF Sound, gxByteBuffer
<1> DEFINE e == [b EXCEPT !.size = 0, !.position = 0]
<1>6. /\ e \in gxByteBuffer /\ e.size = 0 /\ e.position = 0
      /\ e.capacity = b.capacity /\ e.data = b.data
  BY <1>3 DEF gxByteBuffer
<1>4. Sound(e) /\ e.size = 0
  BY <1>3, <1>6 DEF Sound
<1> HIDE DEF e
<1>5. bb_clear(b) = IF b.attached THEN e ELSE BYTE_BUFFER_INIT
  BY DEF bb_clear, e
<1> QED
  BY <1>2, <1>4, <1>5

LEMMA AttachSafe ==
  ASSUME NEW s \in Memory, NEW n \in Nat, n <= Len(s)
  PROVE  Sound(bb_attach(s, n)) /\ bb_attach(s, n).size = n
<1> DEFINE e == bb_attach(s, n)
<1>1. /\ e \in gxByteBuffer /\ e.size = n /\ e.position = 0
      /\ e.capacity = Len(s) /\ e.data = s
  BY DEF bb_attach, gxByteBuffer, Memory
<1> QED
  BY <1>1 DEF Sound

(* Bytes are inserted in front of a content nothing of which was read. *)
LEMMA InsertSafe ==
  ASSUME NEW b, Sound(b), b.position = 0, NEW s \in Memory, NEW mem \in BOOLEAN
  PROVE  Safe(bb_insert(s, b, mem))
<1> DEFINE a == bb_capacity(b, b.size + Len(s), mem)
           m == bb_move(a.bb, 0, Len(s), b.size, mem)
           r == bb_insert(s, b, mem)
<1>1. b.size \in Nat /\ Len(s) \in Nat /\ 0 \in Nat
  BY DEF Sound, gxByteBuffer, Memory
<1>2. r = IF b.size = 0 THEN bb_set(b, s, mem)
          ELSE IF a.ret # OK THEN a
          ELSE IF m.ret # OK THEN m
          ELSE Result(OK, Put(m.bb, 0, s), m.touched)
  BY DEF bb_insert
<1>3. Safe(a) /\ a.bb.size = b.size
  BY <1>1, CapacitySafe
<1>4. Sound(a.bb) /\ 0 + b.size <= a.bb.size
  BY <1>1, <1>3 DEF Safe
<1> HIDE DEF a
<1>5. /\ Safe(m)
      /\ (m.ret = OK /\ b.size # 0) => m.bb.size = Len(s) + b.size
  <2> DEFINE c == a.bb
             k == Len(s)
             z == b.size
  <2>1. Sound(c) /\ 0 + z <= c.size /\ k \in Nat /\ z \in Nat /\ 0 \in Nat
    BY <1>1, <1>4
  <2>2. m = bb_move(c, 0, k, z, mem)
    OBVIOUS
  <2> HIDE DEF c, k, z, m
  <2>3. Safe(m) /\ ((m.ret = OK /\ z # 0) => m.bb.size = k + z)
    BY <2>1, <2>2, MoveSafe
  <2> QED
    BY <2>3 DEF k, z
<1> HIDE DEF m
<1>6. ASSUME m.ret = OK, b.size # 0
      PROVE  Safe(Result(OK, Put(m.bb, 0, s), m.touched))
  <2>1. Sound(m.bb) /\ m.bb.capacity \in Nat /\ m.bb.size <= m.bb.capacity
    BY <1>5 DEF Safe, Sound, gxByteBuffer
  <2>2. 0 + Len(s) <= m.bb.capacity
    BY <1>1, <1>5, <1>6, <2>1
  <2>3. Sound(Put(m.bb, 0, s)) /\ Len(Put(m.bb, 0, s).data) = m.bb.capacity
    <3>1. Safe(Result(OK, Put(m.bb, 0, s), 0 + Len(s))) /\ Put(m.bb, 0, s).capacity = m.bb.capacity
      BY <1>1, <2>1, <2>2, PutSafe
    <3> QED
      BY <3>1 DEF Safe, Sound, Result
  <2>4. m.touched \in Nat /\ m.touched <= m.bb.capacity
    BY <1>5, <2>1 DEF Safe, Sound
  <2> QED
    BY <2>3, <2>4 DEF Safe, Result
<1>7. Safe(bb_set(b, s, mem))
  BY SetSafe
<1> HIDE DEF r
<1>8. Safe(r)
  BY <1>2, <1>3, <1>5, <1>6, <1>7
<1> QED
  BY <1>8 DEF r

-----------------------------------------------------------------------------
(* The steps. *)

(* What every step keeps. Below MaxSize no difference of numbers wraps.    *)
BInv ==
  /\ bb \in [Buffers -> gxByteBuffer]
  /\ \A b \in Buffers : Sound(bb[b]) /\ bb[b].size <= MaxSize[b]
  /\ touched \in [Buffers -> Nat]
  /\ \A b \in Buffers : touched[b] <= Len(bb[b].data)
  /\ ret \in {OK, OUTOFMEMORY, INVALID_PARAMETER}
  /\ got \in Memory
  /\ excused \in BOOLEAN

LEMMA EmptyMemory == <<>> \in Memory /\ Len(<<>>) = 0
BY DEF Memory

(* A call replaces one buffer by a safe result. *)
LEMMA LeftKeeps ==
  ASSUME BInv, NEW b \in Buffers, NEW r, Safe(r), Left(b, r), excused' \in BOOLEAN
  PROVE  BInv'
<1>1. /\ r.bb \in gxByteBuffer /\ r.bb.size <= MaxSize[b]
      /\ r.touched \in Nat /\ r.touched <= Len(r.bb.data)
  BY DEF Safe, Sound, Left
<1>2. bb' = [bb EXCEPT ![b] = r.bb] /\ touched' = [touched EXCEPT ![b] = r.touched]
  BY DEF Left
<1>3. bb' \in [Buffers -> gxByteBuffer] /\ touched' \in [Buffers -> Nat]
  BY <1>1, <1>2 DEF BInv
<1>4. ASSUME NEW c \in Buffers
      PROVE  Sound(bb'[c]) /\ bb'[c].size <= MaxSize[c] /\ touched'[c] <= Len(bb'[c].data)
  <2>1. CASE c = b
    BY <1>1, <1>2, <2>1 DEF BInv, Safe
  <2>2. CASE c # b
    BY <1>2, <2>2 DEF BInv
  <2> QED
    BY <2>1, <2>2
<1>5. ret' \in {OK, OUTOFMEMORY, INVALID_PARAMETER} /\ got' \in Memory
  BY EmptyMemory DEF Left, Safe
<1> QED
  BY <1>3, <1>4, <1>5 DEF BInv, Sound

(* A refused read changes nothing. *)
LEMMA RefusedKeeps ==
  ASSUME BInv, NEW c \in {OK, OUTOFMEMORY, INVALID_PARAMETER}, Refused(c)
  PROVE  BInv'
BY EmptyMemory DEF BInv, Refused, Sound

(* A read within the content touches only memory that is there, whether    *)
(* it moves the position past what it delivers or leaves it.               *)
LEMMA ReadKeeps ==
  ASSUME BInv, NEW b \in Buffers, NEW index \in Nat, NEW n \in Nat,
         index + n <= bb[b].size, got' \in Memory, ret' = OK, excused' = TRUE,
         touched' = [touched EXCEPT ![b] = index + n],
         bb' = bb \/ (index = bb[b].position /\ Advance(b, n))
  PROVE  BInv'
<1>1. /\ Sound(bb[b]) /\ bb[b] \in gxByteBuffer /\ bb[b].size <= MaxSize[b]
      /\ bb[b].size \in Nat /\ bb[b].position \in Nat
  BY DEF BInv, Sound, gxByteBuffer
<1>2. index + n \in Nat /\ index + n <= Len(bb[b].data)
  BY <1>1 DEF Sound, gxByteBuffer
<1>3. touched' \in [Buffers -> Nat]
  BY <1>2 DEF BInv
<1>4. CASE bb' = bb
  BY <1>2, <1>3, <1>4 DEF BInv, Sound
<1>5. CASE index = bb[b].position /\ Advance(b, n)
  <2> DEFINE e == [bb[b] EXCEPT !.position = index + n]
  <2>1. bb' = [bb EXCEPT ![b] = e]
    BY <1>5 DEF Advance
  <2>2. /\ e \in gxByteBuffer /\ e.position = index + n /\ e.size = bb[b].size
        /\ e.capacity = bb[b].capacity /\ e.data = bb[b].data
    BY <1>1, <1>2 DEF gxByteBuffer
  <2> HIDE DEF e
  <2>3. Sound(e)
    BY <1>1, <2>2 DEF Sound
  <2>4. bb' \in [Buffers -> gxByteBuffer]
    BY <2>1, <2>2 DEF BInv
  <2>5. ASSUME NEW c \in Buffers
        PROVE  Sound(bb'[c]) /\ bb'[c].size <= MaxSize[c] /\ touched'[c] <= Len(bb'[c].data)
    <3>1. CASE c = b
      BY <1>1, <1>2, <2>1, <2>2, <2>3, <3>1 DEF BInv
    <3>2. CASE c # b
      BY <2>1, <3>2 DEF BInv
    <3> QED
      BY <3>1, <3>2
  <2> QED
    BY <1>3, <2>4, <2>5 DEF BInv, Sound
<1> QED
  BY <1>4, <1>5

(* On a sound buffer bb_available is the number of unread bytes. *)
LEMMA AvailableUnread ==
  ASSUME BInv, NEW b \in Buffers
  PROVE  /\ Available(bb[b]) = bb[b].size - bb[b].position
         /\ Available(bb[b]) \in Nat
         /\ bb[b].size \in Nat /\ bb[b].position \in Nat
         /\ bb[b] \in gxByteBuffer /\ Sound(bb[b])
<1> DEFINE k == bb[b].size - bb[b].position
<1>1. /\ bb[b].size \in Nat /\ bb[b].position \in Nat /\ bb[b].size <= MaxSize[b]
      /\ bb[b].position <= bb[b].size /\ bb[b] \in gxByteBuffer /\ Sound(bb[b])
  BY DEF BInv, Sound, gxByteBuffer
<1>2. k \in Nat /\ k < UInt32Mod /\ UInt32Mod \in Nat
  BY <1>1, ByteBufferAssumption
<1>3. Available(bb[b]) = k % UInt32Mod
  BY DEF Available
<1> HIDE DEF k
<1>4. k % UInt32Mod = k
  BY <1>2, SmallRemainder
<1> QED
  BY <1>1, <1>2, <1>3, <1>4 DEF k

LEMMA StringFacts ==
  ASSUME NEW s \in Strings
  PROVE  /\ s \in Seq(Byte) /\ s \in Memory /\ Len(s) \in Nat \ {0}
         /\ s[1] \in Byte /\ <<s[1]>> \in Memory /\ Len(<<s[1]>>) = 1
<1>1. s \in Seq(Byte) /\ s # <<>>
  BY ByteBufferAssumption
<1>2. s \in Memory
  BY <1>1 DEF Memory
<1>3. Len(s) \in Nat \ {0}
  BY <1>1
<1>4. s[1] \in Byte
  BY <1>1, <1>3
<1> QED
  BY <1>1, <1>2, <1>3, <1>4 DEF Memory

(* Appends, patches and reservations. *)
LEMMA WritesKeep ==
  ASSUME BInv, NEW b \in Buffers, NEW mem \in BOOLEAN,
         \/ SetBytes(b, mem) \/ SetString(b, mem)
         \/ SetUInt8(b, mem) \/ SetUInt16(b, mem) \/ SetUInt32(b, mem)
         \/ SetUInt8ByIndex(b, mem) \/ Reserve(b, mem) \/ Insert(b, mem)
  PROVE  BInv'
<1> DEFINE x == bb[b]
<1>1. /\ Sound(x) /\ x.size \in Nat /\ x.position \in Nat
      /\ x.attached \in BOOLEAN
  BY DEF BInv, Sound, gxByteBuffer
<1> HIDE DEF x
<1>2. ASSUME NEW r, Safe(r), Growing(b, r, mem) PROVE BInv'
  <2>1. Left(b, r) /\ excused' \in BOOLEAN
    BY <1>1, <1>2 DEF Growing
  <2> QED
    BY <1>2, <2>1, LeftKeeps
<1>3. ASSUME NEW r, Safe(r), Call(b, r) PROVE BInv'
  <2>1. Left(b, r) /\ excused' \in BOOLEAN
    BY <1>3 DEF Call
  <2> QED
    BY <1>3, <2>1, LeftKeeps
<1>4. CASE SetBytes(b, mem)
  <2>1. PICK s \in Strings : Growing(b, bb_set(x, s, mem), mem)
    BY <1>4 DEF SetBytes, x
  <2> QED
    BY <1>1, <1>2, <2>1, SetSafe, StringFacts
<1>5. CASE SetString(b, mem)
  <2>1. PICK s \in Strings : Growing(b, bb_addString(x, s, mem), mem)
    BY <1>5 DEF SetString, x
  <2> QED
    BY <1>1, <1>2, <2>1, AddStringSafe, StringFacts
<1>6. CASE SetUInt8(b, mem)
  <2>1. PICK s \in Strings : Growing(b, bb_setUInt8(x, s[1], mem), mem)
    BY <1>6 DEF SetUInt8, x
  <2> DEFINE t == <<s[1]>>
             r == bb_setByIndex(x, x.size, t, mem)
  <2>4. t \in Memory /\ Len(t) = 1
    BY StringFacts
  <2>5. bb_setUInt8(x, s[1], mem) = Appended(r, 1)
    BY DEF bb_setUInt8
  <2> HIDE DEF t
  <2>2. Safe(r) /\ r.bb.size = x.size /\ (r.ret = OK => x.size + 1 <= r.bb.capacity)
    <3>1. x.size <= x.size /\ x.size \in Nat
      BY <1>1
    <3>2. Safe(r) /\ r.bb.size = x.size /\ (r.ret = OK => x.size + Len(t) <= r.bb.capacity)
      BY <1>1, <2>4, <3>1, SetByIndexSafe, Zenon
    <3> QED
      BY <2>4, <3>2
  <2> HIDE DEF r
  <2>3. Safe(bb_setUInt8(x, s[1], mem))
    BY <2>2, <2>5, AppendedSafe
  <2> QED
    BY <1>2, <2>1, <2>3
<1>7. CASE SetUInt16(b, mem)
  <2>1. PICK n \in Words : Growing(b, bb_setUInt16(x, n, mem), mem)
    BY <1>7 DEF SetUInt16, x
  <2> QED
    BY <1>1, <1>2, <2>1, SetUInt16Safe
<1>8. CASE SetUInt32(b, mem)
  <2>1. PICK n \in LongWords : Growing(b, bb_setUInt32(x, n, mem), mem)
    BY <1>8 DEF SetUInt32, x
  <2>2. n \in Nat
    BY ByteBufferAssumption
  <2>3. UInt32Bytes(n) \in Memory /\ Len(UInt32Bytes(n)) = 4
    BY <2>2, LongNumberBytes
  <2> DEFINE t == UInt32Bytes(n)
             r == bb_setByIndex(x, x.size, t, mem)
  <2>6. bb_setUInt32(x, n, mem) = Appended(r, 4)
    BY DEF bb_setUInt32
  <2> HIDE DEF t
  <2>4. Safe(r) /\ r.bb.size = x.size /\ (r.ret = OK => x.size + 4 <= r.bb.capacity)
    <3>1. x.size <= x.size /\ x.size \in Nat /\ t \in Memory /\ Len(t) = 4
      BY <1>1, <2>3 DEF t
    <3>2. Safe(r) /\ r.bb.size = x.size /\ (r.ret = OK => x.size + Len(t) <= r.bb.capacity)
      BY <1>1, <3>1, SetByIndexSafe, Zenon
    <3> QED
      BY <3>1, <3>2
  <2> HIDE DEF r
  <2>5. Safe(bb_setUInt32(x, n, mem))
    BY <2>4, <2>6, AppendedSafe
  <2> QED
    BY <1>2, <2>1, <2>5
<1>9. CASE SetUInt8ByIndex(b, mem)
  <2>1. PICK index \in x.position..(x.size - 1), s \in Strings :
          Call(b, bb_setByIndex(x, index, <<s[1]>>, mem))
    BY <1>9 DEF SetUInt8ByIndex, x
  <2>2. index \in Nat /\ index <= x.size
    BY <1>1
  <2>3. Safe(bb_setByIndex(x, index, <<s[1]>>, mem))
    BY <1>1, <2>2, StringFacts, SetByIndexSafe
  <2> QED
    BY <1>3, <2>1, <2>3
<1>10. CASE Reserve(b, mem)
  <2>1. PICK s \in Strings : Call(b, bb_capacity(x, x.size + Len(s), mem))
    BY <1>10 DEF Reserve, x
  <2>2. x.size + Len(s) \in Nat /\ x.size + Len(s) >= x.size
    BY <1>1, StringFacts
  <2> QED
    BY <1>1, <1>3, <2>1, <2>2, CapacitySafe
<1>11. CASE Insert(b, mem)
  <2>1. PICK s \in Strings : Call(b, bb_insert(s, x, mem))
    BY <1>11 DEF Insert, x
  <2>2. x.position = 0
    BY <1>11 DEF Insert, x
  <2> QED
    BY <1>1, <1>3, <2>1, <2>2, InsertSafe, StringFacts
<1> QED
  BY <1>4, <1>5, <1>6, <1>7, <1>8, <1>9, <1>10, <1>11

(* Clearing, declaring, attaching, closing up and reading. *)
LEMMA OthersKeep ==
  ASSUME BInv, NEW b \in Buffers,
         \/ Clear(b) \/ Declare(b) \/ Attach(b) \/ Close(b)
         \/ GetUInt(b) \/ Get(b) \/ GetWhenComplete(b) \/ GetUInt8ByIndex(b)
         \/ Compare(b)
  PROVE  BInv'
<1> DEFINE x == bb[b]
           v == Available(bb[b])
<1>1. /\ Sound(x) /\ x \in gxByteBuffer /\ x.size \in Nat /\ x.position \in Nat
      /\ v = x.size - x.position /\ v \in Nat /\ x.position <= x.size
  BY AvailableUnread DEF Sound
<1> HIDE DEF x, v
<1>2. ASSUME NEW r, Safe(r), Call(b, r) PROVE BInv'
  <2>1. Left(b, r) /\ excused' \in BOOLEAN
    BY <1>2 DEF Call
  <2> QED
    BY <1>2, <2>1, LeftKeeps
<1>3. ASSUME NEW y, Sound(y), Call(b, Unchanged(OK, y)) PROVE BInv'
  BY <1>2, <1>3, UnchangedSafe
<1>4. ASSUME NEW index \in Nat, NEW n \in Nat, index + n <= x.size, Deliver(b, index, n),
             UNCHANGED bb \/ (index = x.position /\ Advance(b, n))
      PROVE  BInv'
  <2>1. got' \in Memory /\ ret' = OK /\ excused' = TRUE
    BY <1>1, <1>4, ContentType DEF Deliver, x
  <2>2. touched' = [touched EXCEPT ![b] = index + n]
    BY <1>4 DEF Deliver
  <2> QED
    BY <1>4, <2>1, <2>2, ReadKeeps DEF x
<1>5. CASE Clear(b)
  BY <1>1, <1>3, <1>5, ClearSafe DEF Clear, x
<1>6. CASE Declare(b)
  <2>1. Sound(BYTE_BUFFER_INIT)
    BY EmptyMemory DEF Sound, BYTE_BUFFER_INIT, gxByteBuffer
  <2> QED
    BY <1>3, <1>6, <2>1 DEF Declare
<1>7. CASE Attach(b)
  <2>1. PICK s \in Strings :
          \/ Call(b, Unchanged(OK, bb_attach([i \in DOMAIN s |-> Undef], 0)))
          \/ Call(b, Unchanged(OK, bb_attach(s, Len(s))))
    BY <1>7 DEF Attach
  <2>2. s \in Memory /\ Len(s) \in Nat
    BY StringFacts
  <2> DEFINE t == [i \in DOMAIN s |-> Undef]
  <2>3. t \in Memory /\ 0 <= Len(t)
    <3>1. DOMAIN s = 1..Len(s) /\ t \in [1..Len(s) -> Byte \cup {Undef}]
      BY <2>2 DEF Memory
    <3> QED
      BY <2>2, <3>1, SequenceOf DEF Memory
  <2> HIDE DEF t
  <2>4. Sound(bb_attach(t, 0)) /\ Sound(bb_attach(s, Len(s)))
    BY <2>2, <2>3, AttachSafe
  <2> QED
    BY <1>3, <2>1, <2>4 DEF t
<1>8. CASE Close(b)
  <2>1. PICK index \in 0..x.position :
          LET r == bb_move(x, x.position, index, v, TRUE) IN
          IF v = 0 THEN Call(b, Unchanged(OK, bb_clear(x)))
          ELSE Call(b, [r EXCEPT !.bb.position = index])
    BY <1>8 DEF Close, x, v
  <2> DEFINE r == bb_move(x, x.position, index, v, TRUE)
             y == [r.bb EXCEPT !.position = index]
             c == [r EXCEPT !.bb.position = index]
  <2>2. CASE v = 0
    BY <1>1, <1>3, <2>1, <2>2, ClearSafe
  <2>3. CASE v # 0
    <3>1. index \in Nat /\ index <= x.position /\ x.position + v <= x.size
      BY <1>1
    <3>2. Safe(r) /\ (r.ret = OK => r.bb.size = index + v)
      <4> DEFINE p == x.position
      <4>1. p \in Nat /\ p + v <= x.size /\ TRUE \in BOOLEAN
        BY <1>1, <3>1
      <4>2. r = bb_move(x, p, index, v, TRUE)
        OBVIOUS
      <4> HIDE DEF p, r
      <4>3. Safe(r) /\ ((r.ret = OK /\ v # 0) => r.bb.size = index + v)
        <5> DEFINE m == TRUE
        <5>1. /\ Sound(x) /\ p \in Nat /\ index \in Nat /\ v \in Nat /\ p + v <= x.size
              /\ m \in BOOLEAN
          BY <1>1, <3>1, <4>1
        <5>2. r = bb_move(x, p, index, v, m)
          BY <4>2
        <5> HIDE DEF m
        <5> QED
          BY <5>1, <5>2, MoveSafe, Zenon
      <4> QED
        BY <2>3, <4>3
    <3>3. Call(b, c)
      BY <2>1, <2>3
    <3> HIDE DEF r
    <3>4. r.ret = OK
      <4>1. x.size \in Nat /\ x.capacity \in Nat /\ x.size <= x.capacity
        BY <1>1 DEF Sound, gxByteBuffer
      <4>2. ~ (x.size < index + v) /\ ~ (x.capacity < index + v)
        BY <1>1, <3>1, <4>1
      <4> QED
        BY <4>2 DEF r, bb_move, Unchanged, Result
    <3>5. /\ y \in gxByteBuffer /\ y.size = r.bb.size /\ y.position = index
          /\ y.capacity = r.bb.capacity /\ y.data = r.bb.data
      BY <3>1, <3>2 DEF Safe, Sound, gxByteBuffer
    <3>6. c.bb = y /\ c.ret = r.ret /\ c.touched = r.touched
      <4>1. r = [ret |-> r.ret, bb |-> r.bb, touched |-> r.touched]
        BY DEF r, bb_move, bb_capacity, Unchanged, Result
      <4> QED
        BY <4>1
    <3> HIDE DEF y, c
    <3>7. Sound(y)
      BY <1>1, <3>1, <3>2, <3>4, <3>5 DEF Safe, Sound
    <3>8. Safe(c)
      BY <3>2, <3>5, <3>6, <3>7 DEF Safe
    <3> QED
      BY <1>2, <3>3, <3>8
  <2> QED
    BY <2>2, <2>3
<1>9. CASE GetUInt(b)
  <2>1. PICK n \in {1, 2, 4} :
          \/ Refused(OUTOFMEMORY)
          \/ /\ x.position + n <= x.size
             /\ Deliver(b, x.position, n) /\ Advance(b, n)
    BY <1>9 DEF GetUInt, x
  <2> QED
    BY <1>1, <1>4, <2>1, RefusedKeeps
<1>10. CASE Get(b)
  <2>1. PICK n \in 1..MaxSize[b] :
          \/ Refused(OUTOFMEMORY)
          \/ v >= n /\ Deliver(b, x.position, n) /\ Advance(b, n)
    BY <1>10 DEF Get, x, v
  <2>2. n \in Nat
    BY ByteBufferAssumption
  <2> QED
    BY <1>1, <1>4, <2>1, <2>2, RefusedKeeps
<1>11. CASE GetWhenComplete(b)
  <2>1. Refused(OK) \/ (v >= 4 /\ Deliver(b, x.position, 4) /\ Advance(b, 4))
    BY <1>11 DEF GetWhenComplete, x, v
  <2> QED
    BY <1>1, <1>4, <2>1, RefusedKeeps
<1>12. CASE GetUInt8ByIndex(b)
  <2>1. PICK index \in x.position..(x.size - 1) : Deliver(b, index, 1) /\ UNCHANGED bb
    BY <1>12 DEF GetUInt8ByIndex, x
  <2>2. index \in Nat /\ index + 1 <= x.size
    BY <1>1
  <2> QED
    BY <1>4, <2>1, <2>2
<1>13. CASE Compare(b)
  <2>1. PICK s \in Strings :
          \/ Refused(OK)
          \/ /\ v = Len(s)
             /\ UNCHANGED bb \/ Advance(b, Len(s))
             /\ touched' = [touched EXCEPT ![b] = x.position + Len(s)]
             /\ ret' = OK /\ got' = <<>> /\ excused' = TRUE
    BY <1>13 DEF Compare, x, v
  <2>2. CASE Refused(OK)
    BY <2>2, RefusedKeeps
  <2>3. CASE ~ Refused(OK)
    <3>1. Len(s) \in Nat /\ x.position + Len(s) <= x.size
      BY <1>1, <2>1, <2>3, StringFacts
    <3> QED
      BY <1>1, <2>1, <2>3, <3>1, EmptyMemory, ReadKeeps DEF x
  <2> QED
    BY <2>2, <2>3
<1> QED
  BY <1>5, <1>6, <1>7, <1>8, <1>9, <1>10, <1>11, <1>12, <1>13

(* Bytes copied from one buffer to another. *)
LEMMA CopyKeeps ==
  ASSUME BInv, NEW b \in Buffers, NEW c \in Buffers, b # c, NEW mem \in BOOLEAN,
         Copy(b, c, mem)
  PROVE  BInv'
<1> DEFINE x == bb[b]
<1>1. /\ Sound(x) /\ x \in gxByteBuffer /\ x.size \in Nat /\ x.position \in Nat
      /\ Available(x) = x.size - x.position /\ Available(x) \in Nat
      /\ x.size <= MaxSize[b] /\ x.position <= x.size
  BY AvailableUnread DEF Sound, BInv
<1>2. Sound(bb[c]) /\ bb[c].attached \in BOOLEAN
  BY DEF BInv, Sound, gxByteBuffer
<1>3. PICK n \in 1..Available(x) :
        LET last == x.position + n
            r    == bb_set(bb[c], Content(x, x.position, last), mem) IN
        /\ r.bb.size <= MaxSize[c]
        /\ bb' = [bb EXCEPT ![b].position = IF r.ret = OK THEN last ELSE @, ![c] = r.bb]
        /\ touched' = [touched EXCEPT ![b] = last, ![c] = r.touched]
        /\ ret' = r.ret /\ got' = <<>> /\ excused' = (bb[c].attached \/ ~ mem)
  BY DEF Copy
<1> DEFINE last == x.position + n
           s    == Content(x, x.position, last)
           r    == bb_set(bb[c], s, mem)
           at   == IF r.ret = OK THEN last ELSE x.position
           e    == [x EXCEPT !.position = at]
<1>4. n \in Nat /\ last \in Nat /\ last <= x.size /\ last <= Len(x.data)
  BY <1>1 DEF Sound, gxByteBuffer
<1>5. s \in Memory
  BY <1>1, <1>4, ContentType
<1>6. Safe(r)
  BY <1>2, <1>5, SetSafe
<1>7. /\ r.bb.size <= MaxSize[c]
      /\ touched' = [touched EXCEPT ![b] = last, ![c] = r.touched]
      /\ ret' = r.ret /\ got' = <<>> /\ excused' \in BOOLEAN
  BY <1>2, <1>3
<1>8. bb' = [bb EXCEPT ![b] = e, ![c] = r.bb]
  BY <1>3
<1> HIDE DEF r, s, last
<1>9. at \in Nat /\ at <= x.size
  BY <1>1, <1>4
<1> HIDE DEF at
<1>10. /\ e \in gxByteBuffer /\ e.position = at /\ e.size = x.size
       /\ e.capacity = x.capacity /\ e.data = x.data
  BY <1>1, <1>9 DEF gxByteBuffer
<1> HIDE DEF e
<1>11. Sound(e)
  BY <1>1, <1>9, <1>10 DEF Sound
<1>12. /\ r.bb \in gxByteBuffer /\ Sound(r.bb) /\ r.touched \in Nat
       /\ r.touched <= Len(r.bb.data) /\ r.ret \in {OK, OUTOFMEMORY, INVALID_PARAMETER}
  BY <1>6 DEF Safe, Sound
<1>13. bb' \in [Buffers -> gxByteBuffer] /\ touched' \in [Buffers -> Nat]
  BY <1>4, <1>7, <1>8, <1>10, <1>12 DEF BInv
<1>14. ASSUME NEW d \in Buffers
       PROVE  Sound(bb'[d]) /\ bb'[d].size <= MaxSize[d] /\ touched'[d] <= Len(bb'[d].data)
  <2>1. CASE d = c
    BY <1>7, <1>8, <1>12, <2>1 DEF BInv
  <2>2. CASE d = b
    BY <1>1, <1>4, <1>7, <1>8, <1>10, <1>11, <2>2 DEF BInv
  <2>3. CASE d # b /\ d # c
    BY <1>7, <1>8, <2>3 DEF BInv
  <2> QED
    BY <2>1, <2>2, <2>3
<1> QED
  BY <1>7, <1>12, <1>13, <1>14, EmptyMemory DEF BInv

LEMMA BInvInit == Init => BInv
<1> SUFFICES ASSUME Init PROVE BInv
  OBVIOUS
<1>1. Sound(BYTE_BUFFER_INIT) /\ BYTE_BUFFER_INIT \in gxByteBuffer /\ BYTE_BUFFER_INIT.size = 0
  BY EmptyMemory DEF Sound, BYTE_BUFFER_INIT, gxByteBuffer
<1>2. \A b \in Buffers : 0 <= MaxSize[b]
  BY ByteBufferAssumption
<1>3. BYTE_BUFFER_INIT.data = <<>>
  BY DEF BYTE_BUFFER_INIT
<1> QED
  BY <1>1, <1>2, <1>3, EmptyMemory DEF Init, BInv

LEMMA BInvNext == BInv /\ [Next]_vars => BInv'
<1> SUFFICES ASSUME BInv, [Next]_vars PROVE BInv'
  OBVIOUS
<1>1. ASSUME NEW b \in Buffers, NEW mem \in BOOLEAN,
             \/ SetBytes(b, mem) \/ SetString(b, mem)
             \/ SetUInt8(b, mem) \/ SetUInt16(b, mem) \/ SetUInt32(b, mem)
             \/ SetUInt8ByIndex(b, mem) \/ Reserve(b, mem) \/ Insert(b, mem)
      PROVE  BInv'
  BY <1>1, WritesKeep
<1>2. ASSUME NEW b \in Buffers,
             \/ Clear(b) \/ Declare(b) \/ Attach(b) \/ Close(b)
             \/ GetUInt(b) \/ Get(b) \/ GetWhenComplete(b) \/ GetUInt8ByIndex(b)
             \/ Compare(b)
      PROVE  BInv'
  BY <1>2, OthersKeep
<1>3. ASSUME NEW b \in Buffers, NEW c \in Buffers, NEW mem \in BOOLEAN,
             b # c, Copy(b, c, mem)
      PROVE  BInv'
  BY <1>3, CopyKeeps
<1>4. CASE UNCHANGED vars
  BY <1>4 DEF BInv, vars, Sound
<1> QED
  BY <1>1, <1>2, <1>3, <1>4, ByteBufferAssumption DEF Next

LEMMA BInvAlways == Spec => []BInv
BY BInvInit, BInvNext, PTL DEF Spec

(* Types hold for any buffers, strings and growth step. *)
THEOREM BufferTypeCorrect == Spec => []TypeOK
<1>1. BInv => TypeOK
  BY DEF BInv, TypeOK
<1> QED
  BY <1>1, BInvAlways, PTL

(* Position, size, capacity and memory never disagree. *)
THEOREM BuffersOrdered == Spec => []Ordered
<1>1. BInv => Ordered
  BY DEF BInv, Ordered, Sound
<1> QED
  BY <1>1, BInvAlways, PTL

(* No call of the library reads or writes outside the memory of a buffer.  *)
THEOREM BuffersInBounds == Spec => []InBounds
<1>1. BInv => InBounds
  BY DEF BInv, InBounds
<1> QED
  BY <1>1, BInvAlways, PTL

-----------------------------------------------------------------------------
(* No append is refused while there is memory to be had.                   *)

(* A buffer that may grow is given room by one growth step, wherever up to *)
(* the end of its content the room is asked for.                           *)
LEMMA AllocateGrows ==
  ASSUME NEW b, Sound(b), ~ b.attached, NEW index \in Nat, index <= b.size,
         NEW count \in Nat, NEW mem \in BOOLEAN, mem
  PROVE  bb_allocate(b, index, count, mem).ret = OK
<1> DEFINE grows == ~ b.attached /\ (b.capacity = 0 \/ index + count > b.capacity)
           step  == IF grows /\ b.capacity # 0 /\ count <= VECTOR_CAPACITY
                    THEN VECTOR_CAPACITY ELSE count
           a     == IF grows THEN Realloc(b, b.capacity + step) ELSE b
           r     == bb_allocate(b, index, count, mem)
<1>1. /\ b \in gxByteBuffer /\ b.capacity \in Nat /\ b.size \in Nat
      /\ index <= b.capacity
  BY DEF Sound, gxByteBuffer
<1>2. step \in Nat /\ (~ grows => step = count)
  BY ByteBufferAssumption
<1>3. r = Unchanged(IF a.capacity < index + step THEN OUTOFMEMORY ELSE OK, a)
  BY DEF bb_allocate
<1>4. ~ (a.capacity < index + step)
  <2>1. CASE grows
    <3>1. a = Realloc(b, b.capacity + step) /\ b.capacity + step \in Nat
      BY <1>1, <1>2, <2>1
    <3> HIDE DEF a, step, grows
    <3>2. a.capacity = b.capacity + step
      BY <1>1, <3>1, ReallocFacts
    <3> QED BY <1>1, <1>2, <3>2
  <2>2. CASE ~ grows
    <3>1. a = b /\ index + count <= b.capacity
      BY <1>1, <2>2
    <3>2. step = count
      BY <1>2, <2>2
    <3> HIDE DEF a, step, grows
    <3> QED BY <1>1, <3>1, <3>2
  <2> QED BY <2>1, <2>2
<1> HIDE DEF a, step, r
<1>5. r = Unchanged(OK, a)
  BY <1>3, <1>4
<1>6. r.ret = OK
  BY <1>5 DEF Unchanged, Result
<1> QED BY <1>6 DEF r

(* So every append to such a buffer succeeds.                              *)
LEMMA AppendGrows ==
  ASSUME NEW b, Sound(b), ~ b.attached, NEW s \in Memory, NEW mem \in BOOLEAN, mem
  PROVE  /\ bb_set(b, s, mem).ret = OK
         /\ bb_setByIndex(b, b.size, s, mem).ret = OK
<1>1. b.size \in Nat /\ Len(s) \in Nat /\ b.size <= b.size
  BY DEF Sound, gxByteBuffer, Memory
<1>2. bb_allocate(b, b.size, Len(s), mem).ret = OK
  BY <1>1, AllocateGrows
<1> QED BY <1>2 DEF bb_set, bb_setByIndex, Result

LEMMA WordGrows ==
  ASSUME NEW b, Sound(b), ~ b.attached, NEW n, NEW mem \in BOOLEAN, mem
  PROVE  bb_setUInt16ByIndex(b, b.size, n, mem).ret = OK
<1>1. b.size \in Nat /\ b.size + 2 > b.size /\ b.size <= b.size /\ 2 \in Nat
  BY DEF Sound, gxByteBuffer
<1>2. bb_allocate(b, b.size, 2, mem).ret = OK
  BY <1>1, AllocateGrows
<1> QED BY <1>1, <1>2 DEF bb_setUInt16ByIndex, Result

(* A call of one buffer returns OK, or it is excused.                      *)
LEMMA AppendAnswered ==
  ASSUME BInv, NEW b \in Buffers, NEW r, NEW mem \in BOOLEAN, Growing(b, r, mem),
         ~ bb[b].attached /\ mem => r.ret = OK
  PROVE  GrowsWhenAsked'
<1>1. bb[b].attached \in BOOLEAN
  BY DEF BInv, gxByteBuffer
<1>2. excused' = (bb[b].attached \/ ~ mem) /\ ret' = r.ret
  BY DEF Growing, Left
<1> QED BY <1>1, <1>2 DEF GrowsWhenAsked

(* The appends and the copy, which counts what it copied as read.          *)
LEMMA AppendsGrow ==
  ASSUME BInv, NEW b \in Buffers, NEW mem \in BOOLEAN,
         \/ SetBytes(b, mem) \/ SetString(b, mem)
         \/ SetUInt8(b, mem) \/ SetUInt16(b, mem) \/ SetUInt32(b, mem)
  PROVE  GrowsWhenAsked'
<1> DEFINE x == bb[b]
<1>1. Sound(x) /\ x.size \in Nat
  BY DEF BInv, Sound, gxByteBuffer
<1>2. CASE SetBytes(b, mem)
  <2>1. PICK s \in Strings : Growing(b, bb_set(x, s, mem), mem)
    BY <1>2 DEF SetBytes
  <2>2. ~ x.attached /\ mem => bb_set(x, s, mem).ret = OK
    BY <1>1, StringFacts, AppendGrows
  <2> QED BY <2>1, <2>2, AppendAnswered
<1>3. CASE SetString(b, mem)
  <2>1. PICK s \in Strings : Growing(b, bb_addString(x, s, mem), mem)
    BY <1>3 DEF SetString
  <2>2. Append(s, 0) \in Memory
    <3>1. s \in Seq(Byte)
      BY StringFacts
    <3>2. 0 \in Byte
      BY DEF Byte
    <3> QED BY <3>1, <3>2 DEF Memory
  <2>3. ~ x.attached /\ mem => bb_addString(x, s, mem).ret = OK
    <3> SUFFICES ASSUME ~ x.attached, mem
                 PROVE  bb_addString(x, s, mem).ret = OK
      OBVIOUS
    <3> DEFINE a == bb_set(x, Append(s, 0), mem)
    <3>1. a.ret = OK
      BY <1>1, <2>2, AppendGrows
    <3>2. bb_addString(x, s, mem) = [a EXCEPT !.bb.size = @ - 1]
      BY <3>1 DEF bb_addString
    <3>3. a = [ret |-> a.ret, bb |-> a.bb, touched |-> a.touched]
      BY DEF bb_set, bb_allocate, Unchanged, Result
    <3> HIDE DEF a
    <3> QED BY <3>1, <3>2, <3>3
  <2> QED BY <2>1, <2>3, AppendAnswered
<1>4. ASSUME NEW s \in Memory, NEW n,
             Growing(b, Appended(bb_setByIndex(x, x.size, s, mem), n), mem)
      PROVE  GrowsWhenAsked'
  <2> DEFINE a == bb_setByIndex(x, x.size, s, mem)
  <2>1. ~ x.attached /\ mem => a.ret = OK
    BY <1>1, AppendGrows
  <2>2. a = [ret |-> a.ret, bb |-> a.bb, touched |-> a.touched]
    BY DEF bb_setByIndex, bb_allocate, Unchanged, Result
  <2>3. Growing(b, Appended(a, n), mem)
    BY <1>4
  <2> HIDE DEF a
  <2>4. a.ret = OK => Appended(a, n).ret = OK
    BY <2>2 DEF Appended
  <2> QED BY <2>1, <2>3, <2>4, AppendAnswered
<1>5. CASE SetUInt8(b, mem)
  <2>1. PICK s \in Strings : Growing(b, bb_setUInt8(x, s[1], mem), mem)
    BY <1>5 DEF SetUInt8
  <2>2. <<s[1]>> \in Memory
    BY StringFacts
  <2> QED BY <1>4, <2>1, <2>2 DEF bb_setUInt8
<1>6. CASE SetUInt16(b, mem)
  <2>1. PICK n \in Words : Growing(b, bb_setUInt16(x, n, mem), mem)
    BY <1>6 DEF SetUInt16
  <2> DEFINE a == bb_setUInt16ByIndex(x, x.size, n, mem)
  <2>2. ~ x.attached /\ mem => a.ret = OK
    BY <1>1, WordGrows
  <2>3. a = [ret |-> a.ret, bb |-> a.bb, touched |-> a.touched]
    BY DEF bb_setUInt16ByIndex, bb_allocate, Unchanged, Result
  <2>4. Growing(b, Appended(a, 2), mem)
    BY <2>1 DEF bb_setUInt16
  <2> HIDE DEF a
  <2>5. a.ret = OK => Appended(a, 2).ret = OK
    BY <2>3 DEF Appended
  <2> QED BY <2>2, <2>4, <2>5, AppendAnswered
<1>7. CASE SetUInt32(b, mem)
  <2>1. PICK n \in LongWords : Growing(b, bb_setUInt32(x, n, mem), mem)
    BY <1>7 DEF SetUInt32
  <2>2. UInt32Bytes(n) \in Memory
    BY ByteBufferAssumption, LongNumberBytes
  <2> QED BY <1>4, <2>1, <2>2 DEF bb_setUInt32
<1> QED BY <1>2, <1>3, <1>5, <1>6, <1>7

LEMMA CopyGrows ==
  ASSUME BInv, NEW b \in Buffers, NEW c \in Buffers, NEW mem \in BOOLEAN,
         Copy(b, c, mem)
  PROVE  GrowsWhenAsked'
<1> DEFINE x == bb[b]
<1>1. /\ x \in gxByteBuffer /\ x.position \in Nat /\ Available(x) \in Nat
      /\ Sound(bb[c]) /\ bb[c].attached \in BOOLEAN
  BY AvailableUnread DEF BInv, Sound, gxByteBuffer
<1>2. PICK n \in 1..Available(x) :
        LET last == x.position + n
            r    == bb_set(bb[c], Content(x, x.position, last), mem) IN
        ret' = r.ret /\ excused' = (bb[c].attached \/ ~ mem)
  BY DEF Copy
<1> DEFINE s == Content(x, x.position, x.position + n)
<1>3. n \in Nat
  BY <1>1
<1>4. s \in Memory
  BY <1>1, <1>3, ContentType
<1>5. ret' = bb_set(bb[c], s, mem).ret /\ excused' = (bb[c].attached \/ ~ mem)
  BY <1>2
<1> HIDE DEF s
<1>6. ~ bb[c].attached /\ mem => bb_set(bb[c], s, mem).ret = OK
  BY <1>1, <1>4, AppendGrows
<1> QED BY <1>1, <1>5, <1>6 DEF GrowsWhenAsked

(* Every other call is excused.                                            *)
LEMMA GrowsNext == BInv /\ GrowsWhenAsked /\ [Next]_vars => GrowsWhenAsked'
<1> SUFFICES ASSUME BInv, GrowsWhenAsked, [Next]_vars PROVE GrowsWhenAsked'
  OBVIOUS
<1>1. ASSUME NEW b \in Buffers, NEW mem \in BOOLEAN,
             \/ SetBytes(b, mem) \/ SetString(b, mem)
             \/ SetUInt8(b, mem) \/ SetUInt16(b, mem) \/ SetUInt32(b, mem)
      PROVE  GrowsWhenAsked'
  BY <1>1, AppendsGrow
<1>2. ASSUME NEW b \in Buffers, NEW mem \in BOOLEAN,
             SetUInt8ByIndex(b, mem) \/ Reserve(b, mem) \/ Insert(b, mem)
      PROVE  excused' = TRUE
  BY <1>2 DEF SetUInt8ByIndex, Reserve, Insert, Call
<1>3. ASSUME NEW b \in Buffers,
             \/ Clear(b) \/ Declare(b) \/ Attach(b) \/ Close(b)
      PROVE  excused' = TRUE
  BY <1>3 DEF Clear, Declare, Attach, Close, Call
<1>4. ASSUME NEW b \in Buffers,
             \/ GetUInt(b) \/ Get(b) \/ GetWhenComplete(b) \/ GetUInt8ByIndex(b)
             \/ Compare(b)
      PROVE  excused' = TRUE
  BY <1>4 DEF GetUInt, Get, GetWhenComplete, GetUInt8ByIndex, Compare, Refused, Deliver
<1>5. ASSUME NEW b \in Buffers, NEW c \in Buffers, NEW mem \in BOOLEAN, Copy(b, c, mem)
      PROVE  GrowsWhenAsked'
  BY <1>5, CopyGrows
<1>6. CASE UNCHANGED vars
  BY <1>6 DEF vars, GrowsWhenAsked
<1>7. excused' = TRUE => GrowsWhenAsked'
  BY DEF GrowsWhenAsked
<1> QED BY <1>1, <1>2, <1>3, <1>4, <1>5, <1>6, <1>7, ByteBufferAssumption DEF Next

(* An append is refused only for want of memory, or by a buffer that stands *)
(* for an array of the caller: one growth step of bb_allocate, which looks *)
(* at the number of new bytes and not at where they go, is always enough.  *)
THEOREM BuffersGrowWhenAsked == Spec => []GrowsWhenAsked
<1>1. Init => GrowsWhenAsked
  BY DEF Init, GrowsWhenAsked
<1> QED BY <1>1, GrowsNext, BInvAlways, PTL DEF Spec

-----------------------------------------------------------------------------
(* The contents: ByteBuffer implements ByteQueue.                          *)

(* The bytes still to be read. *)
Unread(b) == Content(b, b.position, b.size)

(* c is b with the bytes s behind its content.                             *)
Appends(b, c, s) ==
  /\ Sound(c) /\ c.position = b.position /\ c.size = b.size + Len(s)
  /\ \A i \in 1..b.size : c.data[i] = b.data[i]
  /\ \A i \in 1..Len(s) : c.data[b.size + i] = s[i]

(* The numbers of a sound buffer.                                          *)
LEMMA SoundNumbers ==
  ASSUME NEW b, Sound(b)
  PROVE  /\ b \in gxByteBuffer /\ b.size \in Nat /\ b.position \in Nat /\ b.capacity \in Nat
         /\ b.position <= b.size /\ b.size <= b.capacity /\ b.capacity = Len(b.data)
         /\ b.data \in Memory /\ b.attached \in BOOLEAN
BY DEF Sound, gxByteBuffer

(* Sequences of the same length and the same bytes are the same.           *)
LEMMA SameBytes ==
  ASSUME NEW S, NEW s \in Seq(S), NEW t \in Seq(S), Len(s) = Len(t),
         \A i \in 1..Len(s) : s[i] = t[i]
  PROVE  s = t
OBVIOUS

(* The bytes of two sequences, one behind the other.                       *)
LEMMA BehindBytes ==
  ASSUME NEW S, NEW s \in Seq(S), NEW t \in Seq(S)
  PROVE  /\ s \o t \in Seq(S) /\ Len(s \o t) = Len(s) + Len(t)
         /\ \A i \in 1..(Len(s) + Len(t)) :
              (s \o t)[i] = IF i <= Len(s) THEN s[i] ELSE t[i - Len(s)]
OBVIOUS

(* What is unread is what the memory holds between position and size.      *)
LEMMA UnreadBytes ==
  ASSUME NEW b, Sound(b)
  PROVE  /\ Unread(b) \in Memory /\ Len(Unread(b)) = b.size - b.position
         /\ Len(Unread(b)) \in Nat
         /\ \A i \in 1..(b.size - b.position) : Unread(b)[i] = b.data[b.position + i]
<1> DEFINE n == b.size - b.position
<1>1. /\ b \in gxByteBuffer /\ b.size \in Nat /\ b.position \in Nat /\ n \in Nat
      /\ b.position + n = b.size /\ b.size <= Len(b.data)
  BY SoundNumbers
<1>2. Content(b, b.position, b.position + n) \in Memory
      /\ Len(Content(b, b.position, b.position + n)) = n
  BY <1>1, ContentType
<1>3. Unread(b) = Content(b, b.position, b.position + n)
  BY <1>1 DEF Unread
<1>4. ASSUME NEW i \in 1..n PROVE Unread(b)[i] = b.data[b.position + i]
  <2>1. b.position + i <= Len(b.data)
    BY <1>1
  <2> QED
    BY <2>1 DEF Unread, Content
<1> QED
  BY <1>1, <1>2, <1>3, <1>4

(* Bytes behind the content are bytes behind the queue.                    *)
LEMMA AppendsUnread ==
  ASSUME NEW b, Sound(b), NEW c, NEW s \in Memory, Appends(b, c, s)
  PROVE  Unread(c) = Unread(b) \o s
<1> DEFINE p == b.position
           n == b.size - p
           u == Unread(b)
           v == Unread(c)
<1>1. /\ Sound(c) /\ c.position = p /\ c.size = b.size + Len(s) /\ Len(s) \in Nat
      /\ b.size \in Nat /\ p \in Nat /\ n \in Nat
  BY SoundNumbers DEF Appends, Memory
<1>2. /\ u \in Memory /\ Len(u) = n
      /\ \A i \in 1..n : u[i] = b.data[p + i]
  BY UnreadBytes
<1>3. /\ v \in Memory /\ Len(v) = n + Len(s)
      /\ \A i \in 1..(n + Len(s)) : v[i] = c.data[p + i]
  <2>1. c.size - c.position = n + Len(s)
    BY <1>1
  <2> QED
    BY <1>1, <2>1, UnreadBytes
<1> HIDE DEF u, v
<1>4. /\ u \o s \in Memory /\ Len(u \o s) = n + Len(s)
      /\ \A i \in 1..(n + Len(s)) : (u \o s)[i] = IF i <= n THEN u[i] ELSE s[i - n]
  BY <1>1, <1>2, BehindBytes DEF Memory
<1>5. ASSUME NEW i \in 1..(n + Len(s)) PROVE v[i] = (u \o s)[i]
  <2>1. CASE i <= n
    <3>1. i \in 1..n /\ p + i \in 1..b.size
      BY <1>1, <2>1
    <3>2. c.data[p + i] = b.data[p + i]
      BY <3>1 DEF Appends
    <3> QED
      BY <1>2, <1>3, <1>4, <2>1, <3>1, <3>2
  <2>2. CASE ~ (i <= n)
    <3>1. i - n \in 1..Len(s) /\ p + i = b.size + (i - n)
      BY <1>1, <2>2
    <3>2. c.data[b.size + (i - n)] = s[i - n]
      BY <3>1 DEF Appends
    <3> QED
      BY <1>3, <1>4, <2>2, <3>1, <3>2
  <2> QED
    BY <2>1, <2>2
<1> HIDE DEF n
<1>6. v = u \o s
  BY <1>3, <1>4, <1>5, SameBytes DEF Memory
<1> QED
  BY <1>6 DEF u, v

(* A buffer that kept its content kept its queue.                          *)
LEMMA KeptUnread ==
  ASSUME NEW b, Sound(b), NEW c, Appends(b, c, <<>>)
  PROVE  Unread(c) = Unread(b)
<1>1. Unread(c) = Unread(b) \o <<>> /\ Unread(b) \in Memory
  BY EmptyMemory, AppendsUnread, UnreadBytes
<1> QED
  BY <1>1 DEF Memory

(* A buffer keeps its content when it is left alone.                       *)
LEMMA KeptItself ==
  ASSUME NEW b, Sound(b) PROVE Appends(b, b, <<>>)
<1>1. b.size + 0 = b.size
  BY SoundNumbers
<1> QED
  BY <1>1, EmptyMemory DEF Appends

(* realloc to at least the content keeps it.                               *)
LEMMA ReallocKeeps ==
  ASSUME NEW b, Sound(b), NEW n \in Nat, n >= b.size
  PROVE  Appends(b, Realloc(b, n), <<>>)
<1> DEFINE q == Realloc(b, n)
<1>1. b \in gxByteBuffer /\ b.size \in Nat /\ b.position \in Nat /\ b.size <= Len(b.data)
      /\ b.position <= b.size
  BY SoundNumbers
<1>2. /\ q \in gxByteBuffer /\ Len(q.data) = n /\ q.capacity = n
      /\ q.size = b.size /\ q.position = b.position
  BY <1>1, ReallocFacts
<1>3. ASSUME NEW i \in 1..b.size PROVE q.data[i] = b.data[i]
  <2>1. q.data = [j \in 1..n |-> IF j <= Len(b.data) THEN b.data[j] ELSE Undef]
    BY <1>1 DEF Realloc, gxByteBuffer
  <2>2. i \in 1..n /\ i <= Len(b.data)
    <3>1. Len(b.data) \in Nat
      BY <1>1 DEF gxByteBuffer, Memory
    <3> QED
      BY <1>1, <3>1
  <2> QED
    BY <2>1, <2>2
<1> HIDE DEF q
<1>4. Sound(q) /\ q.size = b.size + 0
  BY <1>1, <1>2 DEF Sound
<1> QED
  BY <1>2, <1>3, <1>4, EmptyMemory DEF Appends, q

(* memcpy writes where it is told to.                                      *)
LEMMA PutBytes ==
  ASSUME NEW b \in gxByteBuffer, NEW at \in Nat, NEW s \in Memory
  PROVE  \A i \in 1..Len(b.data) :
           Put(b, at, s).data[i] = IF i \in (at + 1)..(at + Len(s)) THEN s[i - at]
                                   ELSE b.data[i]
BY DEF Put, gxByteBuffer

(* bb_allocate keeps the content.                                          *)
LEMMA AllocateKeeps ==
  ASSUME NEW b, Sound(b), NEW index \in Nat, NEW count \in Nat, NEW mem \in BOOLEAN
  PROVE  Appends(b, bb_allocate(b, index, count, mem).bb, <<>>)
<1> DEFINE grows == ~ b.attached /\ (b.capacity = 0 \/ index + count > b.capacity)
           step  == IF grows /\ b.capacity # 0 /\ count <= VECTOR_CAPACITY
                    THEN VECTOR_CAPACITY ELSE count
           a     == IF grows THEN Realloc(b, b.capacity + step) ELSE b
           r     == bb_allocate(b, index, count, mem)
<1>1. step \in Nat /\ b.capacity \in Nat /\ b.size \in Nat /\ b.size <= b.capacity
  BY ByteBufferAssumption, SoundNumbers
<1>2. r = IF grows /\ ~ mem THEN Unchanged(OUTOFMEMORY, b)
          ELSE Unchanged(IF a.capacity < index + step THEN OUTOFMEMORY ELSE OK, a)
  BY DEF bb_allocate
<1> HIDE DEF step
<1>3. b.capacity + step \in Nat /\ b.capacity + step >= b.size
  BY <1>1
<1>4. Appends(b, Realloc(b, b.capacity + step), <<>>) /\ Appends(b, b, <<>>)
  BY <1>3, ReallocKeeps, KeptItself
<1>5. Appends(b, a, <<>>)
  BY <1>4
<1> HIDE DEF a, grows, r
<1>6. Appends(b, r.bb, <<>>)
  BY <1>2, <1>4, <1>5 DEF Unchanged, Result
<1> QED
  BY <1>6 DEF r

(* Content kept, and then bytes put behind it, are bytes appended.         *)
LEMMA PutAppends ==
  ASSUME NEW b, Sound(b), NEW a, Appends(b, a, <<>>), NEW s \in Memory,
         b.size + Len(s) <= a.capacity
  PROVE  /\ Appends(b, [Put(a, b.size, s) EXCEPT !.size = @ + Len(s)], s)
         /\ Appends(b, Put(a, b.size, s), <<>>)
<1> DEFINE p == Put(a, b.size, s)
           e == [p EXCEPT !.size = @ + Len(s)]
<1>1. /\ b.size \in Nat /\ b.position \in Nat /\ b.position <= b.size /\ Len(s) \in Nat
  BY SoundNumbers DEF Memory
<1>2. /\ Sound(a) /\ a \in gxByteBuffer /\ a.position = b.position /\ a.size = b.size
      /\ a.capacity = Len(a.data) /\ a.capacity \in Nat
      /\ \A i \in 1..b.size : a.data[i] = b.data[i]
  <2>1. b.size + 0 = b.size
    BY <1>1
  <2> QED
    BY <2>1, SoundNumbers, EmptyMemory DEF Appends
<1>3. /\ p \in gxByteBuffer /\ Len(p.data) = Len(a.data) /\ p.capacity = a.capacity
      /\ p.size = b.size /\ p.position = b.position
      /\ \A i \in 1..Len(a.data) :
           p.data[i] = IF i \in (b.size + 1)..(b.size + Len(s)) THEN s[i - b.size]
                       ELSE a.data[i]
  BY <1>1, <1>2, PutFacts, PutBytes
<1> HIDE DEF p
<1>4. /\ e \in gxByteBuffer /\ e.data = p.data /\ e.capacity = p.capacity
      /\ e.size = b.size + Len(s) /\ e.position = b.position
  BY <1>1, <1>3 DEF gxByteBuffer
<1> HIDE DEF e
<1>5. \A i \in 1..b.size : p.data[i] = b.data[i]
  <2>1. ASSUME NEW i \in 1..b.size PROVE p.data[i] = b.data[i]
    <3>1. i \in 1..Len(a.data) /\ i \notin (b.size + 1)..(b.size + Len(s))
      BY <1>1, <1>2
    <3> QED
      BY <1>2, <1>3, <3>1
  <2> QED
    BY <2>1
<1>6. \A i \in 1..Len(s) : p.data[b.size + i] = s[i]
  <2>1. ASSUME NEW i \in 1..Len(s) PROVE p.data[b.size + i] = s[i]
    <3>1. b.size + i \in 1..Len(a.data) /\ b.size + i \in (b.size + 1)..(b.size + Len(s))
          /\ (b.size + i) - b.size = i
      BY <1>1, <1>2
    <3> QED
      BY <1>3, <3>1
  <2> QED
    BY <2>1
<1>7. Sound(p) /\ Sound(e)
  BY <1>1, <1>2, <1>3, <1>4 DEF Sound
<1>8. Appends(b, e, s)
  BY <1>4, <1>5, <1>6, <1>7 DEF Appends
<1>9. Appends(b, p, <<>>)
  <2>1. p.size = b.size + 0
    BY <1>1, <1>3
  <2> QED
    BY <1>3, <1>5, <1>7, <2>1, EmptyMemory DEF Appends
<1> QED
  BY <1>8, <1>9 DEF p, e

(* What an append may leave: s behind the content, or the content.         *)
Adds(b, r, s) ==
  IF r.ret = OK THEN Appends(b, r.bb, s) ELSE Appends(b, r.bb, <<>>)

(* bb_set adds all of s or nothing.                                        *)
LEMMA SetAdds ==
  ASSUME NEW b, Sound(b), NEW s \in Memory, NEW mem \in BOOLEAN
  PROVE  Adds(b, bb_set(b, s, mem), s)
<1> DEFINE a == bb_allocate(b, b.size, Len(s), mem)
           e == [Put(a.bb, b.size, s) EXCEPT !.size = @ + Len(s)]
           r == bb_set(b, s, mem)
<1>1. b.size \in Nat /\ b.size <= b.size /\ Len(s) \in Nat
  BY SoundNumbers DEF Memory
<1>2. Appends(b, a.bb, <<>>) /\ (a.ret = OK => b.size + Len(s) <= a.bb.capacity)
  BY <1>1, AllocateKeeps, AllocateSafe
<1>3. r = IF a.ret # OK \/ s = <<>> THEN a ELSE Result(OK, e, b.size + Len(s))
  BY DEF bb_set
<1> HIDE DEF a
<1>4. a.ret = OK => Appends(b, e, s)
  BY <1>2, PutAppends
<1> HIDE DEF e, r
<1>5. Adds(b, r, s)
  BY <1>2, <1>3, <1>4 DEF Adds, Result
<1> QED
  BY <1>5 DEF r

(* So do bytes written at the end that are counted afterwards: bb_setUInt8 *)
(* and bb_setUInt32.                                                       *)
LEMMA SetByIndexAdds ==
  ASSUME NEW b, Sound(b), NEW s \in Memory, NEW mem \in BOOLEAN
  PROVE  Adds(b, Appended(bb_setByIndex(b, b.size, s, mem), Len(s)), s)
<1> DEFINE a == bb_allocate(b, b.size, Len(s), mem)
           p == Put(a.bb, b.size, s)
           e == [p EXCEPT !.size = @ + Len(s)]
           q == bb_setByIndex(b, b.size, s, mem)
           r == Appended(q, Len(s))
<1>1. b.size \in Nat /\ b.size <= b.size /\ Len(s) \in Nat
  BY SoundNumbers DEF Memory
<1>2. Appends(b, a.bb, <<>>) /\ (a.ret = OK => b.size + Len(s) <= a.bb.capacity)
  BY <1>1, AllocateKeeps, AllocateSafe
<1>3. q = IF a.ret # OK THEN a ELSE Result(OK, p, b.size + Len(s))
  BY DEF bb_setByIndex
<1>4. a.ret = OK => Appends(b, e, s)
  BY <1>2, PutAppends
<1>7. r = Appended(q, Len(s))
  OBVIOUS
<1> SUFFICES Adds(b, r, s)
  OBVIOUS
<1> HIDE DEF a, p, q, r
<1>5. CASE a.ret # OK
  <2>1. r = a
    BY <1>3, <1>5, <1>7 DEF Appended
  <2> QED
    BY <1>2, <1>5, <2>1 DEF Adds
<1>6. CASE a.ret = OK
  <2>1. q.ret = OK /\ q.bb = p /\ q = Result(OK, p, b.size + Len(s))
    BY <1>3, <1>6 DEF Result
  <2>2. r.ret = OK /\ r.bb = e
    BY <1>7, <2>1 DEF Appended, Result
  <2> HIDE DEF e
  <2> QED
    BY <1>4, <1>6, <2>2 DEF Adds
<1> QED
  BY <1>5, <1>6

(* bb_setUInt16 adds a word or nothing.                                    *)
LEMMA SetUInt16Adds ==
  ASSUME NEW b, Sound(b), NEW n \in Nat, NEW mem \in BOOLEAN
  PROVE  Adds(b, bb_setUInt16(b, n, mem), UInt16Bytes(n))
<1> DEFINE s == UInt16Bytes(n)
           a == bb_allocate(b, b.size, 2, mem)
           p == Put(a.bb, b.size, s)
           e == [p EXCEPT !.size = @ + Len(s)]
           q == bb_setUInt16ByIndex(b, b.size, n, mem)
           r == bb_setUInt16(b, n, mem)
<1>1. b.size \in Nat /\ b.size <= b.size /\ s \in Memory /\ Len(s) = 2
  BY SoundNumbers, NumberBytes
<1>2. Appends(b, a.bb, <<>>) /\ (a.ret = OK => b.size + Len(s) <= a.bb.capacity)
  BY <1>1, AllocateKeeps, AllocateSafe
<1>3. q = IF a.ret # OK THEN a ELSE Result(OK, p, b.size + 2)
  BY <1>1 DEF bb_setUInt16ByIndex
<1> HIDE DEF s
<1>4. a.ret = OK => Appends(b, e, s)
  BY <1>1, <1>2, PutAppends
<1>7. r = Appended(q, Len(s))
  BY <1>1 DEF bb_setUInt16
<1> HIDE DEF a, p, q, r
<1>5. CASE a.ret # OK
  BY <1>2, <1>3, <1>5, <1>7 DEF Appended, Adds, r, s
<1>6. CASE a.ret = OK
  <2>1. q.ret = OK /\ q.bb = p /\ q = Result(OK, p, b.size + 2)
    BY <1>3, <1>6 DEF Result
  <2>2. r.ret = OK /\ r.bb = e
    BY <1>7, <2>1 DEF Appended, Result
  <2> HIDE DEF e
  <2>3. Adds(b, r, s)
    BY <1>4, <1>6, <2>2 DEF Adds
  <2> QED
    BY <2>3 DEF r, s
<1> QED
  BY <1>5, <1>6

(* The end that bb_addString writes is not part of what it adds.           *)
LEMMA AddStringAdds ==
  ASSUME NEW b, Sound(b), NEW s \in Seq(Byte), NEW mem \in BOOLEAN
  PROVE  Adds(b, bb_addString(b, s, mem), s)
<1> DEFINE t == Append(s, 0)
           a == bb_set(b, t, mem)
           c == a.bb
           e == [c EXCEPT !.size = @ - 1]
           r == bb_addString(b, s, mem)
<1>1. /\ t \in Memory /\ Len(t) = Len(s) + 1 /\ Len(s) \in Nat
      /\ \A i \in 1..Len(s) : t[i] = s[i]
  BY DEF Memory, Byte
<1>2. Adds(b, a, t)
  BY <1>1, SetAdds
<1>3. r = IF a.ret = OK THEN [a EXCEPT !.bb.size = @ - 1] ELSE a
  BY DEF bb_addString
<1>4. a = [ret |-> a.ret, bb |-> a.bb, touched |-> a.touched]
  BY DEF bb_set, bb_allocate, Unchanged, Result
<1> HIDE DEF a, t
<1>5. CASE a.ret # OK
  BY <1>2, <1>3, <1>5 DEF Adds
<1>6. CASE a.ret = OK
  <2>1. Appends(b, c, t)
    BY <1>2, <1>6 DEF Adds
  <2>2. /\ Sound(c) /\ c.size = b.size + Len(s) + 1 /\ c.position = b.position
        /\ b.position <= b.size /\ b.size \in Nat /\ b.position \in Nat
    <3>1. /\ Sound(c) /\ c.size = b.size + Len(t) /\ c.position = b.position
      BY <2>1 DEF Appends
    <3>2. b.position <= b.size /\ b.size \in Nat /\ b.position \in Nat
      BY SoundNumbers
    <3> HIDE DEF c
    <3>3. b.size + Len(t) = b.size + Len(s) + 1
      BY <1>1, <3>2
    <3> QED
      BY <3>1, <3>2, <3>3
  <2> HIDE DEF c
  <2>3. /\ Sound(e) /\ e.size = b.size + Len(s) /\ e.position = b.position
        /\ e.data = c.data
    <3>1. c \in gxByteBuffer
      BY <2>2 DEF Sound
    <3>2. e \in gxByteBuffer /\ e.size = b.size + Len(s) /\ e.position = b.position
          /\ e.data = c.data /\ e.capacity = c.capacity
      BY <1>1, <2>2, <3>1 DEF gxByteBuffer
    <3> HIDE DEF e
    <3> QED
      BY <1>1, <2>2, <3>2, SoundNumbers DEF Sound
  <2> HIDE DEF e
  <2>4. \A i \in 1..Len(s) : c.data[b.size + i] = s[i]
    BY <1>1, <2>1 DEF Appends
  <2>5. Appends(b, e, s)
    BY <2>1, <2>3, <2>4 DEF Appends
  <2>6. r.ret = OK /\ r.bb = e
    BY <1>3, <1>4, <1>6 DEF e, c
  <2> HIDE DEF r
  <2>7. Adds(b, r, s)
    BY <2>5, <2>6 DEF Adds
  <2> QED
    BY <2>7 DEF r
<1> QED
  BY <1>5, <1>6

(* Reserving more than the content keeps it.                               *)
LEMMA CapacityKeeps ==
  ASSUME NEW b, Sound(b), NEW n \in Nat, n >= b.size, NEW mem \in BOOLEAN
  PROVE  Appends(b, bb_capacity(b, n, mem).bb, <<>>)
<1> DEFINE r == bb_capacity(b, n, mem)
<1>1. Sound(r.bb) /\ r.bb.size = b.size /\ r.bb.position = b.position
  BY CapacitySafe DEF Safe
<1>2. b.size \in Nat /\ b.size + 0 = b.size
  BY SoundNumbers
<1>3. ASSUME NEW i \in 1..b.size PROVE r.bb.data[i] = b.data[i]
  <2>1. r.bb = b \/ r.bb = [Realloc(b, n) EXCEPT !.size = Lower(@, n)]
    <3>1. n # 0
      BY <1>2, <1>3
    <3> QED
      BY <3>1 DEF bb_capacity, Unchanged, Result
  <2>2. Realloc(b, n).data[i] = b.data[i] /\ Realloc(b, n) \in gxByteBuffer
    BY ReallocKeeps, SoundNumbers, ReallocFacts DEF Appends
  <2>3. [Realloc(b, n) EXCEPT !.size = Lower(@, n)].data = Realloc(b, n).data
    BY <2>2 DEF gxByteBuffer
  <2> HIDE DEF r
  <2> QED
    BY <2>1, <2>2, <2>3
<1> HIDE DEF r
<1>4. Appends(b, r.bb, <<>>)
  BY <1>1, <1>2, <1>3, EmptyMemory DEF Appends
<1> QED
  BY <1>4 DEF r

(* count bytes of the content at src have room at dest, and are moved.     *)
Movable(b, src, dest, count) ==
  /\ Sound(b) /\ src \in Nat /\ dest \in Nat /\ count \in Nat \ {0}
  /\ src + count <= b.size /\ dest + count <= b.capacity
  /\ dest + count <= b.size \/ src <= dest

Moved(b, src, dest, count, c) ==
  /\ Sound(c) /\ c.size = dest + count /\ c.position = Lower(b.position, dest + count)
  /\ \A i \in 1..count : c.data[dest + i] = b.data[src + i]

LEMMA MoveBytes ==
  ASSUME NEW b, NEW src, NEW dest, NEW count, Movable(b, src, dest, count),
         NEW mem, NEW r, r = bb_move(b, src, dest, count, mem)
  PROVE  r.ret = OK /\ Moved(b, src, dest, count, r.bb)
<1> USE DEF Movable
<1> DEFINE c == Content(b, src, src + count)
           q == Put(b, dest, c)
           moved == [q EXCEPT !.size = dest + count,
                              !.position = Lower(b.position, dest + count)]
           n == (IF src > dest THEN src ELSE dest) + count
<1>1. /\ b \in gxByteBuffer /\ b.size \in Nat /\ b.position \in Nat /\ b.capacity \in Nat
      /\ b.size <= b.capacity /\ b.capacity = Len(b.data)
  BY SoundNumbers
<1>2. r = Result(OK, moved, n)
  <2>1. ~ (b.capacity < dest + count) /\ ~ (src > dest /\ b.size < dest + count)
    BY <1>1
  <2>2. Unchanged(OK, b).ret = OK /\ Unchanged(OK, b).bb = b
    BY DEF Unchanged, Result
  <2> QED
    BY <2>1, <2>2 DEF bb_move
<1>3. c \in Memory /\ Len(c) = count
  BY <1>1, ContentType
<1>4. \A i \in 1..count : c[i] = b.data[src + i]
  <2>1. ASSUME NEW i \in 1..count PROVE c[i] = b.data[src + i]
    <3>1. src + i <= Len(b.data) /\ src + count - src = count
      BY <1>1
    <3> QED
      BY <3>1 DEF Content
  <2> QED
    BY <2>1
<1> HIDE DEF c
<1>5. /\ q \in gxByteBuffer /\ Len(q.data) = Len(b.data) /\ q.capacity = b.capacity
      /\ \A i \in 1..Len(b.data) :
           q.data[i] = IF i \in (dest + 1)..(dest + count) THEN c[i - dest] ELSE b.data[i]
  <2>1. dest + Len(c) = dest + count
    BY <1>3
  <2>2. /\ q \in gxByteBuffer /\ Len(q.data) = Len(b.data) /\ q.capacity = b.capacity
    BY <1>1, <1>3, PutFacts
  <2>3. \A i \in 1..Len(b.data) :
          q.data[i] = IF i \in (dest + 1)..(dest + Len(c)) THEN c[i - dest] ELSE b.data[i]
    BY <1>1, <1>3, PutBytes
  <2> HIDE DEF q
  <2> QED
    BY <2>1, <2>2, <2>3
<1>6. \A i \in 1..count : q.data[dest + i] = b.data[src + i]
  <2>1. ASSUME NEW i \in 1..count PROVE q.data[dest + i] = b.data[src + i]
    <3>1. dest + i \in 1..Len(b.data) /\ dest + i \in (dest + 1)..(dest + count)
          /\ (dest + i) - dest = i
      BY <1>1
    <3> QED
      BY <1>4, <1>5, <3>1
  <2> QED
    BY <2>1
<1> HIDE DEF q
<1>7. Lower(b.position, dest + count) \in Nat /\ Lower(b.position, dest + count) <= dest + count
  BY <1>1 DEF Lower
<1>8. /\ moved \in gxByteBuffer /\ moved.size = dest + count /\ moved.data = q.data
      /\ moved.position = Lower(b.position, dest + count) /\ moved.capacity = b.capacity
  <2> DEFINE z == dest + count
             l == Lower(b.position, dest + count)
  <2>1. z \in Nat /\ l \in Nat /\ moved = [q EXCEPT !.size = z, !.position = l]
    BY <1>7
  <2> HIDE DEF z, l, moved
  <2>2. /\ moved \in gxByteBuffer /\ moved.size = z /\ moved.data = q.data
        /\ moved.position = l /\ moved.capacity = b.capacity
    BY <1>5, <2>1 DEF gxByteBuffer
  <2> QED
    BY <2>2 DEF z, l
<1> HIDE DEF moved
<1>9. Sound(moved)
  BY <1>1, <1>5, <1>7, <1>8 DEF Sound
<1>10. r.ret = OK /\ r.bb = moved
  BY <1>2 DEF Result
<1> QED
  BY <1>6, <1>8, <1>9, <1>10 DEF Moved

(* Bytes written over the content.                                         *)
LEMMA PutWithin ==
  ASSUME NEW b, Sound(b), NEW at \in Nat, NEW s \in Memory, at + Len(s) <= b.size
  PROVE  LET p == Put(b, at, s) IN
         /\ Sound(p) /\ p.size = b.size /\ p.position = b.position
         /\ \A i \in 1..b.size :
              p.data[i] = IF i \in (at + 1)..(at + Len(s)) THEN s[i - at] ELSE b.data[i]
<1> DEFINE p == Put(b, at, s)
<1>1. /\ b \in gxByteBuffer /\ b.size \in Nat /\ b.position \in Nat /\ b.position <= b.size
      /\ b.size <= b.capacity /\ b.capacity = Len(b.data) /\ b.capacity \in Nat
  BY SoundNumbers
<1>2. /\ p \in gxByteBuffer /\ Len(p.data) = Len(b.data) /\ p.capacity = b.capacity
      /\ p.size = b.size /\ p.position = b.position
  BY <1>1, PutFacts
<1>3. \A i \in 1..Len(b.data) :
        p.data[i] = IF i \in (at + 1)..(at + Len(s)) THEN s[i - at] ELSE b.data[i]
  BY <1>1, PutBytes
<1> HIDE DEF p
<1>4. Sound(p)
  BY <1>1, <1>2 DEF Sound
<1>5. \A i \in 1..b.size : i \in 1..Len(b.data)
  BY <1>1
<1>6. /\ Sound(p) /\ p.size = b.size /\ p.position = b.position
      /\ \A i \in 1..b.size :
           p.data[i] = IF i \in (at + 1)..(at + Len(s)) THEN s[i - at] ELSE b.data[i]
  BY <1>2, <1>3, <1>4, <1>5
<1> QED
  BY <1>6 DEF p

(* A sequence written in front of another, byte by byte.                   *)
LEMMA Prepended ==
  ASSUME NEW s \in Memory, NEW u \in Memory, NEW v \in Memory,
         Len(v) = Len(s) + Len(u),
         \A i \in 1..Len(s) : v[i] = s[i],
         \A i \in 1..Len(u) : v[Len(s) + i] = u[i]
  PROVE  v = s \o u
<1>1. Len(s) \in Nat /\ Len(u) \in Nat
  BY DEF Memory
<1>2. /\ s \o u \in Memory /\ Len(s \o u) = Len(s) + Len(u)
      /\ \A i \in 1..(Len(s) + Len(u)) :
           (s \o u)[i] = IF i <= Len(s) THEN s[i] ELSE u[i - Len(s)]
  BY BehindBytes DEF Memory
<1>3. ASSUME NEW i \in 1..(Len(s) + Len(u)) PROVE v[i] = (s \o u)[i]
  <2>1. CASE i <= Len(s)
    <3>1. i \in 1..Len(s)
      BY <1>1, <2>1
    <3> QED
      BY <1>2, <2>1, <3>1
  <2>2. CASE ~ (i <= Len(s))
    <3>1. i - Len(s) \in 1..Len(u) /\ Len(s) + (i - Len(s)) = i
      BY <1>1, <2>2
    <3> QED
      BY <1>2, <2>2, <3>1
  <2> QED
    BY <2>1, <2>2
<1> QED
  BY <1>2, <1>3, SameBytes DEF Memory

(* bb_insert puts all of s in front of the queue or nothing.               *)
LEMMA InsertPrepends ==
  ASSUME NEW b, Sound(b), b.position = 0, NEW s \in Memory, NEW mem \in BOOLEAN
  PROVE  Unread(bb_insert(s, b, mem).bb) \in {s \o Unread(b), Unread(b)}
<1> DEFINE a == bb_capacity(b, b.size + Len(s), mem)
           m == bb_move(a.bb, 0, Len(s), b.size, mem)
           p == Put(m.bb, 0, s)
           r == bb_insert(s, b, mem)
           u == Unread(b)
<1>1. b.size \in Nat /\ Len(s) \in Nat
  BY SoundNumbers DEF Memory
<1>2. r = IF b.size = 0 THEN bb_set(b, s, mem)
          ELSE IF a.ret # OK THEN a
          ELSE IF m.ret # OK THEN m
          ELSE Result(OK, p, m.touched)
  BY DEF bb_insert
<1>3. u \in Memory /\ Len(u) = b.size /\ \A i \in 1..b.size : u[i] = b.data[i]
  <2>1. /\ u \in Memory /\ Len(u) = b.size - b.position
        /\ \A i \in 1..(b.size - b.position) : u[i] = b.data[b.position + i]
    BY UnreadBytes
  <2>2. b.size - b.position = b.size /\ \A i \in 1..b.size : b.position + i = i
    BY <1>1
  <2> QED
    BY <2>1, <2>2
<1> SUFFICES Unread(r.bb) \in {s \o u, u}
  OBVIOUS
<1> HIDE DEF r
<1>4. CASE b.size = 0
  <2>1. Adds(b, r, s)
    BY <1>2, <1>4, SetAdds
  <2>2. Unread(r.bb) = u \o s \/ Unread(r.bb) = u
    BY <2>1, AppendsUnread, KeptUnread DEF Adds
  <2>3. u = <<>>
    <3>1. u \in Memory /\ Len(u) = 0
      BY <1>3, <1>4
    <3> HIDE DEF u
    <3> QED
      BY <3>1 DEF Memory
  <2> HIDE DEF u
  <2>4. u \o s = s \o u
    BY <2>3 DEF Memory
  <2> QED
    BY <2>2, <2>4
<1>5. CASE b.size # 0
  <2>1. b.size + Len(s) \in Nat /\ b.size + Len(s) >= b.size
    BY <1>1
  <2>2. /\ Appends(b, a.bb, <<>>) /\ Safe(a)
        /\ a.ret = OK => b.size + Len(s) <= a.bb.capacity
    BY <2>1, CapacityKeeps, CapacitySafe
  <2>3. CASE a.ret # OK
    <3>1. r = a
      BY <1>2, <1>5, <2>3
    <3> QED
      BY <2>2, <3>1, KeptUnread
  <2>4. CASE a.ret = OK
    <3> DEFINE c == a.bb
               z == b.size
               k == Len(s)
    <3>1. /\ Sound(c) /\ c.size = z /\ c.position = 0 /\ k + z <= c.capacity
          /\ \A i \in 1..z : c.data[i] = b.data[i]
      <4>1. b.size + 0 = b.size /\ b.size + Len(s) = Len(s) + b.size
        BY <1>1
      <4> QED
        BY <2>2, <2>4, <4>1, EmptyMemory DEF Appends
    <3>2. m = bb_move(c, 0, k, z, mem) /\ p = Put(m.bb, 0, s) /\ z # 0
      BY <1>5
    <3>3. z \in Nat /\ k \in Nat /\ k = Len(s)
      BY <1>1
    <3> HIDE DEF c, z, k, a, m
    <3>4. /\ m.ret = OK /\ Sound(m.bb) /\ m.bb.size = k + z
          /\ m.bb.position = Lower(c.position, k + z)
          /\ \A i \in 1..z : m.bb.data[k + i] = c.data[0 + i]
      <4> DEFINE o == 0
      <4>1. Movable(c, o, k, z)
        BY <3>1, <3>2, <3>3 DEF Movable
      <4>2. m = bb_move(c, o, k, z, mem)
        BY <3>2
      <4> HIDE DEF o
      <4>3. m.ret = OK /\ Moved(c, o, k, z, m.bb)
        BY <4>1, <4>2, MoveBytes, Zenon
      <4> QED
        BY <4>3 DEF o, Moved
    <3>5. m.bb.position = 0
      BY <3>1, <3>3, <3>4 DEF Lower
    <3>6. /\ Sound(p) /\ p.size = k + z /\ p.position = 0
          /\ \A i \in 1..(k + z) :
               p.data[i] = IF i \in (0 + 1)..(0 + k) THEN s[i - 0] ELSE m.bb.data[i]
      <4> DEFINE d == m.bb
                 o == 0
      <4>1. Sound(d) /\ o \in Nat /\ o + Len(s) <= d.size /\ p = Put(d, o, s)
        BY <3>3, <3>4
      <4>2. d.size = k + z /\ d.position = 0
        BY <3>4, <3>5
      <4> HIDE DEF o, d, p
      <4>3. /\ Sound(p) /\ p.size = d.size /\ p.position = d.position
            /\ \A i \in 1..d.size :
                 p.data[i] = IF i \in (o + 1)..(o + Len(s)) THEN s[i - o] ELSE d.data[i]
        BY <4>1, PutWithin, ZenonT(60)
      <4> QED
        BY <3>3, <4>2, <4>3 DEF o, d
    <3> DEFINE v == Unread(p)
    <3> HIDE DEF p
    <3>7. /\ v \in Memory /\ Len(v) = k + z /\ \A i \in 1..(k + z) : v[i] = p.data[i]
      <4>1. p.size - p.position = k + z /\ \A i \in 1..(k + z) : p.position + i = i
        BY <3>3, <3>6
      <4> QED
        BY <3>6, <4>1, UnreadBytes
    <3> HIDE DEF v, u
    <3>8. \A i \in 1..k : v[i] = s[i]
      <4>1. ASSUME NEW i \in 1..k PROVE v[i] = s[i]
        <5>1. i \in 1..(k + z) /\ i \in (0 + 1)..(0 + k) /\ i - 0 = i
          BY <3>3
        <5> QED
          BY <3>6, <3>7, <5>1
      <4> QED
        BY <4>1
    <3>9. \A i \in 1..z : v[k + i] = u[i]
      <4>1. ASSUME NEW i \in 1..z PROVE v[k + i] = u[i]
        <5>1. k + i \in 1..(k + z) /\ k + i \notin (0 + 1)..(0 + k) /\ 0 + i = i
          BY <3>3
        <5>2. v[k + i] = c.data[i]
          BY <3>4, <3>6, <3>7, <5>1
        <5> QED
          BY <1>3, <3>1, <5>2 DEF z
      <4> QED
        BY <4>1
    <3>10. Len(u) = z
      BY <1>3 DEF z
    <3>11. v = s \o u
      BY <1>3, <3>3, <3>7, <3>8, <3>9, <3>10, Prepended
    <3>12. r.bb = p
      BY <1>2, <1>5, <2>4, <3>4 DEF Result
    <3> QED
      BY <3>11, <3>12 DEF v
  <2> QED
    BY <2>3, <2>4
<1> QED
  BY <1>4, <1>5

(* A byte of the content that is overwritten is overwritten in the queue.  *)
LEMMA PatchBytes ==
  ASSUME NEW b, Sound(b), NEW index \in b.position..(b.size - 1), NEW v \in Byte,
         NEW mem \in BOOLEAN, NEW c, c = bb_setByIndex(b, index, <<v>>, mem).bb
  PROVE  \/ Unread(c) = Unread(b)
         \/ /\ index - b.position + 1 \in 1..(b.size - b.position)
            /\ Unread(c) = [Unread(b) EXCEPT ![index - b.position + 1] = v]
<1> DEFINE s == <<v>>
           a == bb_allocate(b, index, Len(s), mem)
           d == a.bb
           p == Put(d, index, s)
           k == index - b.position + 1
           n == b.size - b.position
           u == Unread(b)
           w == Unread(c)
<1>1. /\ b.size \in Nat /\ b.position \in Nat /\ b.position <= b.size /\ index \in Nat
      /\ k \in 1..n /\ n \in Nat /\ s \in Memory /\ Len(s) = 1 /\ s[1] = v
  BY SoundNumbers DEF Memory
<1>2. Appends(b, d, <<>>)
  BY <1>1, AllocateKeeps
<1>3. c = IF a.ret # OK THEN d ELSE p
  BY DEF bb_setByIndex, Result
<1> HIDE DEF a, d
<1>4. CASE c = d
  BY <1>2, <1>4, KeptUnread
<1>5. CASE c = p
  <2>1. /\ Sound(d) /\ d.size = b.size /\ d.position = b.position
        /\ \A i \in 1..b.size : d.data[i] = b.data[i]
    <3>1. b.size + 0 = b.size
      BY <1>1
    <3> QED
      BY <1>2, <3>1, EmptyMemory DEF Appends
  <2>2. index + Len(s) <= d.size
    BY <1>1, <2>1
  <2> HIDE DEF s, p
  <2>3. /\ Sound(p) /\ p.size = d.size /\ p.position = d.position
        /\ \A i \in 1..d.size :
             p.data[i] = IF i \in (index + 1)..(index + Len(s)) THEN s[i - index]
                         ELSE d.data[i]
    BY <1>1, <2>1, <2>2, PutWithin DEF p
  <2>4. /\ u \in Memory /\ Len(u) = n /\ \A i \in 1..n : u[i] = b.data[b.position + i]
    BY UnreadBytes
  <2>5. /\ w \in Memory /\ Len(w) = n /\ \A i \in 1..n : w[i] = c.data[b.position + i]
    BY <1>5, <2>1, <2>3, UnreadBytes
  <2> HIDE DEF u, w
  <2>6. ASSUME NEW i \in 1..n PROVE w[i] = IF i = k THEN v ELSE u[i]
    <3>1. b.position + i \in 1..b.size
      BY <1>1
    <3>2. CASE i = k
      <4>1. b.position + i \in (index + 1)..(index + Len(s)) /\ (b.position + i) - index = 1
        BY <1>1, <3>2
      <4> QED
        BY <1>1, <1>5, <2>1, <2>3, <2>5, <3>1, <3>2, <4>1
    <3>3. CASE i # k
      <4>1. b.position + i \notin (index + 1)..(index + Len(s))
        BY <1>1, <3>3
      <4> QED
        BY <1>5, <2>1, <2>3, <2>4, <2>5, <3>1, <3>3, <4>1
    <3> QED
      BY <3>2, <3>3
  <2> HIDE DEF k, n
  <2>7. w = [u EXCEPT ![k] = v]
    <3> DEFINE e == [u EXCEPT ![k] = v]
    <3>1. e \in Memory /\ Len(e) = n /\ \A i \in 1..n : e[i] = IF i = k THEN v ELSE u[i]
      BY <1>1, <2>4 DEF Memory
    <3> HIDE DEF e
    <3>2. w = e
      BY <2>5, <2>6, <3>1, SameBytes DEF Memory
    <3> QED
      BY <3>2 DEF e
  <2> QED
    BY <1>1, <2>7 DEF k, n, u, w
<1> QED
  BY <1>3, <1>4, <1>5

(* Bytes delivered from the position on are the first of the queue, and    *)
(* what is left after them is the rest.                                    *)
LEMMA ReadBytes ==
  ASSUME NEW b, Sound(b), NEW n \in Nat, b.position + n <= b.size
  PROVE  /\ n <= Len(Unread(b))
         /\ Content(b, b.position, b.position + n) = SubSeq(Unread(b), 1, n)
         /\ Unread([b EXCEPT !.position = b.position + n])
              = SubSeq(Unread(b), n + 1, Len(Unread(b)))
<1> DEFINE u == Unread(b)
           m == b.size - b.position
           c == Content(b, b.position, b.position + n)
           e == [b EXCEPT !.position = b.position + n]
           w == Unread(e)
<1>1. /\ b \in gxByteBuffer /\ b.size \in Nat /\ b.position \in Nat /\ m \in Nat
      /\ b.capacity \in Nat /\ b.size <= b.capacity /\ b.capacity = Len(b.data) /\ n <= m
  BY SoundNumbers
<1>2. u \in Memory /\ Len(u) = m /\ \A i \in 1..m : u[i] = b.data[b.position + i]
  BY UnreadBytes
<1>3. c \in Memory /\ Len(c) = n
  BY <1>1, ContentType
<1>4. \A i \in 1..n : c[i] = b.data[b.position + i]
  <2>1. ASSUME NEW i \in 1..n PROVE c[i] = b.data[b.position + i]
    <3> DEFINE o == b.position
    <3>1. o + i <= Len(b.data) /\ o + n - o = n /\ o \in Nat
      BY <1>1
    <3> HIDE DEF o
    <3>2. Content(b, o, o + n)[i] = b.data[o + i]
      BY <3>1 DEF Content
    <3> QED
      BY <3>2 DEF o
  <2> QED
    BY <2>1
<1>5. /\ Sound(e) /\ e.position = b.position + n /\ e.size = b.size /\ e.data = b.data
  <2> DEFINE z == b.position + n
  <2>1. z \in Nat /\ z <= b.size
    BY <1>1
  <2> HIDE DEF z
  <2>2. /\ e \in gxByteBuffer /\ e.position = z /\ e.size = b.size /\ e.data = b.data
        /\ e.capacity = b.capacity
    BY <1>1, <2>1 DEF gxByteBuffer, z
  <2> HIDE DEF e
  <2>3. Sound(e)
    BY <1>1, <2>1, <2>2 DEF Sound
  <2> QED
    BY <2>2, <2>3 DEF z
<1> HIDE DEF u, c, e
<1>6. w \in Memory /\ Len(w) = m - n /\ \A i \in 1..(m - n) : w[i] = u[n + i]
  <2>1. e.size - e.position = m - n
    BY <1>1, <1>5
  <2>2. /\ w \in Memory /\ Len(w) = m - n
        /\ \A i \in 1..(m - n) : w[i] = b.data[(b.position + n) + i]
    BY <1>5, <2>1, UnreadBytes
  <2> HIDE DEF w
  <2>3. ASSUME NEW i \in 1..(m - n) PROVE w[i] = u[n + i]
    <3>1. n + i \in 1..m /\ (b.position + n) + i = b.position + (n + i)
      BY <1>1
    <3> QED
      BY <1>2, <2>2, <3>1
  <2> QED
    BY <2>2, <2>3
<1> HIDE DEF w, m
<1>7. m \in Nat /\ n \in 0..m
  BY <1>1
<1>8. c = SubSeq(u, 1, n)
  <2> DEFINE t == SubSeq(u, 1, n)
  <2>1. t \in Memory /\ Len(t) = n /\ \A i \in 1..n : t[i] = u[i]
    BY <1>2, <1>7 DEF Memory
  <2> HIDE DEF t
  <2>2. \A i \in 1..n : c[i] = t[i]
    BY <1>2, <1>4, <1>7, <2>1
  <2>3. c = t
    BY <1>3, <2>1, <2>2, SameBytes DEF Memory
  <2> QED
    BY <2>3 DEF t
<1>9. w = SubSeq(u, n + 1, Len(u))
  <2> DEFINE t == SubSeq(u, n + 1, m)
  <2>1. t \in Memory /\ Len(t) = m - n /\ \A i \in 1..(m - n) : t[i] = u[n + i]
    BY <1>2, <1>7 DEF Memory
  <2> HIDE DEF t
  <2>2. w = t
    BY <1>6, <2>1, SameBytes DEF Memory
  <2> QED
    BY <1>2, <2>2 DEF t
<1> QED
  BY <1>1, <1>2, <1>8, <1>9 DEF u, c, e, w, m

(* A byte looked up in the content is that byte of the queue.              *)
LEMMA PeekByte ==
  ASSUME NEW b, Sound(b), NEW index \in b.position..(b.size - 1)
  PROVE  /\ index - b.position + 1 \in DOMAIN Unread(b)
         /\ Content(b, index, index + 1) = <<Unread(b)[index - b.position + 1]>>
<1> DEFINE k == index - b.position + 1
           c == Content(b, index, index + 1)
           u == Unread(b)
<1>1. /\ b \in gxByteBuffer /\ b.size \in Nat /\ b.position \in Nat /\ index \in Nat
      /\ b.size <= Len(b.data) /\ k \in 1..(b.size - b.position) /\ b.position + k = index + 1
  BY SoundNumbers
<1>2. u \in Memory /\ Len(u) = b.size - b.position /\ u[k] = b.data[index + 1]
  BY <1>1, UnreadBytes
<1>3. c \in Memory /\ Len(c) = 1
  BY <1>1, ContentType
<1>4. c[1] = b.data[index + 1]
  <2>1. index + 1 <= Len(b.data) /\ index + 1 - index = 1
    <3>1. Len(b.data) \in Nat
      BY <1>1 DEF gxByteBuffer, Memory
    <3> QED
      BY <1>1, <3>1
  <2> QED
    BY <2>1 DEF Content
<1> HIDE DEF c, u, k
<1>5. c = <<u[k]>>
  BY <1>2, <1>3, <1>4 DEF Memory
<1>6. k \in DOMAIN u
  BY <1>1, <1>2 DEF Memory
<1> QED
  BY <1>5, <1>6 DEF c, u, k

(* Nothing unread, nothing queued.                                         *)
LEMMA NothingUnread ==
  ASSUME NEW b, Sound(b), b.position = b.size
  PROVE  Unread(b) = <<>>
<1>1. Unread(b) \in Memory /\ Len(Unread(b)) = 0
  BY SoundNumbers, UnreadBytes
<1> HIDE DEF Unread
<1> QED
  BY <1>1 DEF Memory

(* Closing up what was read leaves the queue.                              *)
LEMMA CloseKeeps ==
  ASSUME NEW b, Sound(b), b.position < b.size, NEW index \in 0..b.position, NEW r,
         r = bb_move(b, b.position, index, b.size - b.position, TRUE)
  PROVE  Unread([r.bb EXCEPT !.position = index]) = Unread(b)
<1> DEFINE n == b.size - b.position
           o == b.position
           m == TRUE
           d == r.bb
           e == [d EXCEPT !.position = index]
           u == Unread(b)
           w == Unread(e)
<1>1. /\ b.size \in Nat /\ o \in Nat /\ b.capacity \in Nat /\ b.size <= b.capacity
      /\ n \in Nat \ {0} /\ index \in Nat /\ index <= o /\ o + n = b.size
  BY SoundNumbers
<1>2. Movable(b, o, index, n)
  BY <1>1 DEF Movable
<1>3. r = bb_move(b, o, index, n, m)
  OBVIOUS
<1>4. u \in Memory /\ Len(u) = n /\ \A i \in 1..n : u[i] = b.data[o + i]
  BY UnreadBytes
<1> HIDE DEF m, n, o
<1>5. r.ret = OK /\ Moved(b, o, index, n, d)
  BY <1>2, <1>3, MoveBytes, Zenon
<1> HIDE DEF d
<1>6. Sound(d) /\ d.size = index + n /\ \A i \in 1..n : d.data[index + i] = b.data[o + i]
  BY <1>5 DEF Moved
<1>7. Sound(e) /\ e.position = index /\ e.size = d.size /\ e.data = d.data
  <2>1. /\ d \in gxByteBuffer /\ index <= d.size /\ d.size <= d.capacity
        /\ d.capacity = Len(d.data)
    BY <1>1, <1>6, SoundNumbers
  <2>2. /\ e \in gxByteBuffer /\ e.position = index /\ e.size = d.size /\ e.data = d.data
        /\ e.capacity = d.capacity
    BY <1>1, <2>1 DEF gxByteBuffer
  <2> HIDE DEF e
  <2> QED
    BY <2>1, <2>2 DEF Sound
<1> HIDE DEF e, u
<1>8. w \in Memory /\ Len(w) = n /\ \A i \in 1..n : w[i] = d.data[index + i]
  <2>1. e.size - e.position = n
    BY <1>1, <1>6, <1>7
  <2> QED
    BY <1>7, <2>1, UnreadBytes
<1> HIDE DEF w
<1>9. w = u
  BY <1>4, <1>6, <1>8, SameBytes DEF Memory
<1> QED
  BY <1>9 DEF w, u, e, d

(* The queues of ByteQueue under the refinement mapping.                   *)
Unreads == [b \in Buffers |-> Unread(bb[b])]

LEMMA UnreadsType ==
  ASSUME BInv
  PROVE  /\ Unreads \in [Buffers -> Memory]
         /\ \A b \in Buffers : Unreads[b] = Unread(bb[b]) /\ Sound(bb[b])
<1>1. ASSUME NEW b \in Buffers PROVE Sound(bb[b]) /\ Unread(bb[b]) \in Memory
  BY UnreadBytes DEF BInv
<1> QED
  BY <1>1 DEF Unreads

(* The queue of a buffer that is replaced is replaced, and no other.       *)
LEMMA QueueReplaced ==
  ASSUME BInv, NEW b \in Buffers, NEW y, bb' = [bb EXCEPT ![b] = y]
  PROVE  Unreads' = [Unreads EXCEPT ![b] = Unread(y)]
<1>1. DOMAIN bb = Buffers
  BY DEF BInv
<1>2. ASSUME NEW d \in Buffers
      PROVE  Unread(bb'[d]) = IF d = b THEN Unread(y) ELSE Unread(bb[d])
  BY <1>1
<1>3. Unreads' = [d \in Buffers |-> Unread(bb'[d])]
  BY DEF Unreads
<1>4. [Unreads EXCEPT ![b] = Unread(y)]
        = [d \in Buffers |-> IF d = b THEN Unread(y) ELSE Unread(bb[d])]
  BY DEF Unreads
<1> QED
  BY <1>2, <1>3, <1>4

(* Each change of the queues that a step of ByteQueue allows.              *)
LEMMA QueueAdd ==
  ASSUME NEW b \in Buffers, NEW s \in Appendable, got' = <<>>,
         Unreads' = [Unreads EXCEPT ![b] = Unreads[b] \o s]
  PROVE  Queues!Next
<1>1. Queues!Add(b)
  BY DEF Queues!Add, Unreads, Unread
<1> QED
  BY <1>1 DEF Queues!Next

LEMMA QueuePrepend ==
  ASSUME NEW b \in Buffers, NEW s \in Appendable, got' = <<>>,
         Unreads' = [Unreads EXCEPT ![b] = s \o Unreads[b]]
  PROVE  Queues!Next
<1>1. Queues!Prepend(b)
  BY DEF Queues!Prepend, Unreads, Unread
<1> QED
  BY <1>1 DEF Queues!Next

LEMMA QueueTake ==
  ASSUME NEW b \in Buffers, NEW n \in 1..Len(Unreads[b]),
         got' = SubSeq(Unreads[b], 1, n),
         Unreads' = [Unreads EXCEPT ![b] = SubSeq(Unreads[b], n + 1, Len(Unreads[b]))]
  PROVE  Queues!Next
<1>1. Queues!Take(b)
  BY DEF Queues!Take, Queues!First, Queues!Rest, Unreads, Unread
<1> QED
  BY <1>1 DEF Queues!Next

LEMMA QueueSkip ==
  ASSUME NEW b \in Buffers, Unreads[b] \in Appendable, got' = <<>>,
         Unreads' = [Unreads EXCEPT ![b] = <<>>]
  PROVE  Queues!Next
<1>1. Queues!Skip(b)
  BY DEF Queues!Skip, Unreads, Unread
<1> QED
  BY <1>1 DEF Queues!Next

LEMMA QueuePeek ==
  ASSUME NEW b \in Buffers, NEW n \in DOMAIN Unreads[b], got' = <<Unreads[b][n]>>,
         Unreads' = Unreads
  PROVE  Queues!Next
<1>1. Queues!Peek(b)
  BY DEF Queues!Peek, Unreads, Unread
<1> QED
  BY <1>1 DEF Queues!Next

LEMMA QueuePatch ==
  ASSUME NEW b \in Buffers, NEW n \in DOMAIN Unreads[b], NEW t \in Strings, got' = <<>>,
         Unreads' = [Unreads EXCEPT ![b] = [Unreads[b] EXCEPT ![n] = t[1]]]
  PROVE  Queues!Next
<1>1. PICK v : v = t[1]
  BY Zenon
<1>2. v \in {s[1] : s \in Strings}
  BY <1>1
<1>3. Unreads' = [Unreads EXCEPT ![b][n] = v]
  BY <1>1
<1> HIDE DEF Unreads
<1>4. \E k \in DOMAIN Unreads[b], w \in {s[1] : s \in Strings} :
         Unreads' = [Unreads EXCEPT ![b][k] = w] /\ got' = <<>>
  BY <1>2, <1>3
<1>5. Queues!Patch(b)
  BY <1>4 DEF Queues!Patch, Unreads, Unread
<1> QED
  BY <1>5 DEF Queues!Next

LEMMA QueueClear ==
  ASSUME NEW b \in Buffers, got' = <<>>, Unreads' = [Unreads EXCEPT ![b] = <<>>]
  PROVE  Queues!Next
<1>1. Queues!Clear(b)
  BY DEF Queues!Clear, Unreads, Unread
<1> QED
  BY <1>1 DEF Queues!Next

LEMMA QueueNothing ==
  ASSUME got' = <<>>, Unreads' = Unreads
  PROVE  Queues!Next
<1>1. Queues!Nothing
  BY DEF Queues!Nothing, Unreads, Unread
<1> QED
  BY <1>1 DEF Queues!Next

LEMMA QueueTransfer ==
  ASSUME NEW b \in Buffers, NEW c \in Buffers, b # c, NEW n \in 1..Len(Unreads[b]),
         got' = <<>>,
         Unreads' = [Unreads EXCEPT ![b] = SubSeq(Unreads[b], n + 1, Len(Unreads[b])),
                                    ![c] = Unreads[c] \o SubSeq(Unreads[b], 1, n)]
  PROVE  Queues!Next
<1>1. Queues!Transfer(b, c)
  BY DEF Queues!Transfer, Queues!First, Queues!Rest, Unreads, Unread
<1> QED
  BY <1>1 DEF Queues!Next

(* A call that adds s to the content or leaves it.                         *)
LEMMA AddsMap ==
  ASSUME BInv, NEW b \in Buffers, NEW s \in Appendable, s \in Memory, NEW r,
         Adds(bb[b], r, s), Left(b, r)
  PROVE  Queues!Next
<1> DEFINE x == bb[b]
<1>1. Sound(x) /\ Unreads[b] = Unread(x) /\ Unreads \in [Buffers -> Memory]
  BY UnreadsType
<1>2. bb' = [bb EXCEPT ![b] = r.bb] /\ got' = <<>>
  BY DEF Left
<1>3. Unreads' = [Unreads EXCEPT ![b] = Unread(r.bb)]
  BY <1>2, QueueReplaced
<1> HIDE DEF x
<1>4. Adds(x, r, s)
  BY DEF x
<1>5. CASE r.ret = OK
  <2>1. Unread(r.bb) = Unreads[b] \o s
    BY <1>1, <1>4, <1>5, AppendsUnread DEF Adds
  <2> QED
    BY <1>2, <1>3, <2>1, QueueAdd
<1>6. CASE r.ret # OK
  <2>1. Unread(r.bb) = Unreads[b]
    BY <1>1, <1>4, <1>6, KeptUnread DEF Adds
  <2>2. Unreads' = Unreads
    BY <1>1, <1>3, <2>1
  <2> QED
    BY <1>2, <2>2, QueueNothing
<1> QED
  BY <1>5, <1>6

(* A call that leaves the queue.                                           *)
LEMMA KeepsMap ==
  ASSUME BInv, NEW b \in Buffers, NEW r, Unread(r.bb) = Unread(bb[b]), Left(b, r)
  PROVE  Queues!Next
<1>1. Unreads[b] = Unread(bb[b]) /\ Unreads \in [Buffers -> Memory]
  BY UnreadsType
<1>2. bb' = [bb EXCEPT ![b] = r.bb] /\ got' = <<>>
  BY DEF Left
<1>3. Unreads' = [Unreads EXCEPT ![b] = Unread(r.bb)]
  BY <1>2, QueueReplaced
<1>4. Unreads' = Unreads
  BY <1>1, <1>3
<1> QED
  BY <1>2, <1>4, QueueNothing

(* Appends, patches and reservations of the memory are additions to the    *)
(* queue, changes within it or nothing.                                    *)
LEMMA WritesMap ==
  ASSUME BInv, NEW b \in Buffers, NEW mem \in BOOLEAN,
         \/ SetBytes(b, mem) \/ SetString(b, mem)
         \/ SetUInt8(b, mem) \/ SetUInt16(b, mem) \/ SetUInt32(b, mem)
         \/ SetUInt8ByIndex(b, mem) \/ Reserve(b, mem) \/ Insert(b, mem)
  PROVE  Queues!Next
<1> DEFINE x == bb[b]
<1>1. /\ Sound(x) /\ x.size \in Nat /\ x.position \in Nat
      /\ Unreads[b] = Unread(x) /\ Unreads \in [Buffers -> Memory]
  BY UnreadsType, SoundNumbers
<1> HIDE DEF x
<1>2. ASSUME NEW s \in Appendable, s \in Memory, NEW r, Adds(x, r, s), Growing(b, r, mem)
      PROVE  Queues!Next
  BY <1>2, AddsMap DEF Growing, x
<1>3. CASE SetBytes(b, mem)
  <2>1. PICK s \in Strings : Growing(b, bb_set(x, s, mem), mem)
    BY <1>3 DEF SetBytes, x
  <2>2. s \in Memory /\ s \in Appendable
    BY StringFacts DEF Appendable
  <2> QED
    BY <1>1, <1>2, <2>1, <2>2, SetAdds
<1>4. CASE SetString(b, mem)
  <2>1. PICK s \in Strings : Growing(b, bb_addString(x, s, mem), mem)
    BY <1>4 DEF SetString, x
  <2>2. s \in Memory /\ s \in Appendable /\ s \in Seq(Byte)
    BY StringFacts DEF Appendable
  <2> QED
    BY <1>1, <1>2, <2>1, <2>2, AddStringAdds
<1>5. CASE SetUInt8(b, mem)
  <2>1. PICK s \in Strings : Growing(b, bb_setUInt8(x, s[1], mem), mem)
    BY <1>5 DEF SetUInt8, x
  <2>2. PICK t : t = <<s[1]>>
    BY Zenon
  <2>3. t \in Memory /\ t \in Appendable /\ Len(t) = 1
    BY <2>2, StringFacts DEF Appendable
  <2>4. bb_setUInt8(x, s[1], mem) = Appended(bb_setByIndex(x, x.size, t, mem), Len(t))
    BY <2>2, <2>3 DEF bb_setUInt8
  <2>5. Adds(x, bb_setUInt8(x, s[1], mem), t)
    BY <1>1, <2>3, <2>4, SetByIndexAdds
  <2> QED
    BY <1>2, <2>1, <2>3, <2>5
<1>6. CASE SetUInt16(b, mem)
  <2>1. PICK n \in Words : Growing(b, bb_setUInt16(x, n, mem), mem)
    BY <1>6 DEF SetUInt16, x
  <2>2. n \in Nat
    BY ByteBufferAssumption
  <2>3. UInt16Bytes(n) \in Memory /\ UInt16Bytes(n) \in Appendable
    BY <2>2, NumberBytes DEF Appendable
  <2> QED
    BY <1>1, <1>2, <2>1, <2>2, <2>3, SetUInt16Adds
<1>7. CASE SetUInt32(b, mem)
  <2>1. PICK n \in LongWords : Growing(b, bb_setUInt32(x, n, mem), mem)
    BY <1>7 DEF SetUInt32, x
  <2>2. n \in Nat
    BY ByteBufferAssumption
  <2>3. PICK t : t = UInt32Bytes(n)
    BY Zenon
  <2>4. t \in Memory /\ t \in Appendable /\ Len(t) = 4
    BY <2>2, <2>3, LongNumberBytes DEF Appendable
  <2>5. bb_setUInt32(x, n, mem) = Appended(bb_setByIndex(x, x.size, t, mem), Len(t))
    BY <2>3, <2>4 DEF bb_setUInt32
  <2>6. Adds(x, bb_setUInt32(x, n, mem), t)
    BY <1>1, <2>4, <2>5, SetByIndexAdds
  <2> QED
    BY <1>2, <2>1, <2>4, <2>6
<1>8. CASE SetUInt8ByIndex(b, mem)
  <2>1. PICK index \in x.position..(x.size - 1), s \in Strings :
          Call(b, bb_setByIndex(x, index, <<s[1]>>, mem))
    BY <1>8 DEF SetUInt8ByIndex, x
  <2>2. s[1] \in Byte
    BY StringFacts
  <2> DEFINE r == bb_setByIndex(x, index, <<s[1]>>, mem)
             k == index - x.position + 1
             c == r.bb
  <2>3. \/ Unread(c) = Unread(x)
        \/ /\ k \in 1..(x.size - x.position)
           /\ Unread(c) = [Unread(x) EXCEPT ![k] = s[1]]
    BY <1>1, <2>2, PatchBytes
  <2>4. Left(b, r)
    BY <2>1 DEF Call
  <2> HIDE DEF r, k
  <2>5. CASE Unread(c) = Unread(x)
    BY <2>4, <2>5, KeepsMap DEF x
  <2>6. CASE /\ k \in 1..(x.size - x.position)
             /\ Unread(c) = [Unread(x) EXCEPT ![k] = s[1]]
    <3>1. k \in DOMAIN Unreads[b]
      <4>1. DOMAIN Unread(x) = 1..Len(Unread(x))
        BY <1>1, UnreadBytes DEF Memory
      <4> QED
        BY <1>1, <2>6, <4>1, UnreadBytes
    <3>2. bb' = [bb EXCEPT ![b] = c] /\ got' = <<>>
      BY <2>4 DEF Left
    <3>3. Unreads' = [Unreads EXCEPT ![b] = Unread(c)]
      BY <3>2, QueueReplaced
    <3>4. Unreads' = [Unreads EXCEPT ![b] = [Unreads[b] EXCEPT ![k] = s[1]]]
      BY <1>1, <2>6, <3>3
    <3> QED
      BY <3>1, <3>2, <3>4, QueuePatch
  <2> QED
    BY <2>3, <2>5, <2>6
<1>9. CASE Reserve(b, mem)
  <2>1. PICK s \in Strings : Call(b, bb_capacity(x, x.size + Len(s), mem))
    BY <1>9 DEF Reserve, x
  <2>2. x.size + Len(s) \in Nat /\ x.size + Len(s) >= x.size
    BY <1>1, StringFacts
  <2> DEFINE r == bb_capacity(x, x.size + Len(s), mem)
  <2>3. Unread(r.bb) = Unread(x)
    BY <1>1, <2>2, CapacityKeeps, KeptUnread
  <2>4. Left(b, r)
    BY <2>1 DEF Call
  <2> HIDE DEF r
  <2> QED
    BY <2>3, <2>4, KeepsMap DEF x
<1>10. CASE Insert(b, mem)
  <2>1. PICK s \in Strings : Call(b, bb_insert(s, x, mem))
    BY <1>10 DEF Insert, x
  <2>2. x.position = 0
    BY <1>10 DEF Insert, x
  <2>3. s \in Memory /\ s \in Appendable
    BY StringFacts DEF Appendable
  <2> DEFINE r == bb_insert(s, x, mem)
  <2>4. Unread(r.bb) \in {s \o Unread(x), Unread(x)}
    BY <1>1, <2>2, <2>3, InsertPrepends
  <2>5. Left(b, r)
    BY <2>1 DEF Call
  <2> HIDE DEF r
  <2>6. CASE Unread(r.bb) = Unread(x)
    BY <2>5, <2>6, KeepsMap DEF x
  <2>7. CASE Unread(r.bb) = s \o Unread(x)
    <3>1. bb' = [bb EXCEPT ![b] = r.bb] /\ got' = <<>>
      BY <2>5 DEF Left
    <3>2. Unreads' = [Unreads EXCEPT ![b] = Unread(r.bb)]
      BY <3>1, QueueReplaced
    <3>3. Unreads' = [Unreads EXCEPT ![b] = s \o Unreads[b]]
      BY <1>1, <2>7, <3>2
    <3> QED
      BY <2>3, <3>1, <3>3, QueuePrepend
  <2> QED
    BY <2>4, <2>6, <2>7
<1> QED
  BY <1>3, <1>4, <1>5, <1>6, <1>7, <1>8, <1>9, <1>10

(* A read takes from the front of the queue what it delivers.              *)
LEMMA ReadMap ==
  ASSUME BInv, NEW b \in Buffers, NEW n \in Nat \ {0},
         bb[b].position + n <= bb[b].size,
         Deliver(b, bb[b].position, n), Advance(b, n)
  PROVE  Queues!Next
<1> DEFINE x == bb[b]
           u == Unread(x)
           e == [x EXCEPT !.position = x.position + n]
<1>1. Sound(x) /\ Unreads[b] = u
  BY UnreadsType
<1>2. /\ n <= Len(u)
      /\ Content(x, x.position, x.position + n) = SubSeq(u, 1, n)
      /\ Unread(e) = SubSeq(u, n + 1, Len(u))
  BY <1>1, ReadBytes
<1>3. bb' = [bb EXCEPT ![b] = e]
  BY DEF Advance
<1>4. got' = SubSeq(u, 1, n)
  BY <1>2 DEF Deliver
<1>5. Len(u) \in Nat
  BY <1>1, UnreadBytes
<1> HIDE DEF e, u
<1>6. Unreads' = [Unreads EXCEPT ![b] = Unread(e)]
  BY <1>3, QueueReplaced
<1>7. n \in 1..Len(Unreads[b])
  BY <1>1, <1>2, <1>5
<1>8. /\ got' = SubSeq(Unreads[b], 1, n)
      /\ Unreads' = [Unreads EXCEPT ![b] = SubSeq(Unreads[b], n + 1, Len(Unreads[b]))]
  BY <1>1, <1>2, <1>4, <1>6
<1> QED
  BY <1>7, <1>8, QueueTake

(* A refused read changes no queue.                                        *)
LEMMA RefusedMap ==
  ASSUME NEW c, Refused(c)
  PROVE  Queues!Next
<1>1. got' = <<>> /\ Unreads' = Unreads
  BY DEF Refused, Unreads
<1> QED
  BY <1>1, QueueNothing

(* A buffer that is left with nothing unread.                              *)
LEMMA EmptiedMap ==
  ASSUME BInv, NEW b \in Buffers, NEW y, Sound(y), y.position = y.size,
         Call(b, Unchanged(OK, y))
  PROVE  Queues!Next
<1>1. bb' = [bb EXCEPT ![b] = y] /\ got' = <<>>
  BY DEF Call, Left, Unchanged, Result
<1>2. Unread(y) = <<>>
  BY NothingUnread
<1>3. Unreads' = [Unreads EXCEPT ![b] = <<>>]
  BY <1>1, <1>2, QueueReplaced
<1> QED
  BY <1>1, <1>3, QueueClear

LEMMA ClearedNumbers ==
  ASSUME NEW b, Sound(b)
  PROVE  Sound(bb_clear(b)) /\ bb_clear(b).position = bb_clear(b).size
<1>1. b \in gxByteBuffer
  BY DEF Sound
<1>2. [b EXCEPT !.size = 0, !.position = 0].position = 0
  BY <1>1 DEF gxByteBuffer
<1>3. bb_clear(b).position = 0
  BY <1>2 DEF bb_clear, BYTE_BUFFER_INIT
<1> QED
  BY <1>3, ClearSafe

(* Clearing, declaring, attaching, closing up and reading.                 *)
LEMMA OthersMap ==
  ASSUME BInv, NEW b \in Buffers,
         \/ Clear(b) \/ Declare(b) \/ Attach(b) \/ Close(b)
         \/ GetUInt(b) \/ Get(b) \/ GetWhenComplete(b) \/ GetUInt8ByIndex(b)
         \/ Compare(b)
  PROVE  Queues!Next
<1> DEFINE x == bb[b]
           v == Available(bb[b])
<1>1. /\ Sound(x) /\ x \in gxByteBuffer /\ x.size \in Nat /\ x.position \in Nat
      /\ v = x.size - x.position /\ v \in Nat /\ x.position <= x.size
      /\ Unreads[b] = Unread(x) /\ Unreads \in [Buffers -> Memory]
  BY AvailableUnread, UnreadsType DEF Sound
<1> HIDE DEF x, v
<1>2. CASE Clear(b)
  <2>1. Call(b, Unchanged(OK, bb_clear(x)))
    BY <1>2 DEF Clear, x
  <2> QED
    BY <1>1, <2>1, ClearedNumbers, EmptiedMap
<1>3. CASE Declare(b)
  <2> DEFINE y == BYTE_BUFFER_INIT
  <2>1. Sound(y) /\ y.position = y.size
    BY EmptyMemory DEF Sound, BYTE_BUFFER_INIT, gxByteBuffer
  <2>2. Call(b, Unchanged(OK, y))
    BY <1>3 DEF Declare
  <2> HIDE DEF y
  <2> QED
    BY <2>1, <2>2, EmptiedMap
<1>4. CASE Attach(b)
  <2>1. PICK s \in Strings :
          \/ Call(b, Unchanged(OK, bb_attach([i \in DOMAIN s |-> Undef], 0)))
          \/ x.size = x.position /\ Call(b, Unchanged(OK, bb_attach(s, Len(s))))
    BY <1>4 DEF Attach, x
  <2>2. s \in Memory /\ Len(s) \in Nat /\ s \in Appendable
    BY StringFacts DEF Appendable
  <2> DEFINE t == [i \in DOMAIN s |-> Undef]
             y == bb_attach(t, 0)
             z == bb_attach(s, Len(s))
  <2>3. CASE Call(b, Unchanged(OK, y))
    <3>1. t \in Memory /\ 0 <= Len(t)
      <4>1. DOMAIN s = 1..Len(s) /\ t \in [1..Len(s) -> Byte \cup {Undef}]
        BY <2>2 DEF Memory
      <4> QED
        BY <2>2, <4>1, SequenceOf DEF Memory
    <3> HIDE DEF t
    <3>2. Sound(y) /\ y.position = y.size
      BY <3>1, AttachSafe DEF bb_attach
    <3> HIDE DEF y
    <3> QED
      BY <2>3, <3>2, EmptiedMap
  <2>4. CASE x.size = x.position /\ Call(b, Unchanged(OK, z))
    <3>1. Sound(z) /\ z.position = 0 /\ z.size = Len(s) /\ z.data = s
      BY <2>2, AttachSafe DEF bb_attach
    <3>2. bb' = [bb EXCEPT ![b] = z] /\ got' = <<>>
      BY <2>4 DEF Call, Left, Unchanged, Result
    <3>3. Unread(x) = <<>>
      BY <1>1, <2>4, NothingUnread
    <3> DEFINE w == Unread(z)
    <3> HIDE DEF z
    <3>4. w = s
      <4>1. /\ w \in Memory /\ Len(w) = z.size - z.position
            /\ \A i \in 1..(z.size - z.position) : w[i] = z.data[z.position + i]
        BY <3>1, UnreadBytes
      <4> HIDE DEF w
      <4>2. z.size - z.position = Len(s) /\ \A i \in 1..Len(s) : z.position + i = i
        BY <2>2, <3>1
      <4> QED
        BY <2>2, <3>1, <4>1, <4>2, SameBytes DEF Memory
    <3>5. Unreads' = [Unreads EXCEPT ![b] = w]
      BY <3>2, QueueReplaced
    <3> HIDE DEF w
    <3>6. Unreads[b] \o s = s
      BY <1>1, <2>2, <3>3 DEF Memory
    <3>7. Unreads' = [Unreads EXCEPT ![b] = Unreads[b] \o s]
      BY <3>4, <3>5, <3>6
    <3> QED
      BY <2>2, <3>2, <3>7, QueueAdd
  <2> QED
    BY <2>1, <2>3, <2>4
<1>5. CASE Close(b)
  <2>1. PICK index \in 0..x.position :
          LET r == bb_move(x, x.position, index, v, TRUE) IN
          IF v = 0 THEN Call(b, Unchanged(OK, bb_clear(x)))
          ELSE Call(b, [r EXCEPT !.bb.position = index])
    BY <1>5 DEF Close, x, v
  <2>2. CASE v = 0
    BY <1>1, <2>1, <2>2, ClearedNumbers, EmptiedMap
  <2>3. CASE v # 0
    <3> DEFINE r == bb_move(x, x.position, index, v, TRUE)
               y == [r.bb EXCEPT !.position = index]
               c == [r EXCEPT !.bb.position = index]
    <3>1. Call(b, c)
      BY <2>1, <2>3
    <3>2. c.bb = y
      <4>1. r = [ret |-> r.ret, bb |-> r.bb, touched |-> r.touched]
        BY DEF bb_move, bb_capacity, Unchanged, Result
      <4> HIDE DEF r
      <4> QED
        BY <4>1
    <3>3. x.position < x.size /\ r = bb_move(x, x.position, index, x.size - x.position, TRUE)
      BY <1>1, <2>3
    <3> HIDE DEF r
    <3>4. Unread(y) = Unread(x)
      BY <1>1, <3>3, CloseKeeps
    <3> HIDE DEF c, y
    <3>5. Left(b, c)
      BY <3>1 DEF Call
    <3> QED
      BY <3>2, <3>4, <3>5, KeepsMap DEF x
  <2> QED
    BY <2>2, <2>3
<1>6. CASE GetUInt(b)
  <2>1. PICK n \in {1, 2, 4} :
          \/ Refused(OUTOFMEMORY)
          \/ /\ x.position + n <= x.size
             /\ Deliver(b, x.position, n) /\ Advance(b, n)
    BY <1>6 DEF GetUInt, x
  <2> QED
    BY <2>1, ReadMap, RefusedMap DEF x
<1>7. CASE Get(b)
  <2>1. PICK n \in 1..MaxSize[b] :
          \/ Refused(OUTOFMEMORY)
          \/ v >= n /\ Deliver(b, x.position, n) /\ Advance(b, n)
    BY <1>7 DEF Get, x, v
  <2>2. n \in Nat \ {0}
    BY ByteBufferAssumption
  <2>3. v >= n => x.position + n <= x.size
    BY <1>1, <2>2
  <2> QED
    BY <2>1, <2>2, <2>3, ReadMap, RefusedMap DEF x
<1>8. CASE GetWhenComplete(b)
  <2>1. Refused(OK) \/ (v >= 4 /\ Deliver(b, x.position, 4) /\ Advance(b, 4))
    BY <1>8 DEF GetWhenComplete, x, v
  <2>2. v >= 4 => x.position + 4 <= x.size
    BY <1>1
  <2> QED
    BY <2>1, <2>2, ReadMap, RefusedMap DEF x
<1>9. CASE GetUInt8ByIndex(b)
  <2>1. PICK index \in x.position..(x.size - 1) : Deliver(b, index, 1) /\ UNCHANGED bb
    BY <1>9 DEF GetUInt8ByIndex, x
  <2> DEFINE k == index - x.position + 1
  <2>2. k \in DOMAIN Unread(x) /\ Content(x, index, index + 1) = <<Unread(x)[k]>>
    BY <1>1, PeekByte
  <2>3. got' = <<Unreads[b][k]>> /\ k \in DOMAIN Unreads[b]
    BY <1>1, <2>1, <2>2 DEF Deliver, x
  <2>4. Unreads' = Unreads
    BY <2>1 DEF Unreads
  <2> HIDE DEF k
  <2> QED
    BY <2>3, <2>4, QueuePeek
<1>10. CASE Compare(b)
  <2>1. PICK s \in Strings :
          \/ Refused(OK)
          \/ /\ v = Len(s)
             /\ IF Content(x, x.position, x.position + Len(s)) = s
                THEN Advance(b, Len(s)) ELSE UNCHANGED bb
             /\ got' = <<>>
    BY <1>10 DEF Compare, x, v
  <2>2. CASE Refused(OK)
    BY <2>2, RefusedMap
  <2>3. CASE /\ v = Len(s) /\ got' = <<>>
             /\ Content(x, x.position, x.position + Len(s)) = s /\ Advance(b, Len(s))
    <3> DEFINE n == Len(s)
               e == [x EXCEPT !.position = x.position + n]
    <3>1. n \in Nat /\ x.position + n <= x.size /\ x.position + n = x.size /\ s \in Appendable
      BY <1>1, <2>3, StringFacts DEF Appendable
    <3>2. bb' = [bb EXCEPT ![b] = e]
      BY <2>3 DEF Advance, x
    <3>3. Unread(x) = s
      BY <2>3, <3>1 DEF Unread
    <3>4. Unread(e) = SubSeq(Unread(x), n + 1, Len(Unread(x)))
      BY <1>1, <3>1, ReadBytes
    <3>5. SubSeq(s, n + 1, n) = <<>>
      BY <3>1, StringFacts
    <3> HIDE DEF e
    <3>6. Unread(e) = <<>>
      BY <3>3, <3>4, <3>5
    <3>7. Unreads' = [Unreads EXCEPT ![b] = <<>>]
      BY <3>2, <3>6, QueueReplaced
    <3> QED
      BY <1>1, <2>3, <3>1, <3>3, <3>7, QueueSkip
  <2>4. CASE UNCHANGED bb /\ got' = <<>>
    <3>1. Unreads' = Unreads
      BY <2>4 DEF Unreads
    <3> QED
      BY <2>4, <3>1, QueueNothing
  <2> QED
    BY <2>1, <2>2, <2>3, <2>4
<1> QED
  BY <1>2, <1>3, <1>4, <1>5, <1>6, <1>7, <1>8, <1>9, <1>10

(* Bytes copied from one buffer to another.                                *)
LEMMA CopyMap ==
  ASSUME BInv, NEW b \in Buffers, NEW c \in Buffers, b # c, NEW mem \in BOOLEAN,
         Copy(b, c, mem)
  PROVE  Queues!Next
<1> DEFINE x == bb[b]
           z == bb[c]
           u == Unread(x)
<1>1. /\ Sound(x) /\ x \in gxByteBuffer /\ x.size \in Nat /\ x.position \in Nat
      /\ Available(x) = x.size - x.position /\ Available(x) \in Nat
      /\ x.position <= x.size
  BY AvailableUnread DEF Sound
<1>2. /\ Sound(z) /\ Unreads[b] = u /\ Unreads[c] = Unread(z)
      /\ Unreads \in [Buffers -> Memory] /\ DOMAIN bb = Buffers
  BY UnreadsType DEF BInv
<1>3. PICK n \in 1..Available(x) :
        LET last == x.position + n
            r    == bb_set(z, Content(x, x.position, last), mem) IN
        /\ bb' = [bb EXCEPT ![b].position = IF r.ret = OK THEN last ELSE @, ![c] = r.bb]
        /\ got' = <<>>
  BY DEF Copy
<1> DEFINE last == x.position + n
           s    == Content(x, x.position, last)
           r    == bb_set(z, s, mem)
           at   == IF r.ret = OK THEN last ELSE x.position
           e    == [x EXCEPT !.position = at]
<1>4. n \in Nat \ {0} /\ last <= x.size
  BY <1>1
<1>5. /\ n <= Len(u) /\ s = SubSeq(u, 1, n) /\ s \in Memory
      /\ Unread([x EXCEPT !.position = last]) = SubSeq(u, n + 1, Len(u))
  BY <1>1, <1>4, ReadBytes, ContentType
<1>6. Adds(z, r, s)
  BY <1>2, <1>5, SetAdds
<1>7. bb' = [bb EXCEPT ![b] = e, ![c] = r.bb] /\ got' = <<>>
  BY <1>3
<1>8. Len(u) \in Nat
  BY <1>1, UnreadBytes
<1>9. [x EXCEPT !.position = x.position] = x
  BY <1>1 DEF gxByteBuffer
<1>10. r.ret = OK => e = [x EXCEPT !.position = last]
  OBVIOUS
<1>11. r.ret # OK => e = x
  BY <1>9
<1> HIDE DEF r, s, last, e, u, x, z
<1>12. Unreads' = [Unreads EXCEPT ![b] = Unread(e), ![c] = Unread(r.bb)]
  <2>1. ASSUME NEW d \in Buffers
        PROVE  Unread(bb'[d]) = IF d = c THEN Unread(r.bb)
                                ELSE IF d = b THEN Unread(e) ELSE Unread(bb[d])
    BY <1>2, <1>7
  <2>2. Unreads' = [d \in Buffers |-> Unread(bb'[d])]
    BY DEF Unreads
  <2>3. [Unreads EXCEPT ![b] = Unread(e), ![c] = Unread(r.bb)]
          = [d \in Buffers |-> IF d = c THEN Unread(r.bb)
                               ELSE IF d = b THEN Unread(e) ELSE Unread(bb[d])]
    BY DEF Unreads
  <2> QED
    BY <2>1, <2>2, <2>3
<1>13. CASE r.ret = OK
  <2>1. Unread(r.bb) = Unreads[c] \o SubSeq(Unreads[b], 1, n)
    BY <1>2, <1>5, <1>6, <1>13, AppendsUnread DEF Adds
  <2>2. Unread(e) = SubSeq(Unreads[b], n + 1, Len(Unreads[b]))
    BY <1>2, <1>5, <1>10, <1>13
  <2>3. n \in 1..Len(Unreads[b])
    BY <1>2, <1>4, <1>5, <1>8
  <2>4. Unreads' = [Unreads EXCEPT
                      ![b] = SubSeq(Unreads[b], n + 1, Len(Unreads[b])),
                      ![c] = Unreads[c] \o SubSeq(Unreads[b], 1, n)]
    BY <1>12, <2>1, <2>2
  <2> QED
    BY <1>7, <2>3, <2>4, QueueTransfer
<1>14. CASE r.ret # OK
  <2>1. Unread(r.bb) = Unreads[c]
    BY <1>2, <1>6, <1>14, KeptUnread DEF Adds
  <2>2. Unread(e) = Unreads[b]
    BY <1>2, <1>11, <1>14 DEF u
  <2>3. Unreads' = Unreads
    BY <1>2, <1>12, <2>1, <2>2
  <2> QED
    BY <1>7, <2>3, QueueNothing
<1> QED
  BY <1>13, <1>14

LEMMA QueuesInit == Init => Queues!Init
<1> SUFFICES ASSUME Init PROVE Queues!Init
  OBVIOUS
<1>1. /\ Sound(BYTE_BUFFER_INIT)
      /\ BYTE_BUFFER_INIT.position = BYTE_BUFFER_INIT.size
  BY EmptyMemory DEF Sound, BYTE_BUFFER_INIT, gxByteBuffer
<1>2. Unread(BYTE_BUFFER_INIT) = <<>>
  BY <1>1, NothingUnread
<1>3. Unreads = [b \in Buffers |-> <<>>] /\ got = <<>>
  BY <1>2 DEF Init, Unreads
<1> QED
  BY <1>3 DEF Queues!Init, Unreads, Unread

LEMMA QueuesNext ==
  BInv /\ [Next]_vars =>
    [Queues!Next]_<<[b \in Buffers |-> Content(bb[b], bb[b].position, bb[b].size)], got>>
<1> SUFFICES ASSUME BInv, [Next]_vars
             PROVE  Queues!Next \/ UNCHANGED <<Unreads, got>>
  BY DEF Unreads, Unread
<1>1. ASSUME NEW b \in Buffers, NEW mem \in BOOLEAN,
             \/ SetBytes(b, mem) \/ SetString(b, mem)
             \/ SetUInt8(b, mem) \/ SetUInt16(b, mem) \/ SetUInt32(b, mem)
             \/ SetUInt8ByIndex(b, mem) \/ Reserve(b, mem) \/ Insert(b, mem)
      PROVE  Queues!Next
  BY <1>1, WritesMap
<1>2. ASSUME NEW b \in Buffers,
             \/ Clear(b) \/ Declare(b) \/ Attach(b) \/ Close(b)
             \/ GetUInt(b) \/ Get(b) \/ GetWhenComplete(b) \/ GetUInt8ByIndex(b)
             \/ Compare(b)
      PROVE  Queues!Next
  BY <1>2, OthersMap
<1>3. ASSUME NEW b \in Buffers, NEW c \in Buffers, NEW mem \in BOOLEAN,
             b # c, Copy(b, c, mem)
      PROVE  Queues!Next
  BY <1>3, CopyMap
<1>4. CASE UNCHANGED vars
  BY <1>4 DEF vars, Unreads
<1> QED
  BY <1>1, <1>2, <1>3, <1>4, ByteBufferAssumption DEF Next

(* The buffers are queues of unread bytes, for any strings and sizes and   *)
(* wherever memory runs out.                                               *)
THEOREM BuffersAreQueues == Spec => FirstInFirstOut
<1>1. Init => Queues!Init
  BY QueuesInit
<1>2. BInv /\ [Next]_vars =>
        [Queues!Next]_<<[b \in Buffers |-> Content(bb[b], bb[b].position, bb[b].size)], got>>
  BY QueuesNext
<1> QED
  BY <1>1, <1>2, BInvAlways, PTL DEF Spec, FirstInFirstOut, Queues!Spec
================================================================================

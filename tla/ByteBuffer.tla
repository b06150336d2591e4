------------------------------- MODULE ByteBuffer ------------------------------
(***************************************************************************)
(* gxByteBuffer: memory, capacity, size and position of the buffers of the *)
(* library under the calls its code makes. A call is an operator from a    *)
(* buffer to what the call returns, the buffer it leaves and how far into  *)
(* the memory it reads or writes.                                          *)
(*                                                                         *)
(* Memory that was allocated and not written holds Undef. A write past the *)
(* allocation is lost here and shows in touched.                           *)
(***************************************************************************)
EXTENDS Integers, SequencesExt

CONSTANTS
  Buffers,         \* buffers in use
  Strings,         \* byte strings that are appended, inserted, compared
  Words, LongWords, \* 16-bit and 32-bit numbers that are appended
  VECTOR_CAPACITY, \* step by which a buffer grows (50)
  UInt32Mod,       \* 2^32
  Undef,           \* content of memory nobody wrote
  MaxSize,         \* bound: bytes each buffer of a run holds
  Written          \* bound: buffers not only filled with copies

Byte == 0..255

ASSUME ByteBufferAssumption ==
  /\ Strings \subseteq Seq(Byte) \ {<<>>}
  /\ Words \subseteq Nat /\ LongWords \subseteq Nat
  /\ VECTOR_CAPACITY \in Nat \ {0}
  /\ UInt32Mod \in Nat /\ MaxSize \in [Buffers -> 0..(UInt32Mod - 1)]
  /\ Undef \notin Byte
  /\ Written \subseteq Buffers

OK == "DLMS_ERROR_CODE_OK"
OUTOFMEMORY == "DLMS_ERROR_CODE_OUTOFMEMORY"
INVALID_PARAMETER == "DLMS_ERROR_CODE_INVALID_PARAMETER"

Memory == Seq(Byte \cup {Undef})

gxByteBuffer ==
  [data : Memory, capacity : Nat, size : Nat, position : Nat, attached : BOOLEAN]

BYTE_BUFFER_INIT ==
  [data |-> <<>>, capacity |-> 0, size |-> 0, position |-> 0, attached |-> FALSE]

Result(code, b, n) == [ret |-> code, bb |-> b, touched |-> n]
Unchanged(code, b) == Result(code, b, 0)

(* The bytes at index first up to last, what lies past the memory Undef.    *)
Content(b, first, last) ==
  [i \in 1..(last - first) |->
     IF first + i <= Len(b.data) THEN b.data[first + i] ELSE Undef]

(* realloc: what fits is kept, what is new is undefined.                   *)
Realloc(b, n) ==
  [b EXCEPT !.data = [i \in 1..n |-> IF i <= Len(b.data) THEN b.data[i] ELSE Undef],
            !.capacity = n]

(* memcpy of s to index at of the memory.                                  *)
Put(b, at, s) ==
  [b EXCEPT !.data = [i \in 1..Len(b.data) |->
                        IF i \in (at + 1)..(at + Len(s)) THEN s[i - at] ELSE b.data[i]]]

Available(b) == (b.size - b.position) % UInt32Mod

Lower(m, n) == IF m <= n THEN m ELSE n

-----------------------------------------------------------------------------
(* The calls. mem tells whether malloc or realloc succeeds.                *)

(* Mutation of bb_allocate: room is sought in the size, not at its end. *)
bb_allocateTight(b, index, count, mem) ==
  IF b.attached \/ (b.capacity # 0 /\ count <= b.capacity) THEN Unchanged(OK, b)
  ELSE IF mem THEN Unchanged(OK, Realloc(b, index + count))
  ELSE Unchanged(OUTOFMEMORY, b)

(* Mutation of bb_allocate: a large request, too, grows by one step. *)
bb_allocateStep(b, index, count, mem) ==
  LET grows == ~ b.attached /\ (b.capacity = 0 \/ index + count > b.capacity)
      step  == IF b.capacity = 0 THEN count ELSE VECTOR_CAPACITY
      a     == IF grows THEN Realloc(b, b.capacity + step) ELSE b
  IN  IF grows /\ ~ mem THEN Unchanged(OUTOFMEMORY, b)
      ELSE Unchanged(IF a.capacity < index + count THEN OUTOFMEMORY ELSE OK, a)

bb_allocate(b, index, count, mem) ==
  LET grows == ~ b.attached /\ (b.capacity = 0 \/ index + count > b.capacity)
      step  == IF grows /\ b.capacity # 0 /\ count <= VECTOR_CAPACITY
               THEN VECTOR_CAPACITY ELSE count
      a     == IF grows THEN Realloc(b, b.capacity + step) ELSE b
  IN  IF grows /\ ~ mem THEN Unchanged(OUTOFMEMORY, b)
      ELSE Unchanged(IF a.capacity < index + step THEN OUTOFMEMORY ELSE OK, a)

(* What every append does: room at index size, then the bytes.             *)
bb_set(b, s, mem) ==
  LET a == bb_allocate(b, b.size, Len(s), mem)
  IN  IF a.ret # OK \/ s = <<>> THEN a
      ELSE Result(OK, [Put(a.bb, b.size, s) EXCEPT !.size = @ + Len(s)], b.size + Len(s))

UInt16Bytes(n) == <<(n \div 256) % 256, n % 256>>
UInt32Bytes(n) == UInt16Bytes(n \div 65536) \o UInt16Bytes(n % 65536)

(* Room is made at the end of the content, not at index.                   *)
bb_setUInt16ByIndex(b, index, n, mem) ==
  LET a == IF index + 2 > b.size THEN bb_allocate(b, b.size, 2, mem)
           ELSE Unchanged(OK, b)
  IN  IF a.ret # OK THEN a ELSE Result(OK, Put(a.bb, index, UInt16Bytes(n)), index + 2)

bb_setByIndex(b, index, s, mem) ==
  LET a == bb_allocate(b, index, Len(s), mem)
  IN  IF a.ret # OK THEN a ELSE Result(OK, Put(a.bb, index, s), index + Len(s))

(* Mutation of Appended: the size grows even if there was no room. *)
AppendedAnyway(r, n) == [r EXCEPT !.bb.size = @ + n]

Appended(r, n) == IF r.ret = OK THEN [r EXCEPT !.bb.size = @ + n] ELSE r

bb_setUInt8(b, n, mem)  == Appended(bb_setByIndex(b, b.size, <<n>>, mem), 1)
bb_setUInt16(b, n, mem) == Appended(bb_setUInt16ByIndex(b, b.size, n, mem), 2)
bb_setUInt32(b, n, mem) == Appended(bb_setByIndex(b, b.size, UInt32Bytes(n), mem), 4)

(* Mutation of bb_addString: the end is taken off if nothing was added. *)
bb_addStringAlways(b, s, mem) ==
  LET a == bb_set(b, Append(s, 0), mem) IN [a EXCEPT !.bb.size = @ - 1]

(* The end of a string is written and not counted.                         *)
bb_addString(b, s, mem) ==
  LET a == bb_set(b, Append(s, 0), mem)
  IN  IF a.ret = OK THEN [a EXCEPT !.bb.size = @ - 1] ELSE a

(* Memory that is given back takes the content with it, not the position.  *)
bb_capacity(b, n, mem) ==
  IF b.attached THEN Unchanged(IF b.capacity < n THEN OUTOFMEMORY ELSE OK, b)
  ELSE IF n = 0 THEN Unchanged(OK, [b EXCEPT !.data = <<>>, !.capacity = 0, !.size = 0])
  ELSE IF ~ mem THEN Unchanged(OUTOFMEMORY, b)
  ELSE Unchanged(OK, [Realloc(b, n) EXCEPT !.size = Lower(@, n)])

bb_move(b, src, dest, count, mem) ==
  LET room  == src <= dest /\ b.capacity < dest + count
      a     == IF room THEN bb_capacity(b, dest + count, mem) ELSE Unchanged(OK, b)
      moved == [Put(a.bb, dest, Content(a.bb, src, src + count))
                  EXCEPT !.size = dest + count,
                         !.position = Lower(b.position, dest + count)]
  IN  IF src > dest /\ b.size < dest + count THEN Unchanged(INVALID_PARAMETER, b)
      ELSE IF room /\ b.attached THEN Unchanged(INVALID_PARAMETER, b)
      ELSE IF a.ret # OK \/ count = 0 THEN a
      ELSE Result(OK, moved, (IF src > dest THEN src ELSE dest) + count)

(* Bytes in front of the content. All callers insert at index 0.           *)
bb_insert(s, b, mem) ==
  LET a == bb_capacity(b, b.size + Len(s), mem)
      m == bb_move(a.bb, 0, Len(s), b.size, mem)
  IN  IF b.size = 0 THEN bb_set(b, s, mem)
      ELSE IF a.ret # OK THEN a
      ELSE IF m.ret # OK THEN m
      ELSE Result(OK, Put(m.bb, 0, s), m.touched)

bb_clear(b) ==
  IF b.attached THEN [b EXCEPT !.size = 0, !.position = 0] ELSE BYTE_BUFFER_INIT

(* The array of a caller, its first count bytes filled.                    *)
bb_attach(array, count) ==
  [data |-> array, capacity |-> Len(array), size |-> count, position |-> 0,
   attached |-> TRUE]

-----------------------------------------------------------------------------
VARIABLES
  bb,       \* the buffers
  ret,      \* what the last call returned
  got,      \* the bytes it delivered
  touched,  \* how far into the memory of each buffer it read or wrote
  excused   \* history: FALSE after an append to a buffer that may grow, if
            \* malloc and realloc succeed

vars == <<bb, ret, got, touched, excused>>

Init ==
  /\ bb = [b \in Buffers |-> BYTE_BUFFER_INIT]
  /\ ret = OK /\ got = <<>>
  /\ touched = [b \in Buffers |-> 0]
  /\ excused = TRUE

(* Buffer b becomes what call r left.                                      *)
Left(b, r) ==
  /\ r.bb.size <= MaxSize[b]
  /\ bb' = [bb EXCEPT ![b] = r.bb] /\ ret' = r.ret
  /\ touched' = [touched EXCEPT ![b] = r.touched]
  /\ got' = <<>>

Call(b, r) == Left(b, r) /\ excused' = TRUE

Growing(b, r, mem) == Left(b, r) /\ excused' = (bb[b].attached \/ ~ mem)

(* n bytes are delivered from index on.                                    *)
Deliver(b, index, n) ==
  /\ got' = Content(bb[b], index, index + n)
  /\ touched' = [touched EXCEPT ![b] = index + n]
  /\ ret' = OK /\ excused' = TRUE

Refused(code) == ret' = code /\ got' = <<>> /\ excused' = TRUE /\ UNCHANGED <<bb, touched>>

Advance(b, n) == bb' = [bb EXCEPT ![b].position = @ + n]

SetBytes(b, mem)  == \E s \in Strings : Growing(b, bb_set(bb[b], s, mem), mem)
SetString(b, mem) == \E s \in Strings : Growing(b, bb_addString(bb[b], s, mem), mem)
SetUInt8(b, mem)  ==
  \E s \in Strings : Growing(b, bb_setUInt8(bb[b], s[1], mem), mem)
SetUInt16(b, mem) == \E n \in Words : Growing(b, bb_setUInt16(bb[b], n, mem), mem)
SetUInt32(b, mem) == \E n \in LongWords : Growing(b, bb_setUInt32(bb[b], n, mem), mem)

(* A length that is filled in when what follows it is known.               *)
SetUInt8ByIndex(b, mem) ==
  \E index \in bb[b].position..(bb[b].size - 1), s \in Strings :
    Call(b, bb_setByIndex(bb[b], index, <<s[1]>>, mem))

Reserve(b, mem) ==
  \E s \in Strings : Call(b, bb_capacity(bb[b], bb[b].size + Len(s), mem))

Insert(b, mem) ==
  /\ bb[b].position = 0
  /\ \E s \in Strings : Call(b, bb_insert(s, bb[b], mem))

Clear(b) == Call(b, Unchanged(OK, bb_clear(bb[b])))

(* A local buffer is declared anew, with memory of its own or an array.     *)
Declare(b) == Call(b, Unchanged(OK, BYTE_BUFFER_INIT))

Attach(b) ==
  \E s \in Strings :
    \/ Call(b, Unchanged(OK, bb_attach([i \in DOMAIN s |-> Undef], 0)))
    \/ bb[b].size = bb[b].position /\ Call(b, Unchanged(OK, bb_attach(s, Len(s))))

(* bb_getUInt8, bb_getUInt16 and bb_getUInt32.                             *)
GetUInt(b) ==
  \E n \in {1, 2, 4} :
    \/ /\ bb[b].position + n > bb[b].size /\ Refused(OUTOFMEMORY)
    \/ /\ bb[b].position + n <= bb[b].size
       /\ Deliver(b, bb[b].position, n) /\ Advance(b, n)

Get(b) ==
  \E n \in 1..MaxSize[b] :
    \/ Available(bb[b]) < n /\ Refused(OUTOFMEMORY)
    \/ /\ Available(bb[b]) >= n
       /\ Deliver(b, bb[b].position, n) /\ Advance(b, n)

(* A value whose bytes have not all come is not complete, and no error.    *)
GetWhenComplete(b) ==
  \/ Available(bb[b]) < 4 /\ Refused(OK)
  \/ Available(bb[b]) >= 4 /\ Deliver(b, bb[b].position, 4) /\ Advance(b, 4)

GetUInt8ByIndex(b) ==
  \E index \in bb[b].position..(bb[b].size - 1) :
    Deliver(b, index, 1) /\ UNCHANGED bb

(* bb_compare skips what it finds equal.                                   *)
Compare(b) ==
  \E s \in Strings :
    \/ Available(bb[b]) # Len(s) /\ Refused(OK)
    \/ /\ Available(bb[b]) = Len(s)
       /\ IF Content(bb[b], bb[b].position, bb[b].position + Len(s)) = s
          THEN Advance(b, Len(s)) ELSE UNCHANGED bb
       /\ touched' = [touched EXCEPT ![b] = bb[b].position + Len(s)]
       /\ ret' = OK /\ got' = <<>> /\ excused' = TRUE

(* Mutation of Copy: what was copied stays unread in the source. *)
CopyKept(b, c, mem) ==
  \E n \in 1..Available(bb[b]) :
    LET r == bb_set(bb[c], Content(bb[b], bb[b].position, bb[b].position + n), mem) IN
    Growing(c, r, mem)

(* bb_set2. All callers copy from the position on, at most what is left.   *)
Copy(b, c, mem) ==
  \E n \in 1..Available(bb[b]) :
    LET last == bb[b].position + n
        r    == bb_set(bb[c], Content(bb[b], bb[b].position, last), mem) IN
    /\ r.bb.size <= MaxSize[c]
    /\ bb' = [bb EXCEPT ![b].position = IF r.ret = OK THEN last ELSE @, ![c] = r.bb]
    /\ touched' = [touched EXCEPT ![b] = last, ![c] = r.touched]
    /\ ret' = r.ret /\ got' = <<>> /\ excused' = (bb[c].attached \/ ~ mem)

(* The bytes read since index are closed up: dlms_getDataFromBlock, and    *)
(* cip_decrypt with the header of a deciphered message that has content.   *)
Close(b) ==
  \E index \in 0..bb[b].position :
    LET r == bb_move(bb[b], bb[b].position, index, Available(bb[b]), TRUE) IN
    IF Available(bb[b]) = 0 THEN Call(b, Unchanged(OK, bb_clear(bb[b])))
    ELSE Call(b, [r EXCEPT !.bb.position = index])

Next ==
  \/ \E b \in Written, mem \in BOOLEAN :
       \/ SetBytes(b, mem) \/ SetString(b, mem)
       \/ SetUInt8(b, mem) \/ SetUInt16(b, mem) \/ SetUInt32(b, mem)
       \/ SetUInt8ByIndex(b, mem) \/ Reserve(b, mem) \/ Insert(b, mem)
  \/ \E b \in Written : Attach(b)
  \/ \E b \in Buffers :
       \/ Clear(b) \/ Declare(b) \/ Close(b)
       \/ GetUInt(b) \/ Get(b) \/ GetWhenComplete(b) \/ GetUInt8ByIndex(b)
       \/ Compare(b)
  \/ \E b, c \in Buffers, mem \in BOOLEAN : b # c /\ Copy(b, c, mem)

Spec == Init /\ [][Next]_vars

-----------------------------------------------------------------------------
(* Safety. *)

TypeOK ==
  /\ bb \in [Buffers -> gxByteBuffer]
  /\ ret \in {OK, OUTOFMEMORY, INVALID_PARAMETER}
  /\ got \in Memory
  /\ touched \in [Buffers -> Nat]
  /\ excused \in BOOLEAN

(* Position, size, capacity and memory of a buffer never disagree, however *)
(* calls follow each other and wherever memory runs out: position - size   *)
(* arithmetic on unsigned numbers (bb_available, bb_get) would wrap.       *)
Ordered ==
  \A b \in Buffers :
    /\ bb[b].position <= bb[b].size
    /\ bb[b].size <= bb[b].capacity
    /\ bb[b].capacity = Len(bb[b].data)

(* No call reads or writes past the memory it has made sure of: one growth *)
(* step of bb_allocate, which ignores how far the end is away, suffices.   *)
InBounds == \A b \in Buffers : touched[b] <= Len(bb[b].data)

(* With memory to be had, no append to a buffer that may grow is refused.  *)
GrowsWhenAsked == ret = OK \/ excused

Appendable ==
  UNION {Strings, {<<s[1]>> : s \in Strings},
         {UInt16Bytes(n) : n \in Words}, {UInt32Bytes(n) : n \in LongWords}}

Queues == INSTANCE ByteQueue WITH
  Byte <- {s[1] : s \in Strings},
  Strings <- Appendable,
  unread <- [b \in Buffers |-> Content(bb[b], bb[b].position, bb[b].size)]

(* The buffers are queues of unread bytes: what is appended, inserted or   *)
(* copied is read again, once, in its order, whatever growth, closing up   *)
(* and failed calls happen in between.                                     *)
FirstInFirstOut == Queues!Spec
================================================================================

-------------------------- MODULE ModControlProofs --------------------------
(***************************************************************************)
(* Proofs about /dev/modcontrol.  That no wake-up is lost holds for any    *)
(* number of readers and writers.  The count is kept from below by having  *)
(* one reader, from above by having one writer, and so stays within the    *)
(* buffer for at most one of each.  When calls do not overlap, any number  *)
(* of processes sees a stack of bytes.                                     *)
(***************************************************************************)
EXTENDS ModControl, TLAPS

ReadPlaces == {"idle", "check", "asleep", "read", "copy_out", "sub"}
WritePlaces == {"idle", "copy_in", "add", "wake"}

(* What a read carries is a number of bytes until it has copied, and what  *)
(* is taken from the count or added to it is never negative.               *)
Typed ==
  /\ buffer_filled_size \in Int
  /\ DOMAIN pc = Procs
  /\ \A r \in Readers : pc[r] \in ReadPlaces
  /\ \A w \in Writers : pc[w] \in WritePlaces
  /\ local \in [Procs -> Int]
  /\ act \in [Procs -> Nat]
  /\ DOMAIN arg = Procs
  /\ \A r \in Readers :
       pc[r] \in {"check", "asleep", "read", "copy_out"} => arg[r] \in Nat
  /\ \A w \in Writers : pc[w] = "copy_in" => Len(arg[w]) \in Nat

(* At most as many bytes are copied as both limits allow.                  *)
LEMMA CopiedIsBounded ==
  ASSUME NEW a \in Int, NEW b \in Nat, NEW n \in Copied(Least(a, b))
  PROVE  n \in 0 .. b /\ (0 <= a => n <= a)
  BY ModControlAssumption DEF Copied, Least

(* The program starts, and stays, within the types of its variables.       *)
LEMMA InitTyped == Init => Typed
  BY DEF Init, Typed, Procs, ReadPlaces, WritePlaces

LEMMA ReadTyped ==
  ASSUME Typed, NEW r \in Readers, DriverRead(r)
  PROVE  Typed'
<1> USE ModControlAssumption DEF Typed, Procs, ReadPlaces, WritePlaces, Goto
<1>0. r \in Procs /\ r \notin Writers
  OBVIOUS
<1>1. CASE Read(r)
  BY <1>0, <1>1 DEF Read
<1>2. CASE CheckOrSleep(r)
  BY <1>0, <1>2 DEF CheckOrSleep
<1>3. CASE Signal(r)
  BY <1>0, <1>3 DEF Signal, ForgetLocals
<1>4. CASE ReadSize(r)
  BY <1>0, <1>4 DEF ReadSize
<1>5. CASE CopyOut(r)
  <2>1. PICK n \in Copied(Least(local[r], arg[r])) :
          CopyToUser(r, local[r] - Least(local[r], arg[r]), n)
    BY <1>5 DEF CopyOut
  <2>2. n \in Nat
    <3>1. local[r] \in Int /\ arg[r] \in Nat
      BY <1>0, <1>5 DEF CopyOut
    <3>2. QED
      BY <3>1, CopiedIsBounded
  <2>3. QED
    BY <1>0, <1>5, <2>1, <2>2 DEF CopyOut, CopyToUser
<1>6. CASE Sub(r)
  BY <1>0, <1>6 DEF Sub, Take, ForgetLocals
<1>7. QED
  BY <1>1, <1>2, <1>3, <1>4, <1>5, <1>6 DEF DriverRead

LEMMA WriteTyped ==
  ASSUME Typed, NEW w \in Writers, DriverWrite(w)
  PROVE  Typed'
<1> USE ModControlAssumption DEF Typed, Procs, ReadPlaces, WritePlaces, Goto
<1>0. w \in Procs /\ w \notin Readers
  OBVIOUS
<1>1. CASE Write(w)
  BY <1>0, <1>1 DEF Write
<1>2. CASE CopyIn(w)
  <2>1. PICK n \in Copied(Least(BUFSIZE - local[w], Len(arg[w]))) :
          act' = [act EXCEPT ![w] = n]
    BY <1>2 DEF CopyIn
  <2>2. n \in Nat
    <3>1. BUFSIZE - local[w] \in Int /\ Len(arg[w]) \in Nat
      BY <1>0, <1>2 DEF CopyIn
    <3>2. QED
      BY <3>1, CopiedIsBounded
  <2>3. QED
    BY <1>0, <1>2, <2>1, <2>2 DEF CopyIn
<1>3. CASE Add(w)
  BY <1>0, <1>3 DEF Add
<1>4. CASE Wake(w)
  BY <1>0, <1>4 DEF Wake, WakeUp, Asleep, ForgetLocals
<1>5. QED
  BY <1>1, <1>2, <1>3, <1>4 DEF DriverWrite

LEMMA StepTyped == Typed /\ [Next]_vars => Typed'
<1> SUFFICES ASSUME Typed, [Next]_vars PROVE Typed'
  OBVIOUS
<1>1. CASE UNCHANGED vars
  BY <1>1 DEF Typed, vars
<1>2. CASE Next
  BY <1>2, ReadTyped, WriteTyped DEF Next
<1>3. QED
  BY <1>1, <1>2
-----------------------------------------------------------------------------
(* However many readers and writers there are, no reader sleeps on a       *)
(* buffer with data without a write that is about to wake it.              *)
THEOREM NoWakeUpIsLost == Spec => []SleepersWillBeWoken
<1> DEFINE IInv == Typed /\ SleepersWillBeWoken
<1>1. Init => IInv
  BY InitTyped DEF Init, SleepersWillBeWoken, READ_POSSIBLE, Procs
<1>2. IInv /\ [Next]_vars => IInv'
  <2> SUFFICES ASSUME IInv, [Next]_vars PROVE SleepersWillBeWoken'
    BY StepTyped
  <2> SUFFICES ASSUME NEW s \in Readers, (pc[s] = "asleep" /\ READ_POSSIBLE)'
               PROVE  \E w \in Writers : pc'[w] = "wake"
    BY DEF SleepersWillBeWoken
  <2>0. Writers \cap Readers = {} /\ Readers \subseteq Procs /\ Writers \subseteq Procs
    BY ModControlAssumption DEF Procs
  <2>1. CASE UNCHANGED vars
    BY <2>1 DEF vars, SleepersWillBeWoken, READ_POSSIBLE
  <2>2. ASSUME NEW r \in Readers, DriverRead(r)
        PROVE  \E w \in Writers : pc'[w] = "wake"
    <3>1. /\ pc[s] = "asleep"
          /\ READ_POSSIBLE
      <4> USE <2>0 DEF Typed, Goto, READ_POSSIBLE
      <4>1. CASE Read(r)
        BY <4>1 DEF Read
      <4>2. CASE CheckOrSleep(r)
        BY <4>2 DEF CheckOrSleep
      <4>3. CASE Signal(r)
        BY <4>3 DEF Signal
      <4>4. CASE ReadSize(r)
        BY <4>4 DEF ReadSize
      <4>5. CASE CopyOut(r)
        BY <4>5 DEF CopyOut, CopyToUser
      <4>6. CASE Sub(r)
        BY <4>6 DEF Sub, Take
      <4>7. QED
        BY <2>2, <4>1, <4>2, <4>3, <4>4, <4>5, <4>6 DEF DriverRead
    <3>2. PICK w \in Writers : pc[w] = "wake"
      BY <3>1 DEF SleepersWillBeWoken
    <3>3. pc'[w] = pc[w]
      BY <2>0, <2>2 DEF DriverRead, Read, CheckOrSleep, Signal, ReadSize, CopyOut,
        CopyToUser, Sub, Take, Goto, Typed
    <3>4. QED
      BY <3>2, <3>3
  <2>3. ASSUME NEW w \in Writers, DriverWrite(w)
        PROVE  \E v \in Writers : pc'[v] = "wake"
    <3> USE <2>0 DEF Typed, Goto
    <3>1. CASE Write(w) \/ CopyIn(w)
      <4>1. pc[s] = "asleep" /\ READ_POSSIBLE /\ pc[w] # "wake"
        BY <3>1 DEF Write, CopyIn, READ_POSSIBLE
      <4>2. PICK v \in Writers : pc[v] = "wake"
        BY <4>1 DEF SleepersWillBeWoken
      <4>3. pc'[v] = pc[v]
        BY <3>1, <4>1, <4>2 DEF Write, CopyIn
      <4>4. QED
        BY <4>2, <4>3
    <3>2. CASE Add(w)
      BY <3>2 DEF Add
    <3>3. CASE Wake(w)
      BY <3>3 DEF Wake, WakeUp, Asleep
    <3>4. QED
      BY <2>3, <3>1, <3>2, <3>3 DEF DriverWrite
  <2>4. QED
    BY <2>1, <2>2, <2>3 DEF Next
<1>3. QED
  BY <1>1, <1>2, PTL DEF Spec
-----------------------------------------------------------------------------
OneReader == \A q, r \in Readers : q = r
OneWriter == \A v, w \in Writers : v = w

(* Until a read takes its bytes from the count, only a write can change    *)
(* it, and makes it larger: what the read took for the count, and is about *)
(* to take, is there.  ...                                                 *)
ReadsFit ==
  /\ buffer_filled_size >= 0
  /\ \A r \in Readers :
       /\ pc[r] = "copy_out" => local[r] \in 0 .. buffer_filled_size
       /\ pc[r] = "sub" => act[r] <= buffer_filled_size

(* ... A write finds in the same way that the room it saw is still there,  *)
(* for a read can only have made more.                                     *)
WritesFit ==
  /\ buffer_filled_size <= BUFSIZE
  /\ \A w \in Writers :
       /\ pc[w] = "copy_in" => buffer_filled_size <= local[w] /\ local[w] <= BUFSIZE
       /\ pc[w] = "add" => buffer_filled_size + act[w] <= BUFSIZE

(* A read takes away what it has counted, ...                              *)
LEMMA ReadMakesRoom ==
  ASSUME Typed, WritesFit, NEW r \in Readers, DriverRead(r)
  PROVE  WritesFit'
<1>1. buffer_filled_size' \in Int /\ buffer_filled_size' <= buffer_filled_size
  BY ModControlAssumption DEF Typed, Procs, DriverRead, Read, CheckOrSleep, Signal, ReadSize,
    CopyOut, CopyToUser, Sub, Take
<1>2. \A w \in Writers : pc'[w] = pc[w] /\ local'[w] = local[w] /\ act'[w] = act[w]
  BY ModControlAssumption DEF Typed, Procs, Goto, ForgetLocals, DriverRead, Read,
    CheckOrSleep, Signal, ReadSize, CopyOut, CopyToUser, Sub, Take
<1>3. \A w \in Writers : local[w] \in Int /\ act[w] \in Int
  BY DEF Typed, Procs
<1>4. QED
  BY <1>1, <1>2, <1>3, ModControlAssumption DEF WritesFit, Typed

(* ... and a write adds to it.                                             *)
LEMMA WriteBringsBytes ==
  ASSUME Typed, ReadsFit, NEW w \in Writers, DriverWrite(w)
  PROVE  ReadsFit'
<1>1. buffer_filled_size' \in Int /\ buffer_filled_size' >= buffer_filled_size
  BY DEF Typed, Procs, DriverWrite, Write, CopyIn, Add, Wake, WakeUp
<1>2. \A r \in Readers :
        /\ pc'[r] = pc[r] \/ pc'[r] = "check"
        /\ local'[r] = local[r] /\ act'[r] = act[r]
  BY ModControlAssumption DEF Typed, Procs, Goto, ForgetLocals, DriverWrite, Write,
    CopyIn, Add, Wake, WakeUp, Asleep
<1>3. \A r \in Readers : local[r] \in Int /\ act[r] \in Int
  BY DEF Typed, Procs
<1>4. QED
  BY <1>1, <1>2, <1>3 DEF ReadsFit, Typed

LEMMA ReadFits ==
  ASSUME OneReader, Typed, ReadsFit, NEW r \in Readers, DriverRead(r)
  PROVE  ReadsFit'
<1> USE ModControlAssumption DEF Typed, ReadsFit, OneReader, Procs, Goto
<1>0. r \in Procs /\ r \notin Writers
  OBVIOUS
<1>1. CASE Read(r)
  BY <1>0, <1>1 DEF Read
<1>2. CASE CheckOrSleep(r)
  BY <1>0, <1>2 DEF CheckOrSleep
<1>3. CASE Signal(r)
  BY <1>0, <1>3 DEF Signal, ForgetLocals
<1>4. CASE ReadSize(r)
  BY <1>0, <1>4 DEF ReadSize
<1>5. CASE CopyOut(r)
  <2>1. PICK n \in Copied(Least(local[r], arg[r])) :
          CopyToUser(r, local[r] - Least(local[r], arg[r]), n)
    BY <1>5 DEF CopyOut
  <2>2. n \in Nat /\ n <= local[r]
    <3>1. local[r] \in Nat /\ arg[r] \in Nat
      BY <1>0, <1>5 DEF CopyOut
    <3>2. QED
      BY <3>1, CopiedIsBounded
  <2>3. QED
    BY <1>0, <1>5, <2>1, <2>2 DEF CopyOut, CopyToUser
<1>6. CASE Sub(r)
  BY <1>0, <1>6 DEF Sub, Take, ForgetLocals
<1>7. QED
  BY <1>1, <1>2, <1>3, <1>4, <1>5, <1>6 DEF DriverRead

LEMMA WriteFits ==
  ASSUME OneWriter, Typed, WritesFit, NEW w \in Writers, DriverWrite(w)
  PROVE  WritesFit'
<1> USE ModControlAssumption DEF Typed, WritesFit, OneWriter, Procs, Goto
<1>0. w \in Procs /\ w \notin Readers
  OBVIOUS
<1>1. CASE Write(w)
  BY <1>0, <1>1 DEF Write
<1>2. CASE CopyIn(w)
  <2>1. PICK n \in Copied(Least(BUFSIZE - local[w], Len(arg[w]))) :
          act' = [act EXCEPT ![w] = n]
    BY <1>2 DEF CopyIn
  <2>2. n \in Nat /\ n <= BUFSIZE - local[w]
    <3>1. BUFSIZE - local[w] \in Nat /\ Len(arg[w]) \in Nat
      BY <1>0, <1>2 DEF CopyIn
    <3>2. QED
      BY <3>1, CopiedIsBounded
  <2>3. QED
    BY <1>0, <1>2, <2>1, <2>2 DEF CopyIn
<1>3. CASE Add(w)
  BY <1>0, <1>3 DEF Add
<1>4. CASE Wake(w)
  BY <1>0, <1>4 DEF Wake, WakeUp, Asleep, ForgetLocals
<1>5. QED
  BY <1>1, <1>2, <1>3, <1>4 DEF DriverWrite

LEMMA ReadsFitInvariant == OneReader => (Spec => [](Typed /\ ReadsFit))
<1> SUFFICES ASSUME OneReader PROVE Spec => [](Typed /\ ReadsFit)
  OBVIOUS
<1>1. Init => Typed /\ ReadsFit
  BY InitTyped DEF Init, ReadsFit, Procs
<1>2. Typed /\ ReadsFit /\ [Next]_vars => (Typed /\ ReadsFit)'
  <2> SUFFICES ASSUME Typed, ReadsFit, [Next]_vars PROVE ReadsFit'
    BY StepTyped
  <2>1. CASE UNCHANGED vars
    BY <2>1 DEF ReadsFit, vars
  <2>2. CASE Next
    BY <2>2, ReadFits, WriteBringsBytes DEF Next
  <2>3. QED
    BY <2>1, <2>2
<1>3. QED
  BY <1>1, <1>2, PTL DEF Spec

LEMMA WritesFitInvariant == OneWriter => (Spec => [](Typed /\ WritesFit))
<1> SUFFICES ASSUME OneWriter PROVE Spec => [](Typed /\ WritesFit)
  OBVIOUS
<1>1. Init => Typed /\ WritesFit
  BY InitTyped, ModControlAssumption DEF Init, WritesFit, Procs
<1>2. Typed /\ WritesFit /\ [Next]_vars => (Typed /\ WritesFit)'
  <2> SUFFICES ASSUME Typed, WritesFit, [Next]_vars PROVE WritesFit'
    BY StepTyped
  <2>1. CASE UNCHANGED vars
    BY <2>1 DEF WritesFit, vars
  <2>2. CASE Next
    BY <2>2, ReadMakesRoom, WriteFits DEF Next
  <2>3. QED
    BY <2>1, <2>2
<1>3. QED
  BY <1>1, <1>2, PTL DEF Spec

(* The count cannot be negative, nor become so, while a read works with it.*)
NeverNegative ==
  /\ buffer_filled_size >= 0
  /\ \A r \in Readers : pc[r] = "copy_out" => local[r] >= 0

(* A single reader never takes more than there is, however many processes  *)
(* write meanwhile: for a negative count it takes two readers.  (Two       *)
(* writers can pass the end of the buffer; what their copies overwrite     *)
(* there is not in the model, and this is about the arithmetic alone.)     *)
THEOREM OneReaderNeverUnderruns == OneReader => (Spec => []NeverNegative)
<1>1. ReadsFit => NeverNegative
  BY DEF ReadsFit, NeverNegative
<1>2. QED
  BY <1>1, ReadsFitInvariant, PTL

(* There is always as much room as a write works with.                     *)
NeverOverfull ==
  /\ buffer_filled_size <= BUFSIZE
  /\ \A w \in Writers : pc[w] = "copy_in" => local[w] <= BUFSIZE

(* A single writer never adds more than there is room for, however many    *)
(* processes read meanwhile: to overfill the buffer it takes two writers.  *)
(* (Again of the arithmetic: two readers can make the count negative, and  *)
(* the copies below the buffer are not in the model.)                      *)
THEOREM OneWriterNeverOverfills == OneWriter => (Spec => []NeverOverfull)
<1>1. WritesFit => NeverOverfull
  BY DEF WritesFit, NeverOverfull
<1>2. QED
  BY <1>1, WritesFitInvariant, PTL

(* With at most one reader and one writer the count stays within the       *)
(* buffer, and so does every copy, whatever the size of the buffer.        *)
THEOREM PairStaysInBounds == OneReader /\ OneWriter => (Spec => []InBounds)
<1>1. Typed /\ ReadsFit /\ WritesFit => InBounds
  BY ModControlAssumption
     DEF InBounds, Typed, ReadsFit, WritesFit, Procs, ReadPlaces, WritePlaces
<1>2. QED
  BY <1>1, ReadsFitInvariant, WritesFitInvariant, PTL
-----------------------------------------------------------------------------
(* The bytes of a buffer between two heights, the lowest one first.        *)
Between(b, lo, hi) == [i \in 1 .. hi - lo |-> b[lo + i - 1]]

LEMMA PartOfTheBytes ==
  ASSUME NEW b, NEW n \in Nat, NEW lo \in 0 .. n, NEW hi \in lo .. n
  PROVE  /\ Len(Between(b, 0, n)) = n
         /\ SubSeq(Between(b, 0, n), lo + 1, hi) = Between(b, lo, hi)
<1> DEFINE S == {b[i - 1] : i \in 1 .. n}
           s == Between(b, 0, n)
           part == SubSeq(s, lo + 1, hi)
<1>1. /\ s \in Seq(S)
      /\ Len(s) = n
      /\ \A i \in 1 .. n : s[i] = b[i - 1]
  <2>1. s = [i \in 1 .. n |-> b[i - 1]]
    BY DEF Between
  <2> HIDE DEF s
  <2>2. s \in [1 .. n -> S]
    BY <2>1
  <2> HIDE DEF S
  <2>3. s \in Seq(S) /\ Len(s) = n
    BY <2>2
  <2>4. \A i \in 1 .. n : s[i] = b[i - 1]
    BY <2>1
  <2>5. QED
    BY <2>3, <2>4
<1> HIDE DEF s, S
<1>2. /\ part \in Seq(S)
      /\ Len(part) = hi - lo
      /\ \A i \in 1 .. hi - lo : part[i] = s[lo + i]
  BY <1>1
<1> HIDE DEF part
<1>3. part = [i \in 1 .. hi - lo |-> part[i]]
  BY <1>2
<1>4. \A i \in 1 .. hi - lo : part[i] = b[lo + i - 1]
  BY <1>1, <1>2
<1>5. QED
  BY <1>1, <1>3, <1>4 DEF part, s, Between

LEMMA ContentIsBetween ==
  ASSUME buffer_filled_size \in Int
  PROVE  Content = Between(buffer, 0, buffer_filled_size)
  BY DEF Content, Between

(* No copy faults, and every read asks for at least a byte: a read of no   *)
(* bytes returns without any, as it should.                                *)
CallsWork == Faults = {} /\ 0 \notin Counts

Alone == \A p, q \in Procs : InCall(p) /\ InCall(q) => p = q

Carried(n) == Between(buffer, buffer_filled_size - n, buffer_filled_size)

(* As long as a call is the only one, what it took for the count is the    *)
(* count: a read carries the topmost bytes and is about to take as many    *)
(* from the count, a write is about to count no more than there was room   *)
(* for.                                                                    *)
SerialFits ==
  /\ buffer_filled_size \in 0 .. BUFSIZE
  /\ DOMAIN buffer = 0 .. BUFSIZE - 1
  /\ DOMAIN user = Readers
  /\ \A r \in Readers :
       /\ pc[r] \in {"check", "asleep", "read", "copy_out"} => arg[r] > 0
       /\ pc[r] \in {"read", "copy_out"} => buffer_filled_size > 0
       /\ pc[r] = "copy_out" => local[r] = buffer_filled_size
       /\ pc[r] = "sub" => act[r] \in 1 .. buffer_filled_size /\ user[r] = Carried(act[r])
  /\ \A w \in Writers :
       /\ pc[w] = "copy_in" => local[w] = buffer_filled_size
       /\ pc[w] = "add" => act[w] \in 0 .. BUFSIZE - buffer_filled_size

SerialInv == Typed /\ Alone /\ SerialFits

LEMMA InitSerial == Init => SerialInv
  BY InitTyped, ModControlAssumption
     DEF Init, SerialInv, Alone, SerialFits, InCall, Procs

(* A step of a call when no other process is in one.                       *)
LEMMA StepIsAlone ==
  ASSUME Typed, NEW p \in Procs, \A q \in Procs \ {p} : ~InCall(q),
         \/ p \in Readers /\ DriverRead(p)
         \/ p \in Writers /\ DriverWrite(p)
  PROVE  Alone'
<1> SUFFICES ASSUME NEW q \in Procs \ {p} PROVE ~InCall(q)'
  BY DEF Alone
<1>1. pc'[q] = pc[q] \/ pc'[q] = "check"
  BY DEF Typed, Goto, DriverRead, Read, CheckOrSleep, Signal, ReadSize, CopyOut,
    CopyToUser, Sub, Take, DriverWrite, Write, CopyIn, Add, Wake, WakeUp, Asleep
<1>2. QED
  BY <1>1 DEF InCall

LEMMA SerialReadFits ==
  ASSUME CallsWork, Typed, SerialFits, NEW r \in Readers, DriverRead(r),
         \A q \in Procs \ {r} : ~InCall(q)
  PROVE  SerialFits'
<1> USE ModControlAssumption DEF Typed, SerialFits, Procs, Goto
<1>0. /\ r \in Procs /\ r \notin Writers
      /\ \A q \in Readers \ {r} : pc[q] \in {"idle", "check", "asleep"}
      /\ \A w \in Writers : pc[w] = "idle"
  BY DEF InCall, WritePlaces
<1>1. CASE Read(r)
  <2>1. PICK count \in Counts : arg' = [arg EXCEPT ![r] = count]
    BY <1>1 DEF Read
  <2>2. count > 0
    BY DEF CallsWork
  <2>3. QED
    BY <1>0, <1>1, <2>1, <2>2 DEF Read, Carried
<1>2. CASE CheckOrSleep(r)
  BY <1>0, <1>2 DEF CheckOrSleep, READ_POSSIBLE
<1>3. CASE Signal(r)
  BY <1>0, <1>3 DEF Signal, ForgetLocals
<1>4. CASE ReadSize(r)
  BY <1>0, <1>4 DEF ReadSize
<1>5. CASE CopyOut(r)
  <2>1. PICK n \in 1 .. buffer_filled_size :
          n = Least(local[r], arg[r]) /\ local[r] = buffer_filled_size
    BY <1>0, <1>5 DEF CopyOut, Least
  <2>2. CopyToUser(r, local[r] - n, n)
    BY <1>5, <2>1 DEF CopyOut, Copied, CallsWork
  <2> DEFINE copied == [i \in 1 .. n |-> buffer[local[r] - n + i - 1]]
  <2>3. copied = Carried(n)
    BY <2>1, ModControlAssumption DEF Carried, Between
  <2>4. /\ user' = [user EXCEPT ![r] = copied]
        /\ act' = [act EXCEPT ![r] = n]
        /\ pc' = [pc EXCEPT ![r] = "sub"]
        /\ UNCHANGED <<buffer_filled_size, buffer, local, arg>>
    BY <2>2 DEF CopyToUser
  <2> HIDE DEF copied
  <2>5. pc[r] = "copy_out" /\ Carried(n)' = Carried(n)
    BY <1>5, <2>4 DEF CopyOut, Carried
  <2>6. act'[r] = n /\ user'[r] = Carried(n)
    BY <1>0, <2>3, <2>4
  <2>7. QED
    BY <1>0, <2>1, <2>4, <2>5, <2>6
<1>6. CASE Sub(r)
  BY <1>0, <1>6 DEF Sub, Take, ForgetLocals
<1>7. QED
  BY <1>1, <1>2, <1>3, <1>4, <1>5, <1>6 DEF DriverRead

LEMMA SerialWriteFits ==
  ASSUME CallsWork, Typed, SerialFits, NEW w \in Writers, DriverWrite(w),
         \A q \in Procs \ {w} : ~InCall(q)
  PROVE  SerialFits'
<1> USE ModControlAssumption DEF Typed, SerialFits, Procs, Goto
<1>0. /\ w \in Procs /\ w \notin Readers
      /\ \A r \in Readers : pc[r] \in {"idle", "check", "asleep"}
      /\ \A v \in Writers \ {w} : pc[v] = "idle"
  BY DEF InCall, WritePlaces
<1>1. CASE Write(w)
  BY <1>0, <1>1 DEF Write
<1>2. CASE CopyIn(w)
  <2> DEFINE n == Least(BUFSIZE - local[w], Len(arg[w]))
  <2>1. n \in 0 .. BUFSIZE - buffer_filled_size
    BY <1>0, <1>2 DEF CopyIn, Least
  <2>2. act' = [act EXCEPT ![w] = n] /\ DOMAIN buffer' = DOMAIN buffer
    BY <1>2 DEF CopyIn, Copied, CallsWork
  <2> HIDE DEF n
  <2>3. QED
    BY <1>0, <1>2, <2>1, <2>2 DEF CopyIn
<1>3. CASE Add(w)
  BY <1>0, <1>3 DEF Add
<1>4. CASE Wake(w)
  BY <1>0, <1>4 DEF Wake, WakeUp, Asleep, ForgetLocals
<1>5. QED
  BY <1>1, <1>2, <1>3, <1>4 DEF DriverWrite

LEMMA SerialStep == CallsWork /\ SerialInv /\ [SerialNext]_vars => SerialInv'
<1> SUFFICES ASSUME CallsWork, SerialInv, [SerialNext]_vars PROVE SerialInv'
  OBVIOUS
<1>1. CASE UNCHANGED vars
  BY <1>1 DEF SerialInv, Typed, Alone, InCall, SerialFits, Carried, vars
<1>2. CASE SerialNext
  <2>1. PICK p \in Procs :
          /\ \A q \in Procs \ {p} : ~InCall(q)
          /\ \/ p \in Readers /\ DriverRead(p)
             \/ p \in Writers /\ DriverWrite(p)
    BY <1>2 DEF SerialNext, Procs
  <2>2. Typed'
    BY <2>1, ReadTyped, WriteTyped DEF SerialInv
  <2>3. Alone'
    BY <2>1, StepIsAlone DEF SerialInv
  <2>4. SerialFits'
    BY <2>1, SerialReadFits, SerialWriteFits DEF SerialInv
  <2>5. QED
    BY <2>2, <2>3, <2>4 DEF SerialInv
<1>3. QED
  BY <1>1, <1>2

(* Only what a call adds to the count or takes from it is a step of the    *)
(* stack: Add pushes, Sub pops, and every other step leaves it alone, the  *)
(* copy into the buffer too, which writes above the bytes that are counted.*)
LEMMA AddPushes ==
  ASSUME SerialInv, NEW w \in Writers, Add(w)
  PROVE  Stack!Push
<1> DEFINE n == buffer_filled_size
           m == buffer_filled_size'
<1>1. n \in Nat /\ m \in n .. BUFSIZE /\ buffer' = buffer /\ got' = got
  BY ModControlAssumption DEF Add, SerialInv, SerialFits, Typed
<1>2. Content = Between(buffer, 0, n) /\ Content' = Between(buffer, 0, m)
  BY <1>1, ModControlAssumption DEF Content, Between
<1> HIDE DEF m, n
<1>3. m \in Nat /\ 0 \in 0 .. m /\ n \in 0 .. m /\ 0 \in 0 .. n /\ n \in 0 .. n
  BY <1>1, ModControlAssumption
<1>4. Len(Content) = n /\ Len(Content') = m
  BY <1>1, <1>2, <1>3, PartOfTheBytes, Zenon
<1>5. SubSeq(Content', 0 + 1, n) = Content
  BY <1>1, <1>2, <1>3, PartOfTheBytes, Zenon
<1>6. Content = SubSeq(Content', 1, n)
  BY <1>5
<1>7. QED
  BY <1>1, <1>4, <1>6, ModControlAssumption DEF Stack!Push

LEMMA SubPops ==
  ASSUME SerialInv, NEW r \in Readers, Sub(r)
  PROVE  Stack!Pop(r)
<1> DEFINE n == buffer_filled_size
           k == act[r]
           rest == n - k
<1>1. /\ n \in Nat /\ k \in 1 .. n
      /\ buffer_filled_size' = rest /\ buffer' = buffer
      /\ got' = [got EXCEPT ![r] = Between(buffer, rest, n)]
  <2>1. /\ pc[r] = "sub"
        /\ buffer_filled_size' = buffer_filled_size - act[r] /\ buffer' = buffer
        /\ got' = [got EXCEPT ![r] = user[r]]
    BY DEF Sub, Take
  <2>2. /\ buffer_filled_size \in 0 .. BUFSIZE
        /\ act[r] \in 1 .. buffer_filled_size /\ user[r] = Carried(act[r])
    BY <2>1 DEF SerialInv, SerialFits
  <2>3. QED
    BY <2>1, <2>2, ModControlAssumption DEF Carried
<1>2. Content = Between(buffer, 0, n) /\ Content' = Between(buffer, 0, rest)
  BY <1>1 DEF Content, Between
<1>3. rest \in 0 .. n /\ n \in rest .. n /\ 0 \in 0 .. n /\ k = n - rest
  BY <1>1
<1> HIDE DEF n, k, rest
<1>4. Len(Content) = n
  BY <1>1, <1>2, <1>3, PartOfTheBytes, Zenon
<1>5. SubSeq(Content, 0 + 1, rest) = Content'
  BY <1>1, <1>2, <1>3, PartOfTheBytes, Zenon
<1>6. SubSeq(Content, rest + 1, n) = Between(buffer, rest, n)
  BY <1>1, <1>2, <1>3, PartOfTheBytes, Zenon
<1>7. rest = n - k /\ SubSeq(Content, 1, rest) = Content'
  BY <1>1, <1>3, <1>5
<1>8. QED
  BY <1>1, <1>4, <1>6, <1>7 DEF Stack!Pop

LEMMA OthersLeaveTheStack ==
  ASSUME SerialInv, NEW p \in Procs,
         \/ p \in Readers /\ DriverRead(p) /\ ~Sub(p)
         \/ p \in Writers /\ DriverWrite(p) /\ ~Add(p)
  PROVE  UNCHANGED <<Content, got>>
<1>1. CASE p \in Writers /\ CopyIn(p)
  <2>1. /\ buffer_filled_size' = buffer_filled_size /\ got' = got
        /\ local[p] = buffer_filled_size /\ buffer_filled_size \in 0 .. BUFSIZE
        /\ DOMAIN buffer = 0 .. BUFSIZE - 1
    BY <1>1 DEF CopyIn, SerialInv, SerialFits
  <2>2. \A i \in 1 .. buffer_filled_size : buffer'[i - 1] = buffer[i - 1]
    <3>1. PICK n : buffer' = [i \in DOMAIN buffer |->
                                IF i \in local[p] .. local[p] + n - 1
                                THEN arg[p][i - local[p] + 1] ELSE buffer[i]]
      BY <1>1 DEF CopyIn
    <3>2. ASSUME NEW i \in 1 .. buffer_filled_size
          PROVE  i - 1 \in DOMAIN buffer /\ i - 1 \notin local[p] .. local[p] + n - 1
      BY <2>1, ModControlAssumption
    <3>3. QED
      BY <3>1, <3>2
  <2>3. QED
    BY <2>1, <2>2 DEF Content
<1>2. CASE ~(p \in Writers /\ CopyIn(p))
  <2>1. UNCHANGED <<buffer_filled_size, buffer, got>>
    BY <1>2 DEF DriverRead, Read, CheckOrSleep, Signal, ReadSize, CopyOut, CopyToUser,
      DriverWrite, Write, Wake, WakeUp
  <2>2. QED
    BY <2>1 DEF Content
<1>3. QED
  BY <1>1, <1>2

(* When calls do not overlap the device is a stack of bytes, whatever the  *)
(* size of the buffer and however many readers and writers take turns.     *)
THEOREM SerialCallsImplementByteStack == CallsWork => (SerialSpec => ImplementsByteStack)
<1> SUFFICES ASSUME CallsWork PROVE SerialSpec => ImplementsByteStack
  OBVIOUS
<1>1. Init => SerialInv
  BY InitSerial
<1>2. SerialInv /\ [SerialNext]_vars => SerialInv'
  BY SerialStep
<1>3. Init => Stack!Init
  BY DEF Init, Stack!Init, Content
<1>4. SerialInv /\ [SerialNext]_vars => [Stack!Next]_<<Content, got>>
  <2> SUFFICES ASSUME SerialInv, [SerialNext]_vars
               PROVE  [Stack!Next]_<<Content, got>>
    OBVIOUS
  <2>1. CASE UNCHANGED vars
    BY <2>1 DEF vars, Content
  <2>2. CASE SerialNext
    <3>1. PICK p \in Procs :
            \/ p \in Readers /\ DriverRead(p)
            \/ p \in Writers /\ DriverWrite(p)
      BY <2>2 DEF SerialNext, Procs
    <3>2. CASE p \in Readers /\ Sub(p)
      BY <3>2, SubPops DEF Stack!Next
    <3>3. CASE p \in Writers /\ Add(p)
      BY <3>3, AddPushes DEF Stack!Next
    <3>4. CASE ~(p \in Readers /\ Sub(p)) /\ ~(p \in Writers /\ Add(p))
      BY <3>1, <3>4, OthersLeaveTheStack
    <3>5. QED
      BY <3>2, <3>3, <3>4
  <2>3. QED
    BY <2>1, <2>2
<1>5. QED
  BY <1>1, <1>2, <1>3, <1>4, PTL DEF SerialSpec, ImplementsByteStack, Stack!Spec
=============================================================================

--------------------------- MODULE LogFileProofs ---------------------------
(***************************************************************************)
(* Proofs, for any limits, frequencies and times, of what a log file of    *)
(* glog keeps to: how many messages it loses between two attempts to       *)
(* create it, how much it buffers and how long, how large it grows.        *)
(***************************************************************************)
EXTENDS LogFile, TLAPS

\* The part of TypeOK that is about truth values and names.
Flags ==
  /\ base \in Names \cup {Off, Default} /\ selected \in BOOLEAN /\ extension \in BOOLEAN
  /\ file \in BOOLEAN /\ stop \in BOOLEAN /\ forked \in BOOLEAN /\ full \in BOOLEAN

\* The part of TypeOK that is about numbers.
Numbers ==
  /\ length \in 0 .. LengthMod - 1 /\ since \in Nat
  /\ attempt \in Nat
  /\ due \in 0 .. BufSecs
  /\ actual \in Nat /\ pending \in 0 .. actual /\ oldest \in 0 .. BufSecs + 1
  /\ missed \in Nat

\* rollover_attempt_ counts the lost messages and never steps over its last value.
AttemptsCount == missed <= attempt /\ attempt < Freq

\* bytes_since_flush_ covers at least what is in the buffer, and a closed file has none.
BufferCounted == pending <= since /\ (~file => pending = 0) /\ pending < FlushBytes

\* A buffered message is due to be flushed before it is older than logbufsecs.
FlushDue == pending > 0 /\ due > 0 => oldest + due <= BufSecs

Inv == Numbers /\ AttemptsCount /\ BufferCounted /\ FlushDue

\* file_length_ covers at least what is in the open file, which passes its limit by less
\* than a message.
LengthCovers == LengthFits /\ (file => actual <= length) /\ actual < MaxSize + MaxLen

SizeInv == Numbers /\ LengthCovers

(***************************************************************************)
(* Constants and steps.                                                    *)
(***************************************************************************)

\* The limits are positive numbers.
LEMMA Limits ==
  /\ Header \in Nat /\ Header > 0 /\ Header < MaxSize /\ Header < FlushBytes
  /\ MaxLen \in Nat /\ MaxLen > 0
  /\ MaxSize \in Nat /\ LengthMod \in Nat /\ Freq \in Nat /\ FlushBytes \in Nat /\ BufSecs \in Nat
  /\ LengthMod > 0 /\ Freq > 1 /\ BufSecs > 0
BY LogFileAssumption

\* What a counter of limited width holds.
LEMMA Wrapped ==
  ASSUME NEW n \in Nat, NEW m \in Nat, m > 0
  PROVE  n % m \in 0 .. m - 1 /\ (n < m => n % m = n)
OBVIOUS

\* A message that finds the file open, too long or the process forked starts from these.
LEMMA Started ==
  ASSUME Numbers
  PROVE  /\ Len \in Nat /\ Since \in Nat /\ Try \in Nat
         /\ Len < MaxSize
         /\ Kept => Len = length /\ Since = since /\ file
BY Limits DEF Numbers, Len, Since, Try, NextTry, Kept, TooLong

\* The numbers after a step in which the file is opened or was kept and n bytes are
\* added to it without a flush.
LEMMA BufferedNumbers ==
  ASSUME Numbers, NEW h \in {0, Header}, NEW n \in Nat, Buffered(h, n)
  PROVE  /\ length' \in 0 .. LengthMod - 1 /\ since' = Since + n
         /\ actual' \in Nat /\ pending' \in 0 .. actual' /\ oldest' \in 0 .. BufSecs + 1
         /\ h = Header => pending' = n /\ oldest' = 0
         /\ h = 0 => pending' = pending + n /\ oldest' = IF pending = 0 THEN 0 ELSE oldest
<1> USE Limits DEF Numbers
<1>1. length' \in 0 .. LengthMod - 1
  BY Started, Wrapped DEF Buffered
<1> QED  BY <1>1 DEF Buffered, Grown

\* Every step is one of these.
LEMMA StepCases ==
  [Next]_vars =>
    \/ \E b, e : Rename(b, e)
    \/ Flush \/ OtherFileAsks \/ Tick \/ DiskFills \/ Fork
    \/ WriteNothing \/ CreateFails
    \/ \E h \in {0, Header} : WriteStopped(h) \/ WriteHitsFullDisk(h)
    \/ \E h \in {0, Header}, n \in 0 .. MaxLen, force \in BOOLEAN : WriteMessage(force, h, n)
    \/ UNCHANGED vars
BY Zenon DEF Next, Write, SetBasename, SetExtension

(***************************************************************************)
(* Types.                                                                  *)
(***************************************************************************)

\* Every step keeps the numbers in their ranges.
LEMMA NumbersStep == Numbers /\ [Next]_vars => Numbers'
<1> SUFFICES ASSUME Numbers, [Next]_vars PROVE Numbers'
  OBVIOUS
<1> USE Limits
<1>1. ASSUME NEW b, NEW e, Rename(b, e) PROVE Numbers'
  BY <1>1 DEF Rename, Closed, NextTry, Numbers
<1>2. CASE Flush
  BY <1>2 DEF Flush, Numbers
<1>3. CASE Tick
  BY <1>3 DEF Tick, Numbers
<1>4. CASE OtherFileAsks \/ DiskFills \/ Fork \/ UNCHANGED vars
  BY <1>4 DEF OtherFileAsks, DiskFills, Fork, vars, Numbers
<1>5. CASE WriteNothing \/ CreateFails
  <2>1. Len \in 0 .. LengthMod - 1 /\ Since \in Nat /\ Try \in Nat
    BY Started DEF Len, Numbers
  <2> QED  BY <1>5, <2>1 DEF WriteNothing, CreateFails, Closed, Numbers
<1>6. ASSUME NEW h \in {0, Header}, WriteStopped(h) \/ WriteHitsFullDisk(h) PROVE Numbers'
  <2>1. Buffered(h, h) /\ Opened(h) /\ due' = due
    BY <1>6 DEF WriteStopped, WriteHitsFullDisk
  <2>2. attempt' \in Nat /\ missed' = 0
    BY <2>1 DEF Opened, Numbers
  <2>3. Since + h \in Nat
    BY Started
  <2> QED  BY <2>1, <2>2, <2>3, BufferedNumbers DEF Numbers
<1>7. ASSUME NEW h \in {0, Header}, NEW n \in 0 .. MaxLen,
             NEW force \in BOOLEAN, WriteMessage(force, h, n) PROVE Numbers'
  <2>1. Opened(h)
    BY <1>7 DEF WriteMessage
  <2>2. attempt' \in Nat /\ missed' = 0
    BY <2>1 DEF Opened, Numbers
  <2>3. CASE MustFlush(force, h, n)
    <3>1. /\ length' = (Len + h + n) % LengthMod /\ actual' = Grown(h + n, h)
          /\ since' = 0 /\ pending' = 0 /\ oldest' = 0 /\ due' = BufSecs
      BY <1>7, <2>3 DEF WriteMessage
    <3>2. length' \in 0 .. LengthMod - 1
      BY <3>1, Started, Wrapped
    <3>3. actual' \in Nat
      BY <3>1 DEF Grown, Numbers
    <3> QED  BY <2>2, <3>1, <3>2, <3>3 DEF Numbers
  <2>4. CASE ~MustFlush(force, h, n)
    <3>1. Buffered(h, h + n) /\ due' = due
      BY <1>7, <2>4 DEF WriteMessage
    <3>2. /\ length' \in 0 .. LengthMod - 1 /\ since' = Since + (h + n)
          /\ actual' \in Nat /\ pending' \in 0 .. actual' /\ oldest' \in 0 .. BufSecs + 1
      BY <3>1, BufferedNumbers
    <3>3. since' \in Nat
      BY <3>2, Started
    <3> QED  BY <2>2, <3>1, <3>2, <3>3 DEF Numbers
  <2> QED  BY <2>3, <2>4
<1> QED  BY StepCases, <1>1, <1>2, <1>3, <1>4, <1>5, <1>6, <1>7

\* Every step keeps the flags and the name.
LEMMA FlagsStep == Flags /\ [Next]_vars => Flags'
<1> SUFFICES ASSUME Flags, [Next]_vars PROVE Flags'
  OBVIOUS
<1> USE DEF Flags
<1>1. ASSUME NEW b \in Names \cup {Off}, SetBasename(b) PROVE Flags'
  BY <1>1, Zenon DEF SetBasename, Rename, Closed
<1>2. ASSUME NEW e \in BOOLEAN, SetExtension(e) PROVE Flags'
  BY <1>2, Zenon DEF SetExtension, Rename, Closed
<1>3. CASE Flush \/ OtherFileAsks \/ Tick \/ DiskFills \/ Fork \/ UNCHANGED vars
  BY <1>3, Zenon DEF Flush, OtherFileAsks, Tick, DiskFills, Fork, name, vars
<1>4. ASSUME NEW force \in BOOLEAN, Write(force) PROVE Flags'
  <2>1. forked' \in BOOLEAN
    BY <1>4, Zenon DEF Write, Asked
  <2>2. CASE WriteNothing \/ CreateFails
    BY <2>1, <2>2, Zenon DEF WriteNothing, CreateFails, Closed, name
  <2>3. ASSUME NEW h \in {0, Header}, Opened(h)
        PROVE  /\ base' \in Names \cup {Off, Default} /\ selected' \in BOOLEAN
               /\ extension' \in BOOLEAN /\ file' \in BOOLEAN /\ full' \in BOOLEAN
    BY <2>3, Zenon DEF Opened
  <2>4. ASSUME NEW h \in {0, Header}, WriteStopped(h) \/ WriteHitsFullDisk(h) PROVE Flags'
    <3>0. StillStopped \in BOOLEAN
      BY DEF StillStopped
    <3>1. stop' \in BOOLEAN
      BY <2>4, <3>0, Zenon DEF WriteStopped, WriteHitsFullDisk
    <3> QED  BY <2>1, <2>3, <2>4, <3>1, Zenon DEF WriteStopped, WriteHitsFullDisk
  <2>5. ASSUME NEW h \in {0, Header}, NEW n \in 0 .. MaxLen, WriteMessage(force, h, n) PROVE Flags'
    BY <2>1, <2>3, <2>5, Zenon DEF WriteMessage
  <2> QED  BY <1>4, <2>2, <2>4, <2>5, Zenon DEF Write
<1> QED  BY <1>1, <1>2, <1>3, <1>4, Zenon DEF Next

(***************************************************************************)
(* Lost and buffered messages.                                             *)
(***************************************************************************)

\* rollover_attempt_ is never past its last value when it is compared with it.
LEMMA AttemptsStep == Numbers /\ AttemptsCount /\ [Next]_vars => AttemptsCount'
<1> SUFFICES ASSUME Numbers, AttemptsCount, [Next]_vars PROVE AttemptsCount'
  OBVIOUS
<1> USE Limits DEF Numbers, AttemptsCount
<1>1. ASSUME NEW b, NEW e, Rename(b, e) PROVE AttemptsCount'
  BY <1>1 DEF Rename, NextTry
<1>2. CASE Flush \/ OtherFileAsks \/ Tick \/ DiskFills \/ Fork \/ UNCHANGED vars
  BY <1>2 DEF Flush, OtherFileAsks, Tick, DiskFills, Fork, vars
<1>3. CASE WriteNothing
  BY <1>3 DEF WriteNothing, Try, NextTry
<1>4. CASE CreateFails
  BY <1>4 DEF CreateFails
<1>5. ASSUME NEW h \in {0, Header}, Opened(h) PROVE AttemptsCount'
  BY <1>5 DEF Opened
<1> QED  BY StepCases, <1>1, <1>2, <1>3, <1>4, <1>5
         DEF WriteStopped, WriteHitsFullDisk, WriteMessage

\* No step buffers too much, or more than bytes_since_flush_ says.
LEMMA BufferStep == Numbers /\ BufferCounted /\ [Next]_vars => BufferCounted'
<1> SUFFICES ASSUME Numbers, BufferCounted, [Next]_vars PROVE BufferCounted'
  OBVIOUS
<1> USE Limits DEF Numbers, BufferCounted
<1>1. ASSUME NEW b, NEW e, Rename(b, e) PROVE BufferCounted'
  BY <1>1 DEF Rename, Closed
<1>2. CASE Flush \/ OtherFileAsks \/ Tick \/ DiskFills \/ Fork \/ UNCHANGED vars
  BY <1>2 DEF Flush, OtherFileAsks, Tick, DiskFills, Fork, vars
<1>3. CASE WriteNothing \/ CreateFails
  BY <1>3, Started DEF WriteNothing, CreateFails, Closed
<1>4. ASSUME NEW h \in {0, Header}, WriteStopped(h) \/ WriteHitsFullDisk(h) PROVE BufferCounted'
  <2>1. Buffered(h, h) /\ file' /\ (h = 0 => Kept)
    BY <1>4 DEF WriteStopped, WriteHitsFullDisk, Opened
  <2> QED  BY <2>1, Started, BufferedNumbers
<1>5. ASSUME NEW h \in {0, Header}, NEW n \in 0 .. MaxLen,
             NEW force \in BOOLEAN, WriteMessage(force, h, n) PROVE BufferCounted'
  <2>1. file' /\ (h = 0 => Kept)
    BY <1>5 DEF WriteMessage, Opened
  <2>2. CASE MustFlush(force, h, n)
    BY <1>5, <2>1, <2>2 DEF WriteMessage
  <2>3. CASE ~MustFlush(force, h, n)
    <3>1. Buffered(h, h + n) /\ Since + h + n < FlushBytes
      BY <1>5, <2>3, Started DEF WriteMessage, MustFlush
    <3> QED  BY <2>1, <3>1, Started, BufferedNumbers
  <2> QED  BY <2>2, <2>3
<1> QED  BY StepCases, <1>1, <1>2, <1>3, <1>4, <1>5

\* No step leaves a message in the buffer that is not due in time.
LEMMA DueStep == Numbers /\ BufferCounted /\ FlushDue /\ [Next]_vars => FlushDue'
<1> SUFFICES ASSUME Numbers, BufferCounted, FlushDue, [Next]_vars PROVE FlushDue'
  OBVIOUS
<1> USE Limits DEF Numbers, FlushDue
<1>1. ASSUME NEW b, NEW e, Rename(b, e) PROVE FlushDue'
  BY <1>1 DEF Rename, Closed
<1>2. CASE Flush
  BY <1>2 DEF Flush, BufferCounted
<1>3. CASE Tick
  BY <1>3 DEF Tick
<1>4. CASE OtherFileAsks \/ DiskFills \/ Fork \/ UNCHANGED vars
  BY <1>4 DEF OtherFileAsks, DiskFills, Fork, vars
<1>5. CASE WriteNothing \/ CreateFails
  BY <1>5 DEF WriteNothing, CreateFails, Closed
<1>6. ASSUME NEW h \in {0, Header}, NEW n \in Nat, Buffered(h, n), due' = due PROVE FlushDue'
  BY <1>6, BufferedNumbers
<1>7. ASSUME NEW h \in {0, Header}, WriteStopped(h) \/ WriteHitsFullDisk(h) PROVE FlushDue'
  BY <1>6, <1>7 DEF WriteStopped, WriteHitsFullDisk
<1>8. ASSUME NEW h \in {0, Header}, NEW n \in 0 .. MaxLen,
             NEW force \in BOOLEAN, WriteMessage(force, h, n) PROVE FlushDue'
  <2>1. CASE MustFlush(force, h, n)
    BY <1>8, <2>1 DEF WriteMessage
  <2>2. CASE ~MustFlush(force, h, n)
    BY <1>6, <1>8, <2>2 DEF WriteMessage
  <2> QED  BY <2>1, <2>2
<1> QED  BY StepCases, <1>1, <1>2, <1>3, <1>4, <1>5, <1>7, <1>8

(***************************************************************************)
(* The size of the file.                                                   *)
(***************************************************************************)

\* No step lets the file outgrow its length or its limit.
LEMMA SizeStep == SizeInv /\ [Next]_vars => LengthCovers'
<1> SUFFICES ASSUME SizeInv, [Next]_vars PROVE LengthCovers'
  OBVIOUS
<1> USE Limits DEF SizeInv, Numbers, LengthCovers, LengthFits
<1>1. ASSUME NEW b, NEW e, Rename(b, e) PROVE LengthCovers'
  BY <1>1 DEF Rename, Closed
<1>2. CASE Flush \/ OtherFileAsks \/ Tick \/ DiskFills \/ Fork \/ UNCHANGED vars
  BY <1>2 DEF Flush, OtherFileAsks, Tick, DiskFills, Fork, vars
<1>3. CASE WriteNothing \/ CreateFails
  BY <1>3 DEF WriteNothing, CreateFails, Closed
<1>4. ASSUME NEW h \in {0, Header}, NEW n \in h .. h + MaxLen, Opened(h),
             length' = (Len + n) % LengthMod, actual' = Grown(n, h)
      PROVE  LengthCovers'
  <2>1. Len \in Nat /\ n \in Nat /\ n <= h + MaxLen /\ Len < MaxSize /\ (Kept => Len = length /\ file)
    BY Started
  <2>2. Len + n < LengthMod
    BY <2>1
  <2>3. length' = Len + n
    BY <1>4, <2>1, <2>2, Wrapped
  <2>4. CASE h = Header
    BY <1>4, <2>1, <2>3, <2>4 DEF Grown
  <2>5. CASE h = 0
    <3>1. Kept
      BY <1>4, <2>5 DEF Opened
    <3> QED  BY <1>4, <2>1, <2>3, <2>5, <3>1 DEF Grown
  <2> QED  BY <2>4, <2>5
<1>5. ASSUME NEW h \in {0, Header}, WriteStopped(h) \/ WriteHitsFullDisk(h) PROVE LengthCovers'
  BY <1>4, <1>5 DEF WriteStopped, WriteHitsFullDisk, Buffered
<1>6. ASSUME NEW h \in {0, Header}, NEW n \in 0 .. MaxLen,
             NEW force \in BOOLEAN, WriteMessage(force, h, n) PROVE LengthCovers'
  <2>1. /\ Opened(h) /\ length' = (Len + (h + n)) % LengthMod /\ actual' = Grown(h + n, h)
    <3>1. Len + h + n = Len + (h + n)
      BY Started
    <3> QED  BY <1>6, <3>1 DEF WriteMessage, Buffered
  <2> QED  BY <1>4, <2>1
<1> QED  BY StepCases, <1>1, <1>2, <1>3, <1>5, <1>6

(***************************************************************************)
(* The theorems.                                                           *)
(***************************************************************************)

\* The constructor establishes the invariants.
LEMMA InitInv == Init => Inv /\ Flags /\ (LengthFits => SizeInv)
<1> SUFFICES ASSUME Init PROVE Inv /\ Flags /\ (LengthFits => SizeInv)
  OBVIOUS
<1>1. Flags
  BY Zenon DEF Init, Flags
<1>2. Inv
  BY Limits DEF Init, Inv, Numbers, AttemptsCount, BufferCounted, FlushDue
<1>3. LengthFits => SizeInv
  BY <1>2, Limits DEF Init, Inv, SizeInv, LengthCovers
<1> QED  BY <1>1, <1>2, <1>3

\* What is counted and buffered is invariant.
LEMMA Invariant == Spec => []Inv
<1>1. Inv /\ [Next]_vars => Inv'
  BY NumbersStep, AttemptsStep, BufferStep, DueStep DEF Inv
<1> QED  BY InitInv, <1>1, PTL DEF Spec

\* Every member of LogFileObject keeps its type, the 32-bit file_length_ included.
THEOREM FileTypes == Spec => []TypeOK
<1>1. Numbers /\ Flags => TypeOK
  BY Zenon DEF Numbers, Flags, TypeOK
<1>2. Init => Numbers /\ Flags
  BY InitInv DEF Inv
<1> QED  BY <1>1, <1>2, NumbersStep, FlagsStep, PTL DEF Spec

\* Fewer than kRolloverAttemptFrequency messages in a row are lost before the next
\* attempt to create the file, for any frequency and any renames, rollovers and forks.
THEOREM FewAreMissed == Spec => []FewMissed
<1>1. Inv => FewMissed
  BY Limits DEF Inv, Numbers, AttemptsCount, FewMissed
<1> QED  BY Invariant, <1>1, PTL

\* No message leaves as much as the limit in the stdio buffer.
THEOREM BufferIsBounded == Spec => []BufferBounded
<1>1. Inv => BufferBounded
  BY DEF Inv, BufferCounted, BufferBounded
<1> QED  BY Invariant, <1>1, PTL

\* If file_length_ is wide enough no file passes its limit by as much as a message.
THEOREM SizeIsBounded == LengthFits /\ Spec => []SizeBounded
<1>1. LengthFits /\ Init => SizeInv
  BY InitInv
<1>2. SizeInv /\ [Next]_vars => SizeInv'
  BY NumbersStep, SizeStep DEF SizeInv
<1>3. SizeInv => SizeBounded
  BY DEF SizeInv, LengthCovers, SizeBounded
<1> QED  BY <1>1, <1>2, <1>3, PTL DEF Spec

\* A message that is written without a flush leaves none in the buffer that is as old
\* as logbufsecs.
LEMMA WriteIsInTime ==
  ASSUME Inv, NEW force \in BOOLEAN, NEW h \in {0, Header}, NEW n \in 0 .. MaxLen,
         WriteMessage(force, h, n)
  PROVE  oldest' < BufSecs
<1> USE Limits DEF Inv, Numbers
<1>1. CASE MustFlush(force, h, n)
  BY <1>1 DEF WriteMessage
<1>2. CASE ~MustFlush(force, h, n)
  <2>1. Buffered(h, h + n) /\ due > 0
    BY <1>2 DEF WriteMessage, MustFlush
  <2> QED  BY <2>1, BufferedNumbers DEF FlushDue
<1> QED  BY <1>1, <1>2

\* No message that is written leaves an older one in the buffer past logbufsecs.
THEOREM OldIsFlushed == Spec => WriteFlushesOld
<1> DEFINE InTime == (\E force \in BOOLEAN, h \in {0, Header}, n \in 0 .. MaxLen :
                         WriteMessage(force, h, n) /\ Asked)
                       => oldest' < BufSecs
<1>1. Inv /\ [Next]_vars => [InTime]_vars
  BY WriteIsInTime
<1> QED  BY Invariant, <1>1, PTL DEF Spec, WriteFlushesOld
=============================================================================

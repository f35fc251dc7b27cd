------------------------------ MODULE LogFile ------------------------------
(***************************************************************************)
(* One log file of glog (LogFileObject, lib/glog/src/logging.cc): when it  *)
(* is created, how long it grows, when its stdio buffer is flushed, and    *)
(* what happens when it cannot be created or the disk is full.  Each       *)
(* operation holds lock_, so each is one step.  Of stdio it is assumed     *)
(* that a flush empties the buffer and that a message which meets a full   *)
(* disk leaves no part of itself behind.                                   *)
(***************************************************************************)
EXTENDS Integers

CONSTANTS
  Names,       \* the base names SetBasename is called with
  MaxSize,     \* MaxLogSize()
  Header,      \* length of the header of a new file
  MaxLen,      \* length of the longest message (kMaxLogMessageLen)
  LengthMod,   \* the width of file_length_ (2^32)
  Freq,        \* kRolloverAttemptFrequency (32)
  FlushBytes,  \* the limit on bytes_since_flush_ (10^6)
  BufSecs,     \* FLAGS_logbufsecs
  StopIfFull   \* FLAGS_stop_logging_if_full_disk

ASSUME LogFileAssumption ==
  /\ {MaxSize, Header, MaxLen, LengthMod, Freq, FlushBytes, BufSecs} \subseteq Nat \ {0}
  /\ Freq > 1 /\ Header < MaxSize /\ Header < FlushBytes /\ StopIfFull \in BOOLEAN

\* file_length_ is wide enough for a file just below its limit and, added to what the
\* setters left of an earlier file, a header and a message more.
LengthFits == MaxSize + Header + MaxLen <= LengthMod

Off == "off"          \* base_filename_ is ""
Default == "default"  \* a base name made of a default directory

VARIABLES
  base,       \* base_filename_
  selected,   \* base_filename_selected_
  extension,  \* filename_extension_: set or not
  file,       \* file_ is not NULL
  length,     \* file_length_
  since,      \* bytes_since_flush_
  attempt,    \* rollover_attempt_
  due,        \* next_flush_time_ minus now, 0 when it has passed
  stop,       \* stop_writing
  forked,     \* getpid() is no longer g_main_thread_pid
  full,       \* the disk is full
  actual,     \* what this process wrote to the open file
  pending,    \* the part of it in the stdio buffer, not flushed yet
  oldest,     \* the age of the oldest pending message, up to BufSecs + 1
  missed      \* messages lost for want of a file since the last attempt to create one

name == <<base, selected, extension>>
vars == <<base, selected, extension, file, length, since, attempt, due, stop, forked, full,
          actual, pending, oldest, missed>>

TypeOK ==
  /\ base \in Names \cup {Off, Default} /\ selected \in BOOLEAN /\ extension \in BOOLEAN
  /\ file \in BOOLEAN /\ stop \in BOOLEAN /\ forked \in BOOLEAN /\ full \in BOOLEAN
  /\ length \in 0 .. LengthMod - 1 /\ since \in Nat
  /\ attempt \in Nat
  /\ due \in 0 .. BufSecs
  /\ actual \in Nat /\ pending \in 0 .. actual /\ oldest \in 0 .. BufSecs + 1
  /\ missed \in Nat

Init ==
  /\ base = Off /\ selected = FALSE /\ extension = FALSE
  /\ file = FALSE /\ length = 0 /\ since = 0
  /\ attempt = Freq - 1
  /\ due = 0
  /\ stop = FALSE /\ forked = FALSE /\ full = FALSE
  /\ actual = 0 /\ pending = 0 /\ oldest = 0 /\ missed = 0

\* fclose: what was pending is written
Closed == file' = FALSE /\ actual' = 0 /\ pending' = 0 /\ oldest' = 0

\* Faulty variant of NextTry: the next message is one too late to create a file.
NextTryPassed == Freq

\* The value of rollover_attempt_ with which the next message creates a file.
NextTry == Freq - 1

\* Both setters close the file when the name changes; the lengths keep their values.
Rename(b, e) ==
  /\ IF (b # base \/ e # extension) /\ file
     THEN Closed /\ attempt' = NextTry /\ missed' = 0
     ELSE UNCHANGED <<file, attempt, actual, pending, oldest, missed>>
  /\ base' = b /\ extension' = e
  /\ UNCHANGED <<length, since, due, stop, forked, full>>

SetBasename(b) == Rename(b, extension) /\ selected' = TRUE

SetExtension(e) == Rename(base, e) /\ UNCHANGED selected

Flush ==
  /\ due' = BufSecs
  /\ IF file THEN since' = 0 /\ pending' = 0 /\ oldest' = 0
             ELSE UNCHANGED <<since, pending, oldest>>
  /\ UNCHANGED <<name, file, length, attempt, stop, forked, full, actual, missed>>

(***************************************************************************)
(* Write, in its parts.  A message for a file that is too long, or of a    *)
(* process that forked, closes the file first: Kept, Len and Since are     *)
(* what is left of file_, file_length_ and bytes_since_flush_ then.        *)
(***************************************************************************)
\* Faulty variant of TooLong: the limit itself is not too long.
TooLongBeyond == length > MaxSize

TooLong == length >= MaxSize

Kept == file /\ ~TooLong /\ ~forked

Len == IF TooLong \/ forked THEN 0 ELSE length

\* Faulty variant of Since: the bytes of the old file are taken off instead.
SinceLessOld == IF TooLong \/ forked THEN since - length ELSE since

Since == IF TooLong \/ forked THEN 0 ELSE since

Try == IF TooLong \/ forked THEN NextTry ELSE attempt

\* PidHasChanged() is asked, and forgets, only if the file is not too long.  What it
\* remembers is one global: the file of another severity may have asked before.
Asked == forked' = (forked /\ TooLong)

\* No file, and not the turn of an attempt: the message is lost.
WriteNothing ==
  /\ ~Kept /\ Try + 1 # Freq
  /\ attempt' = Try + 1
  /\ missed' = missed + 1
  /\ Closed /\ length' = Len /\ since' = Since
  /\ UNCHANGED <<name, due, stop, full>>

\* A file is tried and cannot be created: the message is lost.
CreateFails ==
  /\ ~Kept /\ Try + 1 = Freq
  /\ attempt' = 0 /\ missed' = 0
  /\ base' = IF selected THEN base ELSE Default
  /\ Closed /\ length' = Len /\ since' = Since
  /\ UNCHANGED <<selected, extension, due, stop, full>>

\* h is what is written of the header: all of it if the file is created now.
Opened(h) ==
  /\ \/ Kept /\ h = 0 /\ UNCHANGED <<attempt, base>>
     \/ /\ ~Kept /\ h = Header /\ Try + 1 = Freq
        /\ attempt' = 0
        /\ base' = IF selected THEN base ELSE Default
  /\ file' = TRUE /\ missed' = 0
  /\ UNCHANGED <<selected, extension, full>>

Grown(n, h) == IF h = Header THEN n ELSE actual + n

\* The file after n more bytes, none of them flushed.
Buffered(h, n) ==
  /\ length' = (Len + n) % LengthMod
  /\ since' = Since + n
  /\ actual' = Grown(n, h)
  /\ pending' = IF h = Header THEN n ELSE pending + n
  /\ oldest' = IF h = Header \/ pending = 0 THEN 0 ELSE oldest

\* Faulty variant of StillStopped: only a later flush ends the stop.
StillStoppedAnyway == TRUE

\* next_flush_time_ is yet to come
StillStopped == due > 0

\* stop_writing: the message is lost; from next_flush_time_ on the next one is tried.
WriteStopped(h) ==
  /\ Opened(h) /\ stop
  /\ Buffered(h, h)
  /\ stop' = StillStopped
  /\ UNCHANGED due

\* fwrite meets a full disk, which it notices when the buffer has to be written.
WriteHitsFullDisk(h) ==
  /\ Opened(h) /\ ~stop
  /\ full /\ StopIfFull
  /\ Buffered(h, h)
  /\ stop' = TRUE
  /\ UNCHANGED due

\* Faulty variant of MustFlush: the limit on the buffer is one too large.
MustFlushBeyond(force, h, n) == force \/ Since + h + n > FlushBytes \/ due = 0

\* Faulty variant of MustFlush: the clock is not looked at.
MustFlushBySize(force, h, n) == force \/ Since + h + n >= FlushBytes

\* n is the length of the message.
MustFlush(force, h, n) == force \/ Since + h + n >= FlushBytes \/ due = 0

WriteMessage(force, h, n) ==
  /\ Opened(h) /\ ~stop
  /\ IF MustFlush(force, h, n)
     THEN /\ length' = (Len + h + n) % LengthMod /\ actual' = Grown(h + n, h)
          /\ since' = 0 /\ pending' = 0 /\ oldest' = 0
          /\ due' = BufSecs
     ELSE Buffered(h, h + n) /\ UNCHANGED due
  /\ UNCHANGED stop

SwitchedOff == selected /\ base = Off

\* Only a forced write, which a fatal message makes of every file, may be empty.
Write(force) ==
  /\ ~SwitchedOff
  /\ Asked
  /\ \/ WriteNothing \/ CreateFails
     \/ \E h \in {0, Header} :
          \/ WriteStopped(h) \/ WriteHitsFullDisk(h)
          \/ \E n \in 0 .. MaxLen : (n = 0 => force) /\ WriteMessage(force, h, n)

\* The file of another severity is written first after a fork and asks PidHasChanged():
\* this file is not told, and the child goes on with the file of its parent.
OtherFileAsks ==
  /\ forked /\ forked' = FALSE
  /\ UNCHANGED <<name, file, length, since, attempt, due, stop, full, actual, pending, oldest, missed>>

\* The environment: the clock, which is taken to go forward steadily, the disk, fork.
Tick ==
  /\ due' = IF due > 0 THEN due - 1 ELSE 0
  /\ oldest' = IF pending > 0 /\ oldest <= BufSecs THEN oldest + 1 ELSE oldest
  /\ UNCHANGED <<name, file, length, since, attempt, stop, forked, full, actual, pending, missed>>

DiskFills ==
  /\ full' = ~full
  /\ UNCHANGED <<name, file, length, since, attempt, due, stop, forked, actual, pending, oldest, missed>>

Fork ==
  /\ forked' = TRUE
  /\ UNCHANGED <<name, file, length, since, attempt, due, stop, full, actual, pending, oldest, missed>>

Next ==
  \/ \E force \in BOOLEAN : Write(force)
  \/ \E b \in Names \cup {Off} : SetBasename(b)
  \/ \E e \in BOOLEAN : SetExtension(e)
  \/ Flush \/ OtherFileAsks \/ Tick \/ DiskFills \/ Fork

Spec == Init /\ [][Next]_vars

\* A clock that goes on, and a program that goes on logging and whose file can, now and
\* then, be created.
FairSpec ==
  /\ Spec
  /\ WF_vars(Tick) /\ WF_vars(\E force \in BOOLEAN : Write(force))
  /\ SF_vars(\E h \in {0, Header} : ~SwitchedOff /\ Asked /\ WriteStopped(h))

\* Between two attempts to create a file fewer than kRolloverAttemptFrequency messages
\* are lost for want of one, whatever renames, rollovers and forks happen in between:
\* rollover_attempt_ is compared with != and must never step over the value.
FewMissed == missed < Freq

\* Never as much as 10^6 characters are left in the buffer by a message, the header of a
\* new file included, although the setters leave bytes_since_flush_ as it was.
BufferBounded == pending < FlushBytes

\* `approx. maximum log file size' (logging.cc:177): the length is tested before a message
\* is written (logging.cc:974), so a file passes --max_log_size by less than its last
\* message, however often it was renamed, if LengthFits.
SizeBounded == actual < MaxSize + MaxLen

\* No message that is written leaves an older one in the buffer past logbufsecs.
WriteFlushesOld ==
  [][(\E force \in BOOLEAN, h \in {0, Header}, n \in 0 .. MaxLen : WriteMessage(force, h, n) /\ Asked)
       => oldest' < BufSecs]_vars

\* `Stop attempting to log to disk if the disk is full': once the disk has space for
\* good, a logger that is not switched off does not stay stopped, provided FlushLogFiles
\* is not called for ever: each call puts off next_flush_time_, which ends the stop.
ResumesWhenFree ==
  <>[](~full /\ ~SwitchedOff) /\ <>[][~Flush]_vars => []<>~stop
=============================================================================

------------------------------- MODULE LogFile -------------------------------
(***************************************************************************)
(* The file that the logger's thread writes to: LogFile decides when a new *)
(* file is opened and when the open one is flushed, AppendFile writes a    *)
(* record to it, going on after a short write.  One thread calls both, so  *)
(* what interleaves is the disk, which fills up, and the clock.            *)
(*                                                                         *)
(* A record is known by its number; its i-th byte is <<number, i>>.  In    *)
(* the file is what fwrite has taken; fflush is not taken to fail.         *)
(***************************************************************************)
EXTENDS Integers, Sequences, FiniteSets

CONSTANTS
    RollSize,       \* _rollize
    FlushInterval,  \* _flushInterval, in seconds
    CheckEveryN,    \* _checkEveryN
    Day,            \* kRollPerSeconds
    Never,          \* no time at all
    MaxLen,         \* bound: bytes of a record
    MaxRecords,     \* bound: records appended
    MaxTime,        \* bound: the clock
    MaxJumps        \* bound: how often the clock is set back

ASSUME LogFileAssumption ==
    /\ RollSize \in Nat /\ FlushInterval \in Nat
    /\ CheckEveryN \in Nat \ {0} /\ Day \in Nat \ {0}
    /\ MaxLen \in Nat /\ MaxRecords \in Nat /\ MaxTime \in Nat /\ MaxJumps \in Nat
    /\ Never \notin Nat

VARIABLES
    now,            \* time(nullptr)
    jumps,          \* how often the clock was set back
    full,           \* writing fails: the disk is full
    startOfPeriod,  \* _startOfPeriod
    lastRoll,       \* _lastRoll
    lastFlush,      \* _lastFlush
    count,          \* _count
    writtenBytes,   \* _writtenBytes of the open file
    pc,             \* where append is
    record,         \* the record being appended, or the last one
    len,            \* its length
    curwritten,     \* bytes of it that write has accepted
    bytes,          \* history: what the open file was given
    accepted,       \* history: records of the open file, with their lengths,
                    \* for which AppendFile::append returned true
    oldest,         \* history: when the first unflushed byte was written
    overdue         \* history: appends in a row that ended with the open file
                    \* of another day, or with bytes unflushed for too long

world == <<now, jumps, full>>
file == <<startOfPeriod, lastRoll, writtenBytes, bytes, accepted>>
call == <<record, len, curwritten>>
unflushed == <<lastFlush, oldest>>
vars == <<now, jumps, full, startOfPeriod, lastRoll, lastFlush, count, writtenBytes,
          pc, record, len, curwritten, bytes, accepted, oldest, overdue>>

Places == {"idle", "first", "retry", "appended", "roll"}

\* the day a time is in: now / kRollPerSeconds * kRollPerSeconds
Period(t) == (t \div Day) * Day

TypeOK ==
    /\ now \in Nat /\ jumps \in 0 .. MaxJumps
    /\ full \in BOOLEAN
    /\ startOfPeriod \in Nat /\ lastRoll \in Nat /\ lastFlush \in Nat
    /\ startOfPeriod = Period(lastRoll)
    /\ count \in 0 .. CheckEveryN - 1
    /\ writtenBytes \in Nat
    /\ pc \in Places
    /\ record \in 0 .. MaxRecords
    /\ len \in 0 .. MaxLen /\ curwritten \in 0 .. len
    /\ bytes \in Seq((1 .. MaxRecords) \X (1 .. MaxLen))
    /\ accepted \subseteq (1 .. MaxRecords) \X (0 .. MaxLen)
    /\ oldest \in Nat \cup {Never}
    /\ overdue \in Nat

\* The constructor's rollFile opens the first file.
Init ==
    /\ now \in 1 .. Day
    /\ jumps = 0
    /\ full \in BOOLEAN
    /\ lastRoll = now /\ lastFlush = now
    /\ startOfPeriod = Period(now)
    /\ count = 0
    /\ writtenBytes = 0
    /\ pc = "idle"
    /\ record = 0 /\ len = 0 /\ curwritten = 0
    /\ bytes = <<>> /\ accepted = {}
    /\ oldest = Never /\ overdue = 0

-----------------------------------------------------------------------------
(* The world: the clock and the disk. *)

Tick ==
    /\ now < MaxTime
    /\ now' = now + 1
    /\ UNCHANGED <<jumps, full, file, unflushed, count, pc, call, overdue>>

ClockBack ==
    /\ jumps < MaxJumps
    /\ jumps' = jumps + 1
    /\ now' \in 1 .. (now - 1)
    /\ UNCHANGED <<full, file, unflushed, count, pc, call, overdue>>

DiskChanges ==
    /\ full' = ~full
    /\ UNCHANGED <<now, jumps, file, unflushed, count, pc, call, overdue>>

-----------------------------------------------------------------------------
(* AppendFile::append *)

\* append is called; an empty buffer is a record of no bytes
AppendRecord(l) ==
    /\ pc = "idle"
    /\ record < MaxRecords
    /\ record' = record + 1
    /\ len' = l
    /\ curwritten' = 0
    /\ pc' = "first"
    /\ UNCHANGED <<world, file, unflushed, count, overdue>>

\* a bug: what is left is written from the record's beginning
WriteFromStart(k) ==
    /\ k \in 0 .. (len - curwritten)
    /\ full => k = 0
    /\ bytes' = bytes \o [i \in 1 .. k |-> <<record, i>>]
    /\ oldest' = IF oldest = Never /\ k > 0 THEN now ELSE oldest

\* fwrite accepts the next k bytes of what is left; on a full disk, none
Write(k) ==
    /\ k \in 0 .. (len - curwritten)
    /\ full => k = 0
    /\ bytes' = bytes \o [i \in 1 .. k |-> <<record, curwritten + i>>]
    /\ oldest' = IF oldest = Never /\ k > 0 THEN now ELSE oldest

\* the record is complete: append counts it and returns true
Complete ==
    /\ writtenBytes' = writtenBytes + len
    /\ accepted' = accepted \cup {<<record, len>>}
    /\ pc' = "appended"

FirstWrite ==
    /\ pc = "first"
    /\ \E k \in 0 .. len :
         /\ Write(k)
         /\ curwritten' = k
         /\ \/ k = len /\ Complete
            \/ k < len /\ pc' = "retry" /\ UNCHANGED <<writtenBytes, accepted>>
    /\ UNCHANGED <<world, startOfPeriod, lastRoll, lastFlush, count, record, len, overdue>>

\* a bug: what is left is not reduced by what was written
RestNotReduced ==
    /\ pc = "retry"
    /\ \E k \in 0 .. (len - curwritten) :
         /\ Write(k)
         /\ \/ curwritten = 0 /\ pc' = "appended" /\ UNCHANGED curwritten
            \/ curwritten > 0 /\ curwritten' = curwritten + k /\ UNCHANGED pc
    /\ UNCHANGED <<world, startOfPeriod, lastRoll, writtenBytes, accepted, lastFlush,
                   count, record, len, overdue>>

(***************************************************************************)
(* The loop writes on.  What it tests afterwards is the number of bytes    *)
(* that were written BEFORE: if none were, append returns false, whatever  *)
(* this write has achieved; if some were, it goes on, even if this write   *)
(* has achieved nothing.                                                   *)
(***************************************************************************)
Retry ==
    /\ pc = "retry"
    /\ \E k \in 0 .. (len - curwritten) :
         /\ Write(k)
         /\ \/ /\ curwritten = 0
               /\ pc' = "appended"
               /\ UNCHANGED <<curwritten, writtenBytes, accepted>>
            \/ /\ curwritten > 0
               /\ curwritten' = curwritten + k
               /\ \/ curwritten' = len /\ Complete
                  \/ curwritten' < len /\ UNCHANGED <<pc, writtenBytes, accepted>>
    /\ UNCHANGED <<world, startOfPeriod, lastRoll, lastFlush, count, record, len, overdue>>

-----------------------------------------------------------------------------
(* LogFile::append_unlocked, after the record was given to the file *)

\* The open file is of another day, or has kept bytes for too long.
Overdue ==
    \/ Period(now) # startOfPeriod
    \/ oldest # Never /\ now - oldest > FlushInterval

NoteOverdue == overdue' = IF Overdue THEN overdue + 1 ELSE 0

\* the file has grown over the limit
SizeReached ==
    /\ pc = "appended"
    /\ writtenBytes > RollSize
    /\ pc' = "roll"
    /\ NoteOverdue
    /\ UNCHANGED <<world, file, unflushed, count, call>>

\* a bug: the check comes one append late
CountOneMore ==
    /\ pc = "appended"
    /\ writtenBytes <= RollSize
    /\ count < CheckEveryN
    /\ count' = count + 1
    /\ pc' = "idle"
    /\ NoteOverdue
    /\ UNCHANGED <<world, file, unflushed, call>>

\* most appends only count
OnlyCount ==
    /\ pc = "appended"
    /\ writtenBytes <= RollSize
    /\ count + 1 < CheckEveryN
    /\ count' = count + 1
    /\ pc' = "idle"
    /\ NoteOverdue
    /\ UNCHANGED <<world, file, unflushed, call>>

\* every CheckEveryN-th one looks at the clock
TimeToCheck ==
    /\ pc = "appended"
    /\ writtenBytes <= RollSize
    /\ count + 1 >= CheckEveryN
    /\ count' = 0

DayOver ==
    /\ TimeToCheck
    /\ Period(now) # startOfPeriod
    /\ pc' = "roll"
    /\ NoteOverdue
    /\ UNCHANGED <<world, file, unflushed, call>>

\* now - _lastFlush > _flushInterval, an unsigned comparison: a clock that was
\* set back makes it true
FlushIsDue == now - lastFlush > FlushInterval \/ now < lastFlush

FlushDue ==
    /\ TimeToCheck
    /\ Period(now) = startOfPeriod
    /\ FlushIsDue
    /\ lastFlush' = now
    /\ oldest' = Never
    /\ overdue' = 0
    /\ pc' = "idle"
    /\ UNCHANGED <<world, file, call>>

NothingDue ==
    /\ TimeToCheck
    /\ Period(now) = startOfPeriod
    /\ ~FlushIsDue
    /\ pc' = "idle"
    /\ NoteOverdue
    /\ UNCHANGED <<world, file, unflushed, call>>

\* a bug: the period begins when the file is opened
RollPeriodFromNow ==
    /\ pc = "roll"
    /\ pc' = "idle"
    /\ now > lastRoll
    /\ lastRoll' = now /\ lastFlush' = now /\ startOfPeriod' = now
    /\ writtenBytes' = 0 /\ bytes' = <<>> /\ accepted' = {}
    /\ oldest' = Never /\ overdue' = 0
    /\ UNCHANGED <<world, count, call>>

\* rollFile(): at most one new file a second, and none while the clock is behind
RollFile ==
    /\ pc = "roll"
    /\ pc' = "idle"
    /\ \/ /\ now > lastRoll
          /\ lastRoll' = now /\ lastFlush' = now
          /\ startOfPeriod' = Period(now)
          /\ writtenBytes' = 0 /\ bytes' = <<>> /\ accepted' = {}
          /\ oldest' = Never /\ overdue' = 0
       \/ /\ now <= lastRoll
          /\ UNCHANGED <<file, unflushed, overdue>>
    /\ UNCHANGED <<world, count, call>>

\* flush(), which leaves _lastFlush alone
Flush ==
    /\ pc = "idle"
    /\ oldest # Never
    /\ oldest' = Never
    /\ UNCHANGED <<world, file, lastFlush, count, pc, call, overdue>>

-----------------------------------------------------------------------------
\* the steps of an append that has been called
AppendStep ==
    \/ FirstWrite \/ Retry
    \/ SizeReached \/ OnlyCount \/ DayOver \/ FlushDue \/ NothingDue
    \/ RollFile

Next ==
    \/ Tick \/ ClockBack \/ DiskChanges
    \/ \E l \in 0 .. MaxLen : AppendRecord(l)
    \/ AppendStep
    \/ Flush

\* The log thread is scheduled.  Nothing is assumed of the disk.
Spec == Init /\ [][Next]_vars /\ WF_vars(AppendStep)

-----------------------------------------------------------------------------
(***************************************************************************)
(* A record that append reports as written is in the file once, whole and  *)
(* in one piece, over short writes and failed ones; and the size that is   *)
(* compared with the limit is that of these records.                       *)
(***************************************************************************)
IsWhole(r, l) ==
    \E s \in 0 .. Len(bytes) - l : \A i \in 1 .. l : bytes[s + i] = <<r, i>>

AcceptedIsWhole ==
    /\ \A a \in accepted :
         /\ IsWhole(a[1], a[2])
         /\ Cardinality({i \in DOMAIN bytes : bytes[i][1] = a[1]}) = a[2]
    /\ writtenBytes =
         Cardinality({i \in DOMAIN bytes : \E a \in accepted : bytes[i][1] = a[1]})

(***************************************************************************)
(* Neither a new day nor the flush interval goes unnoticed for CheckEveryN *)
(* appends, although only one append in CheckEveryN looks at the clock and *)
(* those that find the file too large do not count.  A clock that was set  *)
(* back stops both, until it has caught up.                                *)
(***************************************************************************)
OverdueIsNoticed == pc = "idle" /\ jumps = 0 => overdue < CheckEveryN

\* append returns, unless the disk is full: the loop over short writes ends.
AppendReturns == pc # "idle" ~> (pc = "idle" \/ full)
=============================================================================

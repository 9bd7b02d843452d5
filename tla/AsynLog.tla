------------------------------- MODULE AsynLog -------------------------------
(***************************************************************************)
(* The asynchronous logger: any thread appends records to a current buffer *)
(* under the mutex, and one thread swaps the full buffers and the current  *)
(* one out, writes them to the file and hands two of them back as spares.  *)
(*                                                                         *)
(* Records are numbered in the order they take the mutex, and only their   *)
(* length matters: a buffer, a FixedBuffer of Cap bytes, is the sequence   *)
(* of the records in it.                                                   *)
(*                                                                         *)
(* The disk may fail.  The thread looks at no result: what a failed write  *)
(* or flush did not get out is lost.  And while the disk is full in the    *)
(* middle of a buffer, LogFile::append does not return.                    *)
(***************************************************************************)
EXTENDS FixedBuffer, Sequences, SequencesExt, FiniteSets

CONSTANTS
    Cap,         \* kBigSize: bytes in a buffer
    Lens,        \* the lengths of the records that callers append
    MaxBuffers,  \* 16: with more than this many to write, all but two are dropped
    MaxRecords,  \* bound: records appended
    MaxFailures  \* bound: buffers lost by failed writes

ASSUME LogAssumption ==
    /\ Cap \in Nat \ {0}
    /\ Lens \subseteq Nat
    /\ MaxBuffers \in Nat \ {0}
    /\ MaxRecords \in Nat
    /\ MaxFailures \in Nat

VARIABLES
    running,    \* _running
    curBuffer,  \* the contents of _curBuffer
    hasNext,    \* _nextBuffer is not null
    pBuffers,   \* _pBuffers: full buffers
    sizes,      \* history: per record, the bytes append() stored, 0 if it refused
    pc,         \* where threadFUNC is
    spare1,     \* pbuffer1 is not null
    spare2,     \* pbuffer2 is not null
    toWrite,    \* pbuffersWrite
    file,       \* history: the buffers given to the LogFile, <<>> for a notice of a cut
    flushed,    \* how many of them flush() was called for
    failed,     \* history: which of them a failed write or flush has lost
    stuck,      \* append waits for room on the disk
    dropped     \* history: the records dropped

shared == <<curBuffer, hasNext, pBuffers, sizes>>
written == <<file, flushed, failed, stuck, dropped>>
vars == <<running, shared, pc, spare1, spare2, toWrite, written>>

Places == {"none", "spawned", "aborted", "top", "lock", "write", "recycle", "exited"}

Records == 1 .. Len(sizes)
Buffers == Seq(Records)

\* size() of a buffer
Used(buffer) == FoldLeft(LAMBDA n, r : n + sizes[r], 0, buffer)

TypeOK ==
    /\ running \in BOOLEAN
    /\ sizes \in Seq(Nat)
    /\ curBuffer \in Buffers /\ Used(curBuffer) < Cap
    /\ hasNext \in BOOLEAN
    /\ pBuffers \in Seq(Buffers)
    /\ pc \in Places
    /\ spare1 \in BOOLEAN /\ spare2 \in BOOLEAN
    /\ toWrite \in Seq(Buffers)
    /\ file \in Seq(Buffers) /\ flushed \in 0 .. Len(file)
    /\ failed \subseteq DOMAIN file
    /\ stuck \in BOOLEAN
    /\ dropped \subseteq Records

Init ==
    /\ running = FALSE
    /\ curBuffer = <<>>
    /\ hasNext = TRUE
    /\ pBuffers = <<>>
    /\ sizes = <<>>
    /\ pc = "none"
    /\ spare1 = TRUE /\ spare2 = TRUE
    /\ toWrite = <<>>
    /\ file = <<>>
    /\ flushed = 0
    /\ failed = {} /\ stuck = FALSE
    /\ dropped = {}

-----------------------------------------------------------------------------
\* an assertion that fails, or user code that calls abort(), ends every thread
Alive == pc # "aborted"

\* start(): the flag, then the thread
Start ==
    /\ pc = "none"
    /\ running' = TRUE
    /\ pc' = "spawned"
    /\ UNCHANGED <<shared, spare1, spare2, toWrite, written>>

\* stop(), or the destructor: the flag; what follows waits for the thread
Stop ==
    /\ Alive
    /\ running
    /\ running' = FALSE
    /\ UNCHANGED <<shared, pc, spare1, spare2, toWrite, written>>

\* user code aborts: nothing is flushed
Abort ==
    /\ Alive
    /\ pc' = "aborted"
    /\ UNCHANGED <<running, shared, spare1, spare2, toWrite, written>>

\* a bug: a record that just fits is not seen to need another buffer
NoRoomOffByOne(len) == Available(Cap, Used(curBuffer)) < len

NoRoom(len) == Available(Cap, Used(curBuffer)) <= len

\* the current buffer is handed over, and the next one, or a new one, replaces it
HandOver(len) ==
    /\ pBuffers' = IF NoRoom(len) THEN Append(pBuffers, curBuffer) ELSE pBuffers
    /\ hasNext' = (hasNext /\ ~NoRoom(len))

(***************************************************************************)
(* append(), under the mutex.  A record of no length needs no room in the  *)
(* first test and six bytes in the second; it and a record larger than a   *)
(* buffer may be refused.                                                  *)
(***************************************************************************)
AppendRecord(len) ==
    /\ Alive
    /\ Len(sizes) < MaxRecords
    /\ HandOver(len)
    /\ LET buffer == IF NoRoom(len) THEN <<>> ELSE curBuffer
       IN \/ /\ Takes(Cap, Used(buffer), len)
             /\ sizes' = Append(sizes, Stored(len))
             /\ curBuffer' = Append(buffer, Len(sizes) + 1)
          \/ /\ ~Takes(Cap, Used(buffer), len)
             /\ sizes' = Append(sizes, 0)
             /\ curBuffer' = buffer
    /\ UNCHANGED <<running, pc, spare1, spare2, toWrite, written>>

-----------------------------------------------------------------------------
\* the thread's first statement is assert(_running)
ThreadBegins ==
    /\ pc = "spawned"
    /\ pc' = IF running THEN "top" ELSE "aborted"
    /\ UNCHANGED <<running, shared, spare1, spare2, toWrite, written>>

\* a bug: the thread does not look at the flag again
TopForever ==
    /\ pc = "top"
    /\ pc' = "lock"
    /\ UNCHANGED <<running, shared, spare1, spare2, toWrite, written>>

\* while(_running)
Top ==
    /\ pc = "top"
    /\ pc' = IF running THEN "lock" ELSE "exited"
    /\ UNCHANGED <<running, shared, spare1, spare2, toWrite, written>>

Refill == ~hasNext

\* the critical section: the current buffer goes with the full ones, a spare
\* replaces it, and the other one replaces a missing next buffer
SwapOut ==
    /\ toWrite' = Append(pBuffers, curBuffer)
    /\ pBuffers' = toWrite
    /\ curBuffer' = <<>>
    /\ spare1' = FALSE
    /\ hasNext' = (hasNext \/ Refill)
    /\ spare2' = (spare2 /\ ~Refill)
    /\ pc' = "write"
    /\ UNCHANGED <<running, sizes, written>>

\* a bug: the condition waited for overlooks a current buffer that is not full
TakeFullOnly ==
    /\ pc = "lock"
    /\ pBuffers # <<>>
    /\ SwapOut

\* there is something to write, at once or when append() notifies
TakeRecords ==
    /\ pc = "lock"
    /\ pBuffers # <<>> \/ curBuffer # <<>>
    /\ SwapOut

\* wait_for times out
TakeNothing ==
    /\ pc = "lock"
    /\ pBuffers = <<>> /\ curBuffer = <<>>
    /\ SwapOut

RecordsOf(buffers) == UNION {ToSet(buffers[i]) : i \in DOMAIN buffers}

Backlog == Len(toWrite) > MaxBuffers

\* a bug: of a backlog only one buffer is kept
KeepOne == IF Backlog THEN SubSeq(toWrite, 1, 1) ELSE toWrite

\* the buffers that are written
Keep == IF Backlog THEN SubSeq(toWrite, 1, 2) ELSE toWrite

Notice == IF Backlog THEN <<<<>>>> ELSE <<>>

\* what they give the file: an empty current buffer, no byte
Given == IF Last(Keep) = <<>> THEN Front(Keep) ELSE Keep

\* Some of these buffers of the file do not get out, which nobody notices.
LoseSome(buffers) ==
    \E lost \in SUBSET buffers :
        /\ lost = {} \/ Cardinality(failed \cup lost) <= MaxFailures
        /\ failed' = failed \cup lost

\* a bug: newest first
WriteReversed ==
    /\ pc = "write" /\ ~stuck
    /\ toWrite' = Keep
    /\ file' = file \o Notice \o Reverse(Given)
    /\ LoseSome(Len(file) + 1 .. Len(file'))
    /\ dropped' = dropped \cup (RecordsOf(toWrite) \ RecordsOf(Keep))
    /\ pc' = "recycle"
    /\ UNCHANGED <<running, shared, spare1, spare2, flushed, stuck>>

\* outside the mutex: a backlog is cut, and the rest is given to the LogFile,
\* whatever its append returns
WriteBuffers ==
    /\ pc = "write" /\ ~stuck
    /\ toWrite' = Keep
    /\ file' = file \o Notice \o Given
    /\ LoseSome(Len(file) + 1 .. Len(file'))
    /\ dropped' = dropped \cup (RecordsOf(toWrite) \ RecordsOf(Keep))
    /\ pc' = "recycle"
    /\ UNCHANGED <<running, shared, spare1, spare2, flushed, stuck>>

\* the disk is full when a part of a buffer is written: append tries again and again
DiskFills ==
    /\ pc = "write" /\ ~stuck
    /\ Notice \o Given # <<>>
    /\ stuck' = TRUE
    /\ UNCHANGED <<running, shared, pc, spare1, spare2, toWrite, file, flushed, failed,
                   dropped>>

\* there is room again
DiskFreed ==
    /\ stuck
    /\ stuck' = FALSE
    /\ UNCHANGED <<running, shared, pc, spare1, spare2, toWrite, file, flushed, failed,
                   dropped>>

Missing == (IF spare1 THEN 0 ELSE 1) + (IF spare2 THEN 0 ELSE 1)

\* written buffers become the missing spares, the others are freed; flush()
Recycle ==
    /\ pc = "recycle"
    /\ spare1' = TRUE
    /\ spare2' = TRUE
    /\ toWrite' = <<>>
    /\ flushed' = Len(file)
    /\ LoseSome(flushed + 1 .. Len(file))
    /\ pc' = "top"
    /\ UNCHANGED <<running, shared, file, stuck, dropped>>

-----------------------------------------------------------------------------
ThreadStep ==
    \/ ThreadBegins \/ Top \/ TakeRecords \/ TakeNothing \/ WriteBuffers \/ Recycle

Disk == DiskFills \/ DiskFreed

Next ==
    Start \/ Stop \/ Abort \/ (\E len \in Lens : AppendRecord(len)) \/ ThreadStep \/ Disk

\* The log thread is scheduled, and wait_for ends.  Nothing is assumed of the disk.
Spec == Init /\ [][Next]_vars /\ WF_vars(ThreadStep)

-----------------------------------------------------------------------------
(***************************************************************************)
(* The assertions of threadFUNC: both spares are there and nothing is left *)
(* over when a round begins, something was swapped out, and enough written *)
(* buffers remain to replace the spares that were given away, also when a  *)
(* backlog was just cut.                                                   *)
(***************************************************************************)
SparesSuffice ==
    /\ pc = "lock" => spare1 /\ spare2 /\ toWrite = <<>>
    /\ pc = "write" => toWrite # <<>>
    /\ pc = "recycle" => Len(toWrite) >= Missing

(***************************************************************************)
(* Records are given to the LogFile once and in the order of the calls to  *)
(* append, and every one that was not refused has been given to it, is in  *)
(* a buffer, or was dropped.                                               *)
(***************************************************************************)
Kept == {r \in Records : sizes[r] > 0}

\* the file, what is being written to it, the full buffers, the current one
Pipeline ==
    file \o (IF pc = "write" THEN toWrite ELSE <<>>) \o Append(pBuffers, curBuffer)

InOrder(buffers) ==
    \A i, j \in DOMAIN buffers :
        \A m \in DOMAIN buffers[i], n \in DOMAIN buffers[j] :
            i < j \/ (i = j /\ m < n) => buffers[i][m] < buffers[j][n]

KeptInOrder == Alive => InOrder(Pipeline) /\ RecordsOf(Pipeline) = Kept \ dropped

(***************************************************************************)
(* While the logger runs and the disk has room, every record kept is       *)
(* flushed to the disk, unless it was dropped with a backlog or lost with  *)
(* a buffer whose write failed: such a failure costs no other record.      *)
(***************************************************************************)
OnDisk == UNION {ToSet(file[i]) : i \in (1 .. flushed) \ failed}
Lost == UNION {ToSet(file[i]) : i \in failed}

RecordsGetOut ==
    \A r \in 1 .. MaxRecords :
        (r \in Kept /\ pc # "none")
            ~> (r \in OnDisk \cup Lost \cup dropped \/ stuck \/ ~running \/ ~Alive)

(***************************************************************************)
(* stop() returns: the thread it joins ends, without waiting for a record. *)
(* While the disk is full in the middle of a buffer, it waits for room.    *)
(***************************************************************************)
StopReturns == (pc # "none" /\ ~running) ~> (pc \in {"exited", "aborted"} \/ stuck)

=============================================================================

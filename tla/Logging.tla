------------------------------- MODULE Logging -------------------------------
(***************************************************************************)
(* Log statements of several threads, from the macro to the asynchronous   *)
(* logger that setOutFunc made their destination.  A statement tests its   *)
(* level against g_logLevel, builds its line in a stream of its own and    *)
(* hands it over when the temporary Logging is destroyed; a FATAL one then *)
(* aborts the process.  What a thread does with its own stream concerns    *)
(* nobody else, so a statement is one action, apart from the abort.        *)
(***************************************************************************)
EXTENDS AsynLog, LogStream

CONSTANTS
    Threads,
    Statements,  \* log statements: a level and the pieces they insert
    Levels       \* the levels setLogLevel is called with

TRACE == 0
DEBUG == 1
INFO == 2
WARN == 3
ERROR == 4
FATAL == 5

ASSUME LoggingAssumption ==
    /\ Statements \subseteq [level : TRACE .. FATAL, pieces : Seq(Pieces)]
    /\ Levels \subseteq TRACE .. FATAL
    /\ SmallSize <= Cap

VARIABLES
    logLevel,  \* g_logLevel
    outFunc,   \* g_outFunc: stdout, or the asynchronous logger
    fatal,     \* threads with a FATAL line handed over, about to abort
    said       \* history: the latest record, its length and the pieces inserted

loggingVars == <<vars, logLevel, outFunc, fatal, said>>

LoggingTypeOK ==
    /\ TypeOK
    /\ logLevel \in Levels
    /\ outFunc \in {"stdout", "append"}
    /\ fatal \subseteq Threads
    /\ said \in [len : Nat, pieces : Seq(Pieces)]

LoggingInit ==
    /\ Init
    /\ logLevel \in Levels
    /\ outFunc = "stdout"
    /\ fatal = {}
    /\ said = [len |-> 0, pieces |-> <<>>]

-----------------------------------------------------------------------------
\* the level's name, and for TRACE and DEBUG the function's
Prefix(level) ==
    <<Text(IF level \in {INFO, WARN} THEN 10 ELSE 11)>>
        \o (IF level \in {TRACE, DEBUG} THEN <<Text(17), Text(4), Text(2)>> ELSE <<>>)

\* __FILE__ after its last slash
FileName == Text(9)

\* finish(): "[", the file, ":", the line, "]\n"
Closing == <<Text(1), FileName, Text(1), Dec(51), Text(2)>>

Inserted(s) == Prefix(s.level) \o s.pieces \o Closing

\* A stream has room for a level's name.  No number takes more than what it asks
\* for: an integer of 64 bits at most 20 digits, "0x%.12g" at most 21 characters.
ASSUME StatementAssumption ==
    /\ SmallSize > 11
    /\ \A s \in Statements : \A i \in DOMAIN Inserted(s) :
          Inserted(s)[i].kind # "text" => Length(Inserted(s)[i]) <= MaxDecLength

\* the macros: only the lower levels are tested
Enabled(s) == s.level >= WARN \/ s.level >= logLevel

\* Log.append, called by outFunc or by user code
AppendSaid(len, pieces) ==
    /\ AppendRecord(len)
    /\ said' = [len |-> len, pieces |-> pieces]

\* a log statement, up to g_outFunc in the destructor
Log(t, s) ==
    /\ Alive
    /\ t \notin fatal
    /\ Enabled(s)
    /\ \/ /\ outFunc = "append"
          /\ AppendSaid(Size(Build(Inserted(s))), Inserted(s))
       \/ /\ outFunc = "stdout"
          /\ UNCHANGED <<vars, said>>
    /\ fatal' = IF s.level = FATAL THEN fatal \cup {t} ELSE fatal
    /\ UNCHANGED <<logLevel, outFunc>>

\* The rest of a FATAL statement's destructor.  Its flushFunc() names the type:
\* it makes a null pointer and calls nothing, so that nothing is flushed.
AbortFatal(t) ==
    /\ t \in fatal
    /\ Abort
    /\ UNCHANGED <<logLevel, outFunc, fatal, said>>

SetLogLevel ==
    /\ Alive
    /\ logLevel' \in Levels
    /\ UNCHANGED <<vars, outFunc, fatal, said>>

SetOutFunc ==
    /\ Alive
    /\ outFunc' = "append"
    /\ UNCHANGED <<vars, logLevel, fatal, said>>

-----------------------------------------------------------------------------
LoggingNext ==
    \/ \E t \in Threads : AbortFatal(t) \/ \E s \in Statements : Log(t, s)
    \/ \E len \in Lens :
          AppendSaid(len, <<>>) /\ UNCHANGED <<logLevel, outFunc, fatal>>
    \/ SetLogLevel \/ SetOutFunc
    \/ /\ Start \/ Stop \/ ThreadStep \/ Disk
       /\ UNCHANGED <<logLevel, outFunc, fatal, said>>

\* Only the log thread is sure to go on: no statement need come, and nothing is
\* assumed of the disk.
LogThread == ThreadStep /\ UNCHANGED <<logLevel, outFunc, fatal, said>>

LoggingSpec ==
    LoggingInit /\ [][LoggingNext]_loggingVars /\ WF_loggingVars(LogThread)

-----------------------------------------------------------------------------
(***************************************************************************)
(* The room append() looks for and the room the buffer's own append()      *)
(* wants agree: every record with a length and smaller than a buffer is    *)
(* accepted, each line of a log statement among them.                      *)
(***************************************************************************)
LinesAreAccepted ==
    /\ said.pieces # <<>> => said.len \in 1 .. Cap - 1
    /\ said.len \in 1 .. Cap - 1 => Last(sizes) = said.len

\* The room asked for a number is enough: no stream is written past its end.
LinesFit == Size(Build(said.pieces)) < SmallSize

(***************************************************************************)
(* Nothing is left out of a line, its end in particular, unless the        *)
(* statement comes within the room asked for a number of the buffer's      *)
(* size.                                                                   *)
(***************************************************************************)
ShortLinesAreWhole ==
    Size(said.pieces) < SmallSize - MaxDecLength => Build(said.pieces) = said.pieces

(***************************************************************************)
(* A number in a line reads back, in canonical form, as its absolute       *)
(* value: the digits are right for negative numbers too, the sign is lost. *)
(***************************************************************************)
Value(digits, base) == FoldLeft(LAMBDA n, d : base * n + d, 0, digits)

ReadsBack(v, base) ==
    LET digits == Convert(v, base)
    IN /\ Value(digits, base) = (IF v < 0 THEN -v ELSE v)
       /\ \A i \in DOMAIN digits : digits[i] \in 0 .. base - 1
       /\ digits[1] = 0 => digits = <<0>>

NumbersReadBack ==
    \A i \in DOMAIN said.pieces :
        /\ said.pieces[i].kind = "dec" => ReadsBack(said.pieces[i].n, 10)
        /\ said.pieces[i].kind = "hex" => ReadsBack(said.pieces[i].n, 16)
=============================================================================

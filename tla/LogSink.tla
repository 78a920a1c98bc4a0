------------------------------ MODULE LogSink -------------------------------
(***************************************************************************)
(* DateRotatingFileSink (src/src/core/logging.cpp): one file per date,     *)
(* rotated by size, with the file system as the state that survives a      *)
(* restart.                                                                *)
(*                                                                         *)
(* sink_it_ runs under the mutex of spdlog's base_sink, so messages come   *)
(* one at a time; the file operations of Rotate are separate steps, at any *)
(* of which the process may die or the operation throw, as may the opening *)
(* of a file, a write and a flush.  spdlog catches the exception: the      *)
(* message is lost and the sink stays as it was left.  Messages are        *)
(* flushed one by one (flush_log_level = log_level, as in config.yaml);    *)
(* the size of a file that is open can always be read.                     *)
(***************************************************************************)
EXTENDS Naturals, Sequences, SequencesExt

CONSTANTS Dates,
          MinFileSize,   \* g_min_file_size
          MaxFileNum,    \* g_max_file_num
          FileSizes,     \* max_file_size as configured
          FileNums,      \* max_rotate_file_num as configured
          Sizes,         \* sizes of messages
          None,
          MaxWritten,    \* bound: messages written
          MaxFaults      \* bound: file operations that fail

ASSUME LogSinkAssumption ==
  /\ Dates # {}
  /\ MinFileSize \in Nat \ {0} /\ MaxFileNum \in Nat
  /\ FileSizes \subseteq Nat /\ FileNums \subseteq Nat /\ Sizes \subseteq Nat \ {0}
  /\ MaxWritten \in Nat /\ MaxFaults \in Nat
  /\ None \notin [log : Seq(Nat), size : Nat, torn : Nat]

VARIABLES maxSize,    \* max_size_; 0 before the first start
          maxFiles,   \* max_files_
          today,      \* the date of the system clock
          base,       \* base_filename_, the date of the current file
          file,       \* the file system: file[d][i] is <d>.log, with suffix .i if
                      \* i > 0; None, or the messages in it, numbered by date,
                      \* its size, and how much of it failed writes left
          opened,     \* whether file_helper_ has the file open
          current,    \* current_size_
          place,      \* where the process is
          index,      \* i in Rotate
          pending,    \* size of the message that Rotate makes room for
          written,    \* history: messages written under each date
          faults      \* history: operations that failed

sinkVars == <<maxSize, maxFiles, today, base, file, opened, current, place, index,
              pending, written, faults>>

Indices == 0..MaxFileNum
Files   == [log : Seq(Nat), size : Nat, torn : Nat]
Empty   == [log |-> <<>>, size |-> 0, torn |-> 0]
Total   == FoldLeft(LAMBDA sum, d : sum + written[d], 0, SetToSeq(Dates))

SinkTypeOK ==
  /\ maxSize \in Nat /\ maxFiles \in Indices
  /\ today \in Dates /\ base \in Dates
  /\ file    \in [Dates -> [Indices -> Files \cup {None}]]
  /\ opened  \in BOOLEAN
  /\ current \in Nat
  /\ place   \in {"down", "idle", "shift", "rename"}
  /\ index   \in Indices
  /\ pending \in Sizes \cup {0}
  /\ written \in [Dates -> Nat]
  /\ faults  \in 0..MaxFaults

SinkInit ==
  /\ maxSize = 0 /\ maxFiles = 0
  /\ today = CHOOSE d \in Dates : TRUE
  /\ base = today
  /\ file    = [d \in Dates |-> [i \in Indices |-> None]]
  /\ opened  = FALSE
  /\ current = 0
  /\ place   = "down"
  /\ index   = 0
  /\ pending = 0
  /\ written = [d \in Dates |-> 0]
  /\ faults  = 0

\* file_helper_.open: appends to the file, which is created if it is missing.
Opened(d) == IF file[d][0] = None THEN Empty ELSE file[d][0]

\* Mutant: the size of a file that was there already is not counted.
SizeWhenNew(d) == 0

\* file_helper_.size() after open.
SizeOnOpen(d) == Opened(d).size
-----------------------------------------------------------------------------
\* Mutant: the number of files is not limited.
ClampedBelow(size, num) ==
  /\ maxSize'  = IF size < MinFileSize THEN MinFileSize ELSE size
  /\ maxFiles' = num

\* The limits are clamped: the size from below, the number from above.
Clamped(size, num) ==
  /\ maxSize'  = IF size < MinFileSize THEN MinFileSize ELSE size
  /\ maxFiles' = IF num > MaxFileNum THEN MaxFileNum ELSE num

\* The process starts: InitLogging makes the sink, which opens today's file.  The
\* configuration is the same at every start.
InitLogging ==
  /\ place = "down"
  /\ IF maxSize = 0 THEN \E size \in FileSizes, num \in FileNums : Clamped(size, num)
                    ELSE UNCHANGED <<maxSize, maxFiles>>
  /\ base'    = today
  /\ file'    = [file EXCEPT ![today][0] = Opened(today)]
  /\ current' = SizeOnOpen(today)
  /\ opened'  = TRUE
  /\ place'   = "idle"
  /\ UNCHANGED <<today, index, pending, written, faults>>

\* The process dies, perhaps in the middle of a rotation.
Crash ==
  /\ place # "down"
  /\ opened'  = FALSE
  /\ place'   = "down"
  /\ index'   = 0
  /\ pending' = 0
  /\ current' = 0
  /\ UNCHANGED <<maxSize, maxFiles, today, base, file, written, faults>>

\* Midnight, or the clock is set.
ClockMoves ==
  /\ \E d \in Dates \ {today} : today' = d
  /\ UNCHANGED <<maxSize, maxFiles, base, file, opened, current, place, index, pending,
                 written, faults>>

\* file_helper_.write appends the next message of the date to f ...
Write(f, d, n) ==
  [log |-> Append(f.log, written[d] + 1), size |-> f.size + n, torn |-> f.torn]

\* ... or throws after k bytes of it.
WritePart(f, k) == [log |-> f.log, size |-> f.size + k, torn |-> f.torn + k]

\* Mutant: the loop starts one below max_files_.
FirstIndexLow == IF maxFiles > 1 THEN maxFiles - 1 ELSE maxFiles

\* i of the loop in Rotate starts at max_files_.
FirstIndex == maxFiles

\* After CheckDateAndRotate, which opens the file of a new date: whether the sink
\* is open, current_size_, and whether a message of size n is too much for the file.
IsOpen      == opened \/ today # base
CurrentSize == IF today # base THEN SizeOnOpen(today) ELSE current
Full(n)     == CurrentSize + n > maxSize
Rotates(n)  == Full(n) /\ Opened(today).size > 0

(***************************************************************************)
(* sink_it_ for a message of size n, up to the first file operation of     *)
(* Rotate.  A closed sink drops the message: size() throws, or write does  *)
(* nothing.                                                                *)
(***************************************************************************)
SinkIt(n) ==
  /\ place = "idle"
  /\ Total < MaxWritten
  /\ base'   = today
  /\ opened' = (IsOpen /\ ~Rotates(n))
  /\ IF IsOpen /\ Rotates(n)
     THEN /\ place'   = "shift"
          /\ index'   = FirstIndex
          /\ pending' = n
          /\ current' = CurrentSize
          /\ file'    = [file EXCEPT ![today][0] = Opened(today)]
          /\ UNCHANGED written
     ELSE /\ current' = IF Full(n) /\ ~IsOpen THEN current ELSE CurrentSize + n
          /\ file'    = IF IsOpen
                        THEN [file EXCEPT ![today][0] = Write(Opened(today), today, n)]
                        ELSE file
          /\ written' = IF IsOpen THEN [written EXCEPT ![today] = @ + 1] ELSE written
          /\ UNCHANGED <<place, index, pending>>
  /\ UNCHANGED <<maxSize, maxFiles, today, faults>>

\* An operation throws: the message is lost, spdlog goes on.
Fault ==
  /\ faults < MaxFaults
  /\ faults' = faults + 1
  /\ place'  = "idle"
  /\ UNCHANGED <<maxSize, maxFiles, today, written>>

\* The flush before a change of date fails: the old date stays.
DateFlushFails ==
  /\ place = "idle" /\ today # base
  /\ Fault
  /\ UNCHANGED <<base, file, opened, current, index, pending>>

\* open fails in CheckDateAndRotate: base_filename_ is the new date already.
OpenFails ==
  /\ place = "idle" /\ today # base
  /\ Fault
  /\ base'   = today
  /\ opened' = FALSE
  /\ UNCHANGED <<file, current, index, pending>>

\* The flush before Rotate fails.
FlushFails(n) ==
  /\ place = "idle" /\ IsOpen /\ Full(n)
  /\ Fault
  /\ base'    = today
  /\ opened'  = TRUE
  /\ current' = CurrentSize
  /\ file'    = [file EXCEPT ![today][0] = Opened(today)]
  /\ UNCHANGED <<index, pending>>

\* write throws after k bytes of the message: they are not counted in current_size_.
WriteFails(n, k) ==
  /\ place = "idle" /\ IsOpen /\ ~Rotates(n)
  /\ Fault
  /\ base'    = today
  /\ opened'  = TRUE
  /\ current' = CurrentSize
  /\ file'    = [file EXCEPT ![today][0] = WritePart(Opened(today), k)]
  /\ UNCHANGED <<index, pending>>
-----------------------------------------------------------------------------
\* Rotate, one turn of the loop: nothing to move, or the target is removed ...
RotateRemove ==
  /\ place = "shift" /\ index > 0
  /\ IF file[base][index - 1] = None
     THEN index' = index - 1 /\ UNCHANGED <<file, place>>
     ELSE /\ file'  = [file EXCEPT ![base][index] = None]
          /\ place' = "rename"
          /\ UNCHANGED index
  /\ UNCHANGED <<maxSize, maxFiles, today, base, opened, current, pending, written, faults>>

\* Mutant: the file is copied and stays where it was.
RotateCopy ==
  /\ place = "rename"
  /\ file'  = [file EXCEPT ![base][index] = file[base][index - 1]]
  /\ index' = index - 1
  /\ place' = "shift"
  /\ UNCHANGED <<maxSize, maxFiles, today, base, opened, current, pending, written, faults>>

\* ... and the file renamed to it.
RotateRename ==
  /\ place = "rename"
  /\ file'  = [file EXCEPT ![base][index] = file[base][index - 1],
                           ![base][index - 1] = None]
  /\ index' = index - 1
  /\ place' = "shift"
  /\ UNCHANGED <<maxSize, maxFiles, today, base, opened, current, pending, written, faults>>

\* Mutant: Rotate does not open the file again, and the message is dropped.
RotateEndsClosed ==
  /\ place = "shift" /\ index = 0
  /\ current' = pending
  /\ place'   = "idle"
  /\ pending' = 0
  /\ UNCHANGED <<maxSize, maxFiles, today, base, file, opened, written, index, faults>>

\* The loop is over: the file is opened again and the message written.
RotateEnds ==
  /\ place = "shift" /\ index = 0
  /\ file'    = [file EXCEPT ![base][0] = Write(Opened(base), base, pending)]
  /\ written' = [written EXCEPT ![base] = @ + 1]
  /\ current' = pending
  /\ opened'  = TRUE
  /\ place'   = "idle"
  /\ pending' = 0
  /\ UNCHANGED <<maxSize, maxFiles, today, base, index, faults>>

\* A file operation of Rotate throws: the file stays closed.
RotateFails ==
  /\ place \in {"shift", "rename"}
  /\ Fault
  /\ index'   = 0
  /\ pending' = 0
  /\ UNCHANGED <<base, file, opened, current>>

\* Rotate is done, and write throws after k bytes: current_size_ is 0.
RotatedWriteFails(k) ==
  /\ place = "shift" /\ index = 0
  /\ Fault
  /\ file'    = [file EXCEPT ![base][0] = WritePart(Opened(base), k)]
  /\ current' = 0
  /\ opened'  = TRUE
  /\ pending' = 0
  /\ UNCHANGED <<base, index>>

SinkNext ==
  \/ InitLogging \/ Crash \/ ClockMoves
  \/ DateFlushFails \/ OpenFails
  \/ \E n \in Sizes : SinkIt(n) \/ FlushFails(n) \/ \E k \in 0..(n - 1) : WriteFails(n, k)
  \/ RotateRemove \/ RotateRename \/ RotateEnds \/ RotateFails
  \/ \E k \in 0..(pending - 1) : RotatedWriteFails(k)
-----------------------------------------------------------------------------
(***************************************************************************)
(* No file outgrows the limit ("rotating at 100MB", logging.h:13), except  *)
(* by a single message larger than it and by what failed writes left,      *)
(* which is not counted, however days change, processes die, restart and   *)
(* append, and operations fail.  With max_rotate_file_num 0 there is no    *)
(* file to rotate to and no limit.                                         *)
(***************************************************************************)
SizeBounded ==
  maxFiles > 0 =>
    \A d \in Dates, i \in Indices : file[d][i] # None =>
      file[d][i].size <= maxSize + file[d][i].torn \/ Len(file[d][i].log) = 1

(***************************************************************************)
(* The sink is closed after a message only if an operation of this message *)
(* failed, or if it was closed before and the date is still the same: a    *)
(* rotation that ends leaves it open, and a new date opens it again.       *)
(***************************************************************************)
ClosedOnlyByFault ==
  [][place' = "idle" /\ ~opened' =>
       faults' > faults \/ (place = "idle" /\ ~opened /\ base' = base)]_sinkVars

\* The messages in a file.
Content(d, i) == IF file[d][i] = None THEN <<>> ELSE file[d][i].log

(***************************************************************************)
(* What the files of a date hold, from the highest suffix to the current   *)
(* file, is the end of what was written, in order, without a gap or a      *)
(* repetition, also in the middle of a rotation and after one that did not *)
(* finish.  Messages that reached no file, dropped by a closed sink or a   *)
(* failed operation, are not counted.                                      *)
(***************************************************************************)
NewestKept ==
  \A d \in Dates : \A i \in Indices : \A k \in 1..Len(Content(d, i)) :
    LET m == Content(d, i)[k] IN
    /\ \A j \in Indices : \A l \in 1..Len(Content(d, j)) :
         j < i \/ (j = i /\ k < l) => m < Content(d, j)[l]
    /\ \/ m = written[d]
       \/ \E j \in Indices : \E l \in 1..Len(Content(d, j)) : Content(d, j)[l] = m + 1

(***************************************************************************)
(* No step makes a file disappear unless it has the highest suffix: its    *)
(* messages are in a file afterwards too.                                  *)
(***************************************************************************)
OnlyOldestDropped ==
  [][\A d \in Dates : \A i \in 0..MaxFileNum : file[d][i] # None /\ i # maxFiles =>
       \E j \in Indices : file'[d][j] # None /\ IsPrefix(file[d][i].log, file'[d][j].log)]_sinkVars
=============================================================================

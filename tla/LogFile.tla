------------------------------- MODULE LogFile -------------------------------
(***************************************************************************)
(* LogFile (src/flute/common/LogFile.cc) with its FileUtil::AppendFile, as *)
(* a value: the object is owned by one thread (AsyncLogging's backend      *)
(* builds it with threadSafe = false), so each call is a function from the *)
(* old object to the new one.  A file is recorded by the second it was     *)
(* opened in, which is the time part of its name, and its written_bytes(). *)
(* ::time(NULL) is the argument now; get_log_file_name's formatting is the *)
(* second it reads.                                                        *)
(***************************************************************************)
EXTENDS Integers, Sequences, SequencesExt

CONSTANTS
  RollSize,       \* m_rollsize
  CheckEveryN,    \* m_check_every_n_appends
  FlushInterval,  \* m_flush_interval
  RollPeriod      \* kRollPerSeconds

(* The day a second belongs to: now / kRollPerSeconds * kRollPerSeconds.   *)
PeriodOf(t) == (t \div RollPeriod) * RollPeriod

(* roll_file: a new AppendFile, named after the current second, only if   *)
(* that second is later than the last roll.                               *)
RollFile(lf, now) ==
  IF now > lf.last_roll
    THEN [lf EXCEPT !.last_roll = now, !.last_flush = now,
                    !.start_time = PeriodOf(now),
                    !.files = Append(@, [opened |-> now, bytes |-> 0])]
    ELSE lf

(* The constructor: zeroed fields, then roll_file().                       *)
NewLogFile(now) ==
  RollFile([count |-> 0, last_roll |-> 0, last_flush |-> 0, start_time |-> 0,
            files |-> <<>>], now)

(* AppendFile::append adds len to written_bytes whatever fwrite managed.  *)
FileAppend(lf, len) ==
  [lf EXCEPT !.files[Len(lf.files)].bytes = @ + len]

(* append_unlocked: write, then roll if the file passed m_rollsize, else  *)
(* every m_check_every_n_appends appends roll at a new day or flush.      *)
OverRollSize(lf) == lf.files[Len(lf.files)].bytes > RollSize
AppendUnlocked(lf, len, now) ==
  LET w == FileAppend(lf, len)
      c == w.count + 1
  IN  IF OverRollSize(w) THEN RollFile(w, now)
      ELSE IF c < CheckEveryN THEN [w EXCEPT !.count = c]
      ELSE IF PeriodOf(now) # w.start_time THEN RollFile([w EXCEPT !.count = 0], now)
      ELSE IF now - w.last_flush > FlushInterval
             THEN [w EXCEPT !.count = 0, !.last_flush = now]
      ELSE [w EXCEPT !.count = 0]

(* Several appends in a row, within one second.                            *)
AppendAll(lf, lens, now) ==
  FoldLeft(LAMBDA acc, len : AppendUnlocked(acc, len, now), lf, lens)

=============================================================================

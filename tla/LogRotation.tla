----------------------------- MODULE LogRotation -----------------------------
(***************************************************************************)
(* The daily log of a server: CustomTimedRotatingFileHandler on top of    *)
(* Python 3.11's TimedRotatingFileHandler(when="midnight", utc=True,       *)
(* backupCount=30).  Two variants: the combiner's, whose _open rebuilds    *)
(* the name from log_dir and whose namer is custom_namer; and the          *)
(* estimator's, which the mitigator repeats, whose _open appends           *)
(* "/<service>-<date>.log" to the current baseFilename.                    *)
(*                                                                         *)
(* Time is the UTC day.  A path is a sequence of names under the log      *)
(* directory: <<LogName(d)>> is "<dir>/<service>-<d>.log", a longer        *)
(* sequence nests names under it, and a name with bak = t carries the     *)
(* rollover suffix ".<t>".  fs maps every existing file to the days of    *)
(* the records it holds.  A restart of the process rebuilds the handler;  *)
(* the files persist.                                                     *)
(***************************************************************************)
EXTENDS Integers, Sequences, FiniteSets, TLC

CONSTANTS
  Services,    \* subset of {"combiner", "estimator"}
  MaxDay,      \* the last day the clock reaches
  NoStream     \* handler.stream is None

VARIABLES
  service,
  day,         \* the current UTC day
  base,        \* handler.baseFilename
  stream,      \* the path of the open stream, or NoStream
  rolloverAt,  \* the day at whose midnight the next rollover is due
  fs,          \* existing files -> days of the records they hold
  written,     \* days some record was written on
  lost         \* days some record was lost on (emit -> handleError)

vars == <<service, day, base, stream, rolloverAt, fs, written, lost>>

Days == 0 .. MaxDay
NoSuffix == -1
LogName(d) == [day |-> d, bak |-> NoSuffix]

(* baseFilename + "." + strftime(suffix, rolloverAt - interval)           *)
Rotated(p, t) == [p EXCEPT ![Len(p)] = [@ EXCEPT !.bak = t]]

(* open() succeeds only directly in the log directory: a longer path has *)
(* a parent that is not a directory.                                      *)
CanOpen(p) == Len(p) = 1

(* computeRollover for "midnight" in UTC.                                 *)
NextMidnightSkipping(d) == d + 2
NextMidnight(d) == d + 1

(* Mutant: the file opened with mode "w".                                 *)
OpenTruncating(f, p) == (p :> {}) @@ f

(* FileHandler._open with mode "a": the file is created if absent.        *)
OpenAppend(f, p) == IF p \in DOMAIN f THEN f ELSE (p :> {}) @@ f

(* The _open override: the new baseFilename.                              *)
OpenPath(svc, b) ==
  IF svc = "combiner" THEN <<LogName(day)>> ELSE Append(b, LogName(day))

(* Mutant: custom_namer accepting the default name it is called with.     *)
NamerAccepted(svc) == FALSE

(* circuit_combiner.py binds namer = custom_namer(self), which takes no   *)
(* default_name: rotation_filename raises TypeError.                      *)
NamerFails(svc) == svc = "combiner"

(* The rotation target: the default name, or what custom_namer returns,   *)
(* today's name.                                                          *)
RotationFilename(svc, b) ==
  IF svc = "combiner" THEN <<LogName(day)>> ELSE Rotated(b, rolloverAt - 1)

(* os.rename(source, dest) after os.remove(dest) if it exists.            *)
Rename(f, src, dst) ==
  IF src \in DOMAIN f
    THEN (dst :> f[src]) @@ [p \in DOMAIN f \ {src, dst} |-> f[p]]
    ELSE f

Init ==
  /\ service \in Services
  /\ day = 0
  /\ base = <<LogName(0)>>
  /\ stream = base
  /\ rolloverAt = NextMidnight(0)
  /\ fs = OpenAppend(<<>>, base)
  /\ written = {}
  /\ lost = {}

(* logger.<level>(...) before the next midnight: FileHandler.emit writes  *)
(* to the open stream.                                                    *)
Emit ==
  /\ day < rolloverAt
  /\ stream # NoStream
  /\ fs' = [fs EXCEPT ![stream] = @ \cup {day}]
  /\ written' = written \cup {day}
  /\ UNCHANGED <<service, day, base, stream, rolloverAt, lost>>

(* The record that finds shouldRollover true: doRollover closes the       *)
(* stream, names the rotation target, renames the file, lists the        *)
(* directory for backups, reopens, and the record is written.  Any        *)
(* exception on the way is caught by emit and the record is lost; a       *)
(* failed rollover leaves rolloverAt as it was.  (With at most one        *)
(* rotated file per name, getFilesToDelete never exceeds backupCount.)    *)
EmitRollover ==
  /\ day >= rolloverAt
  /\ LET Fail(f, b) == /\ fs' = f /\ base' = b /\ stream' = NoStream
                       /\ lost' = lost \cup {day}
                       /\ UNCHANGED <<rolloverAt, written>>
     IN IF NamerFails(service)
          THEN Fail(fs, base)
          ELSE LET f1 == Rename(fs, base, RotationFilename(service, base))
                   nb == OpenPath(service, base)
               IN IF ~CanOpen(base) \/ ~CanOpen(nb)
                    THEN Fail(f1, IF CanOpen(base) THEN nb ELSE base)
                    ELSE /\ base' = nb
                         /\ stream' = nb
                         /\ fs' = [OpenAppend(f1, nb) EXCEPT ![nb] = @ \cup {day}]
                         /\ rolloverAt' = NextMidnight(day)
                         /\ written' = written \cup {day}
                         /\ UNCHANGED lost
  /\ UNCHANGED <<service, day>>

(* The process restarts: init_logger builds a new handler, whose _open    *)
(* opens today's file in append mode; rolloverAt is the next midnight     *)
(* after that file's mtime, today.                                        *)
Restart ==
  /\ base' = <<LogName(day)>>
  /\ stream' = base'
  /\ fs' = OpenAppend(fs, base')
  /\ rolloverAt' = NextMidnight(day)
  /\ UNCHANGED <<service, day, written, lost>>

Tick ==
  /\ day < MaxDay
  /\ day' = day + 1
  /\ UNCHANGED <<service, base, stream, rolloverAt, fs, written, lost>>

Next == Emit \/ EmitRollover \/ Restart \/ Tick

Spec == Init /\ [][Next]_vars

-----------------------------------------------------------------------------
Names == [day : Days, bak : Days \cup {NoSuffix}]

(* Types; a due rollover is never scheduled past the next midnight.       *)
TypeOK ==
  /\ service \in Services
  /\ day \in Days
  /\ base \in Seq(Names) /\ Len(base) \in 1 .. 2
  /\ stream \in {<<n>> : n \in Names} \cup {NoStream}
  /\ rolloverAt \in 1 .. day + 1
  /\ DOMAIN fs \subseteq {<<n>> : n \in Names}
  /\ \A p \in DOMAIN fs : fs[p] \subseteq Days
  /\ written \subseteq Days /\ lost \subseteq Days

(* No record the handler wrote is ever gone from the log directory: the   *)
(* rename of doRollover, the reopen after a rollover and the reopen by a  *)
(* restarted process on the same day all keep what was written.           *)
RecordsKept ==
  \A d \in written : \E p \in DOMAIN fs : d \in fs[p]

(* Every log file holds only records of the day its name carries, so the  *)
(* file for a day is that day's log (the form <service>-YYYY-MM-DD.log    *)
(* the handler's docstring promises), rotated or not.                     *)
DatedFile ==
  \A p \in DOMAIN fs : \A d \in fs[p] : p[Len(p)].day = d

(* Every record emitted is written to some file: logging keeps working    *)
(* across midnight.                                                       *)
NoRecordLost == lost = {}
=============================================================================

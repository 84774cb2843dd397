------------------------------ MODULE FileAlloc ------------------------------
(***************************************************************************)
(* The preallocated recording files of the DVR and their index             *)
(* (dvr/filesdk/src/isil_fm_file_allocate.c), with the recording of the    *)
(* channels that allocates, fills and reopens them                         *)
(* (dvr/filesdk/src/isil_fm_rec.c, dvr/app/src/isil_recapp.c,              *)
(* dvr/app/src/isil_file_record_session.c).                                *)
(*                                                                         *)
(* index00.bin holds a base block, a "using" entry per channel, a "full"   *)
(* entry per data file and LOGS log entries per data file; it survives a   *)
(* crash.  FILE_INDEX_LOCK protects it, but opening a file takes the lock  *)
(* twice: to choose a file, and to enter it in the index.                  *)
(*                                                                         *)
(* Start and stop run in the network loop, one at a time; the frames of a  *)
(* channel and the change to a new file run in its recording thread.  A    *)
(* stop that overlaps a frame of the same channel is left out.  Offsets    *)
(* count units: a frame is one, what ends a file (GOP entry, tail) is one. *)
(***************************************************************************)
EXTENDS Integers, FiniteSets, FiniteSetsExt

CONSTANTS
    Chans,      \* the channels
    Nobody,     \* no channel
    FILES,      \* u32FileTotle, the data files
    LOGS,       \* FILE_INDEX_RECLOG_SUM, the log entries of a data file
    CAP,        \* FILE_SIZE, in units
    NONE,       \* 0xffffffff
    OVERWRITE,  \* ISIL_FM_DISK_OVER_WRITE
    Types,      \* the recordings asked for: "video", "shot" (an MJPEG type)
    OneOpener,  \* no two channels open a file at the same time
    MaxTorn,    \* bound: the crashes between the writes of an index update
    MaxLogs     \* bound: no recording starts in a file with more logs

ASSUME FileAssumption ==
    /\ IsFiniteSet(Chans) /\ Nobody \notin Chans
    /\ FILES \in Nat \ {0} /\ LOGS \in Nat \ {0} /\ CAP \in Nat \ {0}
    /\ NONE \in Nat /\ NONE > 2 * FILES
    /\ Types \subseteq {"video", "shot"}
    /\ {OVERWRITE, OneOpener} \subseteq BOOLEAN /\ MaxTorn \in Nat
    /\ MaxLogs \in 0 .. LOGS + 1

VARIABLES
    base,     \* the base block of the index
    using,    \* the entry of each channel: the file it fills
    full,     \* the entry of each file: who filled it
    log,      \* the log entries, LOGS for file 0, then LOGS for file 1, ...
    lock,     \* who holds FILE_INDEX_LOCK
    new,      \* the copies of base and using its holder is about to write
    pc,       \* where the opening or the filling of a channel's file is
    rec,      \* REC_MGT_TBL: state, data file, offset, type
    listed,   \* RECLIST
    task,     \* the channels whose file_rec_sess->task is set
    starter,  \* the channel the network loop is starting
    torn      \* how many crashes fell between the writes of an update

vars == <<base, using, full, log, lock, new, pc, rec, listed, task, starter,
          torn>>
index == <<base, using, full, log>>

FileIds == 0 .. FILES - 1
Entries == 0 .. FILES * LOGS + 1
At(f, i) == f * LOGS + i
Inc(n) == (n + 1) % (NONE + 1)
Dec(n) == (n + NONE) % (NONE + 1)

NoLog == [type |-> {}, seq |-> 0, start |-> 0, stop |-> 0]
NotFull == [chan |-> Nobody, recs |-> 0, logs |-> 0, mjpg |-> FALSE]
NotUsing == [id |-> NONE, recs |-> 0, logs |-> 0, mjpg |-> FALSE]
NoCopy == [base |-> [used |-> NONE, full |-> NONE, covered |-> NONE],
           using |-> NotUsing]
Fresh == [state |-> "invalid", file |-> 0, off |-> 0, type |-> {}]

-----------------------------------------------------------------------------
(* What ISIL_FM_FILE_ALLOCATE_Format writes.                               *)
Init ==
    /\ base = NoCopy.base
    /\ using = [c \in Chans |-> NotUsing]
    /\ full = [f \in FileIds |-> NotFull]
    /\ log = [e \in Entries |-> NoLog]
    /\ lock = Nobody
    /\ new = NoCopy
    /\ pc = [c \in Chans |-> "idle"]
    /\ rec = [c \in Chans |-> Fresh]
    /\ listed = {} /\ task = {} /\ starter = Nobody /\ torn = 0

IS_MJPG_TYPE(t) == "shot" \in t

(* The log entries of the file a channel fills.                            *)
Counted(c) == {At(using[c].id, i) : i \in 0 .. using[c].logs - 1}

\* Faulty variant: every log of the file is stamped.
StampedAll(c, off) ==
    [e \in Entries |->
        IF using[c].id # NONE /\ e \in Counted(c)
        THEN [log[e] EXCEPT !.stop = off] ELSE log[e]]

(* ISIL_FM_FILE_ALLOCATE_UpdateIndexRecLog: the logs of the current        *)
(* recording, and of shots, end at off.                                    *)
Stamped(c, off) ==
    [e \in Entries |->
        IF /\ using[c].id # NONE /\ e \in Counted(c)
           /\ log[e].seq = using[c].recs \/ IS_MJPG_TYPE(log[e].type)
        THEN [log[e] EXCEPT !.stop = off] ELSE log[e]]

-----------------------------------------------------------------------------
(* Opening a file: ISIL_FM_FILE_ALLOCATE_GetDataFile chooses it.           *)
CoverFile == IF base.covered \in {NONE, FILES} THEN 0 ELSE base.covered

\* Faulty variant: the overwrite flag is never looked at.
NoSpaceNever(c) == FALSE

NoSpace(c) ==
    using[c].id = NONE /\ base.used = FILES /\ ~OVERWRITE

DataFile(c) ==
    IF using[c].id # NONE THEN using[c].id
    ELSE IF base.used = NONE /\ base.covered = NONE THEN 0
    ELSE IF base.used = FILES THEN CoverFile
    ELSE base.used

\* Faulty variant: behind where the last recording begins.
StartOffsetBegin(c) ==
    IF using[c].id = NONE THEN 0
    ELSE Max({0} \cup {log[e].start : e \in Counted(c)})

(* A file that is filled further is filled after all its logs.             *)
StartOffset(c) ==
    IF using[c].id = NONE THEN 0
    ELSE Max({0} \cup {log[e].stop : e \in Counted(c)})

EndOpen(c) == starter' = IF starter = c THEN Nobody ELSE starter

GetDataFile(c) ==
    /\ pc[c] = "get" /\ lock = Nobody /\ ~NoSpace(c)
    /\ rec' = [rec EXCEPT ![c].file = DataFile(c), ![c].off = StartOffset(c)]
    /\ pc' = [pc EXCEPT ![c] = "index"]
    /\ UNCHANGED <<index, lock, new, listed, task, starter, torn>>

(* GetDataFile returns -2.  The start, or the write that changes files,    *)
(* fails, and the task goes; CloseFile fails in this state, so the channel *)
(* stays in RECLIST.                                                       *)
OpenFails(c) ==
    /\ pc[c] = "get" /\ lock = Nobody /\ NoSpace(c)
    /\ pc' = [pc EXCEPT ![c] = "idle"]
    /\ task' = task \ {c}
    /\ EndOpen(c)
    /\ UNCHANGED <<index, lock, new, rec, listed, torn>>

-----------------------------------------------------------------------------
(* ISIL_FM_FILE_ALLOCATE_UpdateFileIndex chooses once more, from what the  *)
(* index says now, and writes the log, using, base and full entries.       *)
Covers(c) == using[c].id = NONE /\ base.used = FILES

NewFile(c) ==
    IF using[c].id # NONE THEN using[c].id
    ELSE IF base.used = NONE THEN 0
    ELSE IF base.used = FILES THEN CoverFile
    ELSE base.used

\* Faulty variant: going on with a file counts as using one more.
NewBaseReopens(c) ==
    IF Covers(c)
    THEN [base EXCEPT !.covered = CoverFile + 1, !.full = Dec(@)]
    ELSE [base EXCEPT !.used = IF @ = NONE THEN 1
                               ELSE IF @ = FILES THEN @ ELSE @ + 1]

\* Faulty variant: a file that is covered is still counted as full.
NewBaseKeepsFull(c) ==
    IF using[c].id # NONE THEN base
    ELSE IF Covers(c) THEN [base EXCEPT !.covered = CoverFile + 1]
    ELSE [base EXCEPT !.used = IF @ = NONE THEN 1 ELSE @ + 1]

\* Faulty variant: only the first file of all is counted.
NewBaseFirst(c) ==
    IF using[c].id = NONE /\ base.used = NONE
    THEN [base EXCEPT !.used = 1] ELSE base

NewBase(c) ==
    IF using[c].id # NONE THEN base
    ELSE IF Covers(c)
    THEN [base EXCEPT !.covered = CoverFile + 1, !.full = Dec(@)]
    ELSE [base EXCEPT !.used = IF @ = NONE THEN 1 ELSE @ + 1]

ShotLog(c) ==
    {i \in 0 .. using[c].logs - 1 : IS_MJPG_TYPE(log[At(NewFile(c), i)].type)}

(* The first file of all and a covered file begin with the shot's log; in  *)
(* any other file it goes behind a gap, uncounted, or onto the shot's log  *)
(* among the counted ones, or onto log 0 when that is not counted.         *)
Begins(c) == using[c].id = NONE /\ base.used \in {NONE, FILES}

RecID(c, shot) ==
    IF ~shot THEN using[c].logs
    ELSE IF Begins(c) THEN 0
    ELSE IF ~using[c].mjpg THEN using[c].logs + 1
    ELSE IF ShotLog(c) = {} THEN 0 ELSE Min(ShotLog(c))

NewUsing(c, shot) ==
    [id |-> NewFile(c),
     recs |-> using[c].recs + IF shot THEN 0 ELSE 1,
     logs |-> IF ~shot THEN using[c].logs + 1
              ELSE IF Begins(c) THEN 1 ELSE using[c].logs,
     mjpg |-> using[c].mjpg \/ shot]

(* The log read last in the search for the shot's log.                     *)
OldShot(c) ==
    IF ShotLog(c) # {} THEN log[At(using[c].id, Min(ShotLog(c)))]
    ELSE IF using[c].logs = 0 THEN NoLog
    ELSE log[At(using[c].id, using[c].logs - 1)]

NewLog(c, shot) ==
    LET merged == shot /\ using[c].mjpg IN
    [type |-> rec[c].type \cup IF merged THEN OldShot(c).type ELSE {},
     seq |-> NewUsing(c, shot).recs,
     start |-> IF merged THEN OldShot(c).start ELSE rec[c].off,
     stop |-> rec[c].off]

(* The logs of the file that is covered are wiped.                         *)
Wiped(c) ==
    IF Covers(c)
    THEN {At(NewFile(c), i) : i \in 0 .. full[NewFile(c)].logs - 1} ELSE {}

UpdateFileIndex(c) ==
    LET shot == IS_MJPG_TYPE(rec[c].type) IN
    /\ pc[c] = "index" /\ lock = Nobody
    /\ lock' = c
    /\ new' = [base |-> NewBase(c), using |-> NewUsing(c, shot)]
    /\ log' = [e \in Entries |->
                 IF e = At(rec[c].file, RecID(c, shot)) THEN NewLog(c, shot)
                 ELSE IF e \in Wiped(c) THEN NoLog ELSE log[e]]
    /\ pc' = [pc EXCEPT ![c] = "using"]
    /\ UNCHANGED <<base, using, full, rec, listed, task, starter, torn>>

WriteIndexUsing(c) ==
    /\ pc[c] = "using"
    /\ using' = [using EXCEPT ![c] = new.using]
    /\ pc' = [pc EXCEPT ![c] = "base"]
    /\ UNCHANGED <<base, full, log, lock, new, rec, listed, task, starter,
                   torn>>

WriteIndexBase(c) ==
    /\ pc[c] = "base"
    /\ base' = new.base
    /\ pc' = [pc EXCEPT ![c] = "full"]
    /\ UNCHANGED <<using, full, log, lock, new, rec, listed, task, starter,
                   torn>>

(* The last write; the lock is released and the recording is open.  When   *)
(* the recording thread changed files, it now writes its frame.            *)
WriteIndexFull(c) ==
    /\ pc[c] = "full"
    /\ full' = [full EXCEPT ![using[c].id] = NotFull]
    /\ lock' = Nobody
    /\ pc' = [pc EXCEPT ![c] = IF starter = c THEN "idle" ELSE "write"]
    /\ rec' = [rec EXCEPT ![c].state = "start"]
    /\ new' = NoCopy
    /\ EndOpen(c)
    /\ UNCHANGED <<base, using, log, listed, task, torn>>

-----------------------------------------------------------------------------
(* start_record_file, isil_recapp_startrec: a channel that is not in       *)
(* RECLIST is initialised (what is not closed keeps its values).           *)
Reset(c) ==
    IF c \in listed THEN rec[c]
    ELSE LET r == IF rec[c].state \in {"invalid", "close"}
                  THEN Fresh ELSE rec[c]
         IN  [r EXCEPT !.state = "init"]

(* One more recording fits the bounds of this model.                       *)
MaxOff == CAP + MaxLogs

MayLog(c, t) ==
    /\ using[c].logs < MaxLogs
    /\ t = "shot" => using[c].logs + 1 < LOGS /\ torn = 0
    /\ StartOffset(c) < MaxOff

Start(c, t) ==
    /\ starter = Nobody /\ c \notin task /\ pc[c] = "idle"
    /\ OneOpener => \A d \in Chans : pc[d] = "idle"
    /\ MayLog(c, t)
    /\ rec' = [rec EXCEPT ![c] = [Reset(c) EXCEPT !.type = @ \cup {t}]]
    /\ listed' = listed \cup {c}
    /\ task' = task \cup {c}
    /\ IF Reset(c).state = "init"
       THEN pc' = [pc EXCEPT ![c] = "get"] /\ starter' = c
       ELSE UNCHANGED <<pc, starter>>
    /\ Reset(c).state # "write"
    /\ UNCHANGED <<index, lock, new, torn>>

(* The recording is still open, its stop has failed:                       *)
(* ISIL_FM_FILE_ALLOCATE_AddIndexRecLog.  It checks the number of logs     *)
(* last, and then returns with the lock.                                   *)
AddIndexRecLog(c, t) ==
    LET last == At(using[c].id, using[c].logs - 1) IN
    /\ starter = Nobody /\ c \notin task /\ pc[c] = "idle"
    /\ MayLog(c, t)
    /\ Reset(c).state = "write" /\ lock = Nobody
    /\ log' = [log EXCEPT ![At(using[c].id, using[c].logs)] =
                 [log[last] EXCEPT !.type = {t}, !.start = rec[c].off]]
    /\ rec' = [rec EXCEPT ![c].type = @ \cup {t}]
    /\ task' = task \cup {c}
    /\ lock' = IF using[c].logs + 1 > LOGS THEN c ELSE Nobody
    /\ using' = [using EXCEPT ![c].logs = IF @ + 1 > LOGS THEN @ ELSE @ + 1]
    /\ UNCHANGED <<base, full, new, pc, listed, starter, torn>>

Recording(c) == c \in task /\ rec[c].state \in {"start", "write"}

(* ISIL_FM_REC_SwitchFile: the frame and the end of the file do not fit.   *)
Fits(c) == rec[c].off + 2 <= CAP

(* ISIL_FM_REC_Write writes the frame, then the logs.                      *)
Frame(c) ==
    /\ Recording(c) /\ pc[c] \in {"idle", "write"} /\ lock = Nobody
    /\ pc[c] = "idle" => Fits(c)
    /\ rec' = [rec EXCEPT ![c].off = @ + 1, ![c].state = "write"]
    /\ log' = Stamped(c, rec[c].off + 1)
    /\ pc' = [pc EXCEPT ![c] = "idle"]
    /\ UNCHANGED <<base, using, full, lock, new, listed, task, starter, torn>>

(* The tail ends the file, the rest of it is filled with zeros.            *)
SwitchFile(c) ==
    /\ Recording(c) /\ pc[c] = "idle" /\ lock = Nobody
    /\ OneOpener => \A d \in Chans : pc[d] = "idle"
    /\ ~Fits(c)
    /\ rec' = [rec EXCEPT ![c].off = @ + 1]
    /\ log' = Stamped(c, rec[c].off + 1)
    /\ pc' = [pc EXCEPT ![c] = "fill"]
    /\ UNCHANGED <<base, using, full, lock, new, listed, task, starter, torn>>

\* Faulty variant: the first full file is not told from the others.
FullSumNoFirst == base.full + 1

FullSum == Inc(IF base.full = NONE THEN 0 ELSE base.full)

(* ISIL_FM_FILE_ALLOCATE_UpdateFull: the full, using and base entries.     *)
UpdateFull(c) ==
    /\ pc[c] = "fill" /\ lock = Nobody
    /\ lock' = c
    /\ new' = [base |-> [base EXCEPT !.full = FullSum],
               using |-> NotUsing]
    /\ full' = [full EXCEPT ![using[c].id] =
                  [chan |-> c, recs |-> using[c].recs,
                   logs |-> using[c].logs, mjpg |-> using[c].mjpg]]
    /\ pc' = [pc EXCEPT ![c] = "fillUsing"]
    /\ UNCHANGED <<base, using, log, rec, listed, task, starter, torn>>

FullUsing(c) ==
    /\ pc[c] = "fillUsing"
    /\ using' = [using EXCEPT ![c] = new.using]
    /\ pc' = [pc EXCEPT ![c] = "fillBase"]
    /\ UNCHANGED <<base, full, log, lock, new, rec, listed, task, starter,
                   torn>>

(* The lock is released, the file closed, the recording initialised again, *)
(* its type with it, and the next file is opened.                          *)
FullBase(c) ==
    /\ pc[c] = "fillBase"
    /\ base' = new.base
    /\ lock' = Nobody
    /\ rec' = [rec EXCEPT ![c] = [Fresh EXCEPT !.state = "init"]]
    /\ pc' = [pc EXCEPT ![c] = "get"]
    /\ new' = NoCopy
    /\ UNCHANGED <<using, full, log, listed, task, starter, torn>>

-----------------------------------------------------------------------------
(* stop_file_record, isil_recapp_close, ISIL_FM_REC_CloseFile: an open     *)
(* file gets its tail; what is only initialised cannot be closed.          *)
Stop(c) ==
    /\ starter = Nobody /\ pc[c] = "idle" /\ c \in listed
    /\ task' = task \ {c}
    /\ \/ /\ rec[c].state \in {"start", "write"} /\ lock = Nobody
          /\ rec' = [rec EXCEPT ![c].off = @ + 1, ![c].state = "close"]
          /\ log' = Stamped(c, rec[c].off + 1)
          /\ listed' = listed \ {c}
       \/ /\ rec[c].state = "init"
          /\ UNCHANGED <<rec, log, listed>>
    /\ UNCHANGED <<base, using, full, lock, new, pc, starter, torn>>

(* Writing a frame fails and so does the tail of the close that follows:   *)
(* the task goes and the file stays open.                                  *)
WriteFails(c) ==
    /\ Recording(c) /\ pc[c] \in {"idle", "write"}
    /\ task' = task \ {c}
    /\ pc' = [pc EXCEPT ![c] = "idle"]
    /\ UNCHANGED <<index, lock, new, rec, listed, starter, torn>>

(* Bound: an update is torn at most MaxTorn times, and never with shots.   *)
MayTear ==
    /\ torn < MaxTorn
    /\ \A e \in Entries : ~IS_MJPG_TYPE(log[e].type)

(* The process ends anywhere, within an index update too, and starts       *)
(* again: only the index remains.                                          *)
Crash ==
    /\ \/ lock = Nobody /\ UNCHANGED torn
       \/ lock # Nobody /\ MayTear /\ torn' = torn + 1
    /\ lock' = Nobody
    /\ new' = NoCopy
    /\ pc' = [c \in Chans |-> "idle"]
    /\ rec' = [c \in Chans |-> Fresh]
    /\ listed' = {} /\ task' = {} /\ starter' = Nobody
    /\ UNCHANGED index

-----------------------------------------------------------------------------
(* ISIL_FM_SEACH_SearchFile, for all videos of a channel; it holds the     *)
(* lock.  It reads the full entries from the oldest file on, and after the *)
(* last file from file 0 on, then the using entry.                         *)
Minus(n, m) == (n + NONE + 1 - m) % (NONE + 1)

SearchStart == IF base.covered = NONE THEN 0 ELSE base.covered

\* Faulty variant: one full file too few.
SearchEndBefore ==
    Minus(base.full, 2 + IF base.covered = NONE THEN 0 ELSE FILES - base.covered)

SearchEnd ==
    Minus(base.full, 1 + IF base.covered = NONE THEN 0 ELSE FILES - base.covered)

ReadsFull == base.covered # NONE \/ base.full # NONE

(* It comes to its end: after the last file it goes on until SearchEnd     *)
(* lies behind it, and it does not begin beyond the last file.             *)
SearchEnds == ReadsFull => SearchStart < FILES /\ SearchEnd + 1 < FILES

Searched ==
    IF ~ReadsFull THEN {}
    ELSE IF SearchStart > SearchEnd
    THEN (SearchStart .. FILES - 1) \cup (0 .. SearchEnd)
    ELSE SearchStart .. SearchEnd

Logs(f) == {At(f, i) : i \in 0 .. full[f].logs - 1}

SearchFile(c) ==
    LET files == {f \in Searched : full[f].chan = c}
    IN {e \in (UNION {Logs(f) : f \in files})
               \cup (IF using[c].id = NONE THEN {} ELSE Counted(c)) :
          ~IS_MJPG_TYPE(log[e].type)}

-----------------------------------------------------------------------------
Next ==
    \/ \E c \in Chans, t \in Types : Start(c, t) \/ AddIndexRecLog(c, t)
    \/ \E c \in Chans :
         \/ GetDataFile(c) \/ OpenFails(c) \/ UpdateFileIndex(c)
         \/ WriteIndexUsing(c) \/ WriteIndexBase(c) \/ WriteIndexFull(c)
         \/ Frame(c) \/ SwitchFile(c) \/ UpdateFull(c) \/ FullUsing(c)
         \/ FullBase(c) \/ Stop(c) \/ WriteFails(c)
    \/ Crash

Spec == Init /\ [][Next]_vars

-----------------------------------------------------------------------------
(* The type invariant: what the index and the recordings can hold.         *)
TypeOK ==
    /\ base.used \in (1 .. FILES) \cup {NONE} /\ base.full \in 0 .. NONE
    /\ torn \in 0 .. MaxTorn
    /\ torn = 0 => base.full \in (0 .. FILES) \cup {NONE}
    /\ base.covered \in (1 .. FILES) \cup {NONE}
    /\ \A c \in Chans :
         /\ using[c].id \in FileIds \cup {NONE}
         /\ using[c].recs \in 0 .. MaxLogs /\ using[c].logs \in 0 .. MaxLogs
         /\ rec[c].state \in {"invalid", "init", "start", "write", "close"}
         /\ rec[c].off \in 0 .. MaxOff /\ rec[c].type \subseteq Types
    /\ \A f \in FileIds : full[f].chan \in Chans \cup {Nobody}
    /\ task \subseteq listed /\ listed \subseteq Chans
    /\ lock \in Chans \cup {Nobody} /\ starter \in Chans \cup {Nobody}

IsFull(f) == full[f].chan # Nobody
InUse(f) == \E c \in Chans : using[c].id = f
Open(c) == pc[c] \in {"idle", "write"} /\ rec[c].state \in {"start", "write"}

(* What the index says was recorded is never written over while its file   *)
(* is filled, whatever crashes.  A recording is written into the file that *)
(* the index gives its channel - chosen twice, by GetDataFile and by       *)
(* UpdateFileIndex, from what the index said at two moments - and goes on  *)
(* behind every log of that file.  (With MJPEG recordings it does not.)    *)
AppendOnly ==
    \A c \in Chans :
        Open(c) =>
            /\ using[c].id = rec[c].file
            /\ ~using[c].mjpg => \A e \in Counted(c) : log[e].stop <= rec[c].off

(* The counters of the base block, from which the next file is chosen, are *)
(* what the using and the full entries say.                                *)
Number(n) == IF n = NONE THEN 0 ELSE n

CountsExact ==
    lock = Nobody /\ torn = 0 =>
        /\ Number(base.full) = Cardinality({f \in FileIds : IsFull(f)})
        /\ Number(base.used) =
             Cardinality({f \in FileIds : IsFull(f) \/ InUse(f)})

(* Every recording of a file of videos can be found in its logs, and they  *)
(* lie one behind the other.  (An MJPEG log may replace one of a video.)   *)
Listed(f, recs, logs) ==
    LET entries == {At(f, i) : i \in 0 .. logs - 1} IN
    \/ \E e \in entries : IS_MJPG_TYPE(log[e].type)
    \/ /\ \A r \in 1 .. recs : \E e \in entries : log[e].seq = r
       /\ \A d, e \in entries :
            log[d].seq < log[e].seq => log[d].stop <= log[e].start

AllListed ==
    torn = 0 =>
    /\ \A c \in Chans : using[c].id # NONE /\ ~using[c].mjpg /\ lock # c
            => Listed(using[c].id, using[c].recs, using[c].logs)
    /\ \A f \in FileIds : IsFull(f) /\ ~full[f].mjpg /\ lock = Nobody
            => Listed(f, full[f].recs, full[f].logs)

(* Whoever searches the disk finds every recording of a file of videos, in *)
(* full files and in the one being filled, through reopened, full and      *)
(* covered files and crashes, although the range of full files is computed *)
(* from counters and their wrap (isil_fm_play.c:211-266, 342-349).  For    *)
(* one channel, whose files fill in order, and when the search ends.       *)
FoundIn(f, recs, found) ==
    \A r \in 1 .. recs :
        \E e \in found : e \in f * LOGS .. At(f, LOGS - 1) /\ log[e].seq = r

SearchFinds ==
    lock = Nobody /\ torn = 0 /\ SearchEnds /\ Cardinality(Chans) = 1 =>
        \A c \in Chans :
            /\ using[c].id # NONE /\ ~using[c].mjpg
                 => FoundIn(using[c].id, using[c].recs, SearchFile(c))
            /\ \A f \in FileIds : full[f].chan = c /\ ~full[f].mjpg
                 => FoundIn(f, full[f].recs, SearchFile(c))

(* A recording is given up for a new one only when no file is left that    *)
(* was never used.                                                         *)
GivenUp(f) == IsFull(f) /\ full'[f] # full[f]

NoEarlyOverwrite ==
    [][\A f \in FileIds :
         GivenUp(f) /\ torn = 0 => \A g \in FileIds : IsFull(g) \/ InUse(g)]_vars

(* ISIL_FM_DISK_OVER_WRITE off: no recording is ever given up.  So it is   *)
(* as long as channels open files one at a time (OneOpener), which is up   *)
(* to them.                                                                *)
NeverOverwrites == [][~OVERWRITE => \A f \in FileIds : ~GivenUp(f)]_vars

(* The file a channel gets is available: no other channel is filling it.   *)
OneChannelPerFile ==
    \A c, d \in Chans :
        c # d /\ using[c].id # NONE => using[c].id # using[d].id

=============================================================================

--------------------------- MODULE FileAllocProofs ---------------------------
(***************************************************************************)
(* FileAlloc, for any disk: one inductive invariant and what follows.      *)
(* It holds when no file's log entries run out and when                    *)
(*   - there is one channel, which may cover files and crash at any write  *)
(*     of an update of the index, or                                       *)
(*   - there are any number of channels that do not cover files, open them *)
(*     one at a time, and crash only between updates.                      *)
(* Several channels that do otherwise take each other's files.             *)
(***************************************************************************)
EXTENDS FileAlloc, FiniteSetTheorems, WellFoundedInduction, TLAPS

Alone == \A c, d \in Chans : c = d
Exclusive ==
    /\ MaxLogs <= LOGS
    /\ Alone \/ (~OVERWRITE /\ OneOpener /\ MaxTorn = 0)

Pcs == {"idle", "get", "index", "using", "base", "full", "write", "fill",
        "fillUsing", "fillBase"}
Locked == {"using", "base", "full", "fillUsing", "fillBase"}
Opening == {"get", "index", "using", "base", "full"}
Filling == {"fill", "fillUsing", "fillBase"}

BaseBlock == [used : (1 .. FILES) \cup {NONE}, full : 0 .. NONE,
              covered : (1 .. FILES) \cup {NONE}]
UsingEntry == [id : FileIds \cup {NONE}, recs : 0 .. MaxLogs, logs : 0 .. MaxLogs,
               mjpg : BOOLEAN]
FullEntry == [chan : Chans \cup {Nobody}, recs : 0 .. MaxLogs, logs : 0 .. MaxLogs,
              mjpg : BOOLEAN]
LogEntry == [type : SUBSET Types, seq : 0 .. MaxLogs, start : 0 .. MaxOff,
             stop : 0 .. MaxOff]
Record == [state : {"invalid", "init", "start", "write", "close"}, file : FileIds,
           off : 0 .. MaxOff, type : SUBSET Types]

TypeInv ==
    /\ base \in BaseBlock /\ using \in [Chans -> UsingEntry]
    /\ full \in [FileIds -> FullEntry] /\ log \in [Entries -> LogEntry]
    /\ lock \in Chans \cup {Nobody} /\ new \in [base : BaseBlock, using : UsingEntry]
    /\ pc \in [Chans -> Pcs] /\ rec \in [Chans -> Record]
    /\ listed \subseteq Chans /\ task \subseteq listed
    /\ starter \in Chans \cup {Nobody} /\ torn \in 0 .. MaxTorn

Shot(c) == IS_MJPG_TYPE(rec[c].type)

\* Where a channel can be, with what state of its recording.
PlaceOf(c) ==
    /\ lock = c <=> pc[c] \in Locked
    /\ starter = c => pc[c] \in Opening
    /\ pc[c] \in Opening => rec[c].state = "init"
    /\ pc[c] = "write" => rec[c].state = "start"
    /\ pc[c] \in Filling => rec[c].state \in {"start", "write"}
    /\ pc[c] # "idle" => c \in listed
    /\ c \notin listed => rec[c].state \in {"invalid", "close"}
    /\ pc[c] # "idle" \/ rec[c].state \in {"start", "write"} => MaxLogs > 0
    /\ pc[c] = "idle" /\ rec[c].state = "init" => using[c].id = NONE
    /\ pc[c] \in {"get", "index"} =>
         /\ using[c].logs < MaxLogs
         /\ starter # c => using[c].id = NONE
         /\ Shot(c) => using[c].logs + 1 < LOGS
    /\ rec[c].state = "init" /\ Shot(c) => 1 < LOGS

PlaceInv ==
    /\ \A c \in Chans : PlaceOf(c)
    /\ \A c, d \in Chans : pc[c] # "idle" /\ pc[d] # "idle" => c = d

\* The file in which channel c records, once it is chosen.
FileOf(c) == IF pc[c] = "using" THEN new.using.id ELSE using[c].id
Filled(c) == pc[c] \in {"using", "base", "full", "fill", "fillUsing"} \/ Open(c)

\* The index, whatever crashes.
GoodBase(b) == b.covered # NONE => b.used = FILES

GoodUsing(u) ==
    /\ u.recs <= u.logs
    /\ u.id = NONE => u = NotUsing
    /\ u.id = 0 \/ (u.id # NONE /\ ~u.mjpg) => u.logs > 0

IndexOf(c) ==
    /\ GoodUsing(using[c])
    /\ pc[c] = "index" =>
         /\ rec[c].file = NewFile(c)
         /\ using[c].id = NONE => base.used # FILES \/ OVERWRITE
    /\ pc[c] = "using" => using[c].id \in {NONE, new.using.id}
    /\ Filled(c) => FileOf(c) # NONE /\ FileOf(c) = rec[c].file
    /\ pc[c] = "fillUsing" => new.using = NotUsing
    /\ pc[c] = "fillBase" => using[c] = NotUsing
    /\ pc[c] \in {"fillUsing", "fillBase"} => new.base = [base EXCEPT !.full = FullSum]

IndexInv ==
    /\ GoodBase(base) /\ GoodBase(new.base) /\ GoodUsing(new.using)
    /\ \A c \in Chans : IndexOf(c)

\* Offsets: a recording goes on behind what the file holds.
Behind(f, logs, off) == \A i \in 0 .. logs - 1 : log[At(f, i)].stop <= off

OffsetOf(c) ==
    /\ pc[c] = "get" => \A i \in 0 .. using[c].logs - 1 :
                          log[At(using[c].id, i)].stop < MaxOff
    /\ pc[c] = "index" => Behind(using[c].id, using[c].logs, rec[c].off)
    /\ pc[c] = "using" /\ ~new.using.mjpg =>
         Behind(new.using.id, new.using.logs, rec[c].off)
    /\ (pc[c] \in {"base", "full"} \/ Open(c)) /\ ~using[c].mjpg =>
         Behind(using[c].id, using[c].logs, rec[c].off)
    /\ pc[c] \in {"index", "using", "base", "full"} \/ Open(c) => rec[c].off < MaxOff
    /\ pc[c] \in {"index", "using", "base", "full"} /\ starter # c => rec[c].off = 0
    /\ pc[c] = "write" => rec[c].off = 0

OffsetInv == \A c \in Chans : OffsetOf(c)

\* The file of the last opening, when there is one channel.
Last(f) == IF base.covered = NONE THEN base.used = f + 1 ELSE base.covered = f + 1

\* The update that an opening makes: it goes on with file f, or f is the next one
\* that was never used, or f is the next one to be covered.
Update(f) ==
    \/ /\ new.base = base /\ f < Number(base.used) /\ ~IsFull(f)
       /\ Alone => Last(f)
    \/ /\ base.used # FILES /\ f = Number(base.used) /\ ~IsFull(f)
       /\ new.base = [base EXCEPT !.used = f + 1]
    \/ /\ OVERWRITE /\ Alone /\ base.used = FILES /\ f = CoverFile /\ IsFull(f)
       /\ new.base = [base EXCEPT !.covered = f + 1, !.full = Dec(@)]

\* The files that were used are the first ones; one that is full is not in
\* use, but for the channel that changes it from the one to the other.
FilesOf(c) ==
    /\ pc[c] = "using" =>
         Update(new.using.id) /\ (using[c].id # NONE <=> new.base = base)
    /\ pc[c] = "base" => Update(using[c].id)
    /\ using[c].id \in FileIds /\ IsFull(using[c].id) =>
         \/ pc[c] = "fillUsing"
         \/ pc[c] \in {"base", "full"} /\ OVERWRITE
    /\ pc[c] = "full" /\ IsFull(using[c].id) => base.used = FILES
    /\ pc[c] = "fillUsing" => IsFull(using[c].id)
    /\ Alone /\ using[c].id # NONE /\ (pc[c] = "base" => new.base = base) =>
         Last(using[c].id)

Used(f) ==
    IsFull(f) \/ InUse(f) <=>
      \/ f < Number(base.used)
      \/ \E c \in Chans : pc[c] = "base" /\ using[c].id = f

FilesInv ==
    /\ \A f \in FileIds : Used(f)
    /\ \A c \in Chans : FilesOf(c)
    /\ OneChannelPerFile

\* The number of full files, as the base block has it after the update.
FullFiles == {f \in FileIds : IsFull(f)}
Covering == \E c \in Chans : pc[c] = "full" /\ IsFull(using[c].id)
FillingOne == \E c \in Chans : pc[c] \in {"fillUsing", "fillBase"}

CountInv ==
    Cardinality(FullFiles) =
      Number(base.full) + IF Covering \/ FillingOne THEN 1 ELSE 0

\* The logs of file f: every recording has one; they lie one behind the other
\* unless there is a shot among them.
Listing(f, recs, logs) ==
    /\ \A r \in 1 .. recs : \E i \in 0 .. logs - 1 :
         log[At(f, i)].seq = r /\ ~IS_MJPG_TYPE(log[At(f, i)].type)
    /\ \/ \E i \in 0 .. logs - 1 : IS_MJPG_TYPE(log[At(f, i)].type)
       \/ /\ logs > 0 /\ log[At(f, logs - 1)].seq = recs
          /\ \A i \in 0 .. logs - 1 : log[At(f, i)].seq <= recs
          /\ \A i, j \in 0 .. logs - 1 :
               log[At(f, i)].seq < log[At(f, j)].seq =>
                 log[At(f, i)].stop <= log[At(f, j)].start

ListOf(c) ==
    /\ pc[c] # "using" /\ using[c].id # NONE /\ ~using[c].mjpg =>
         Listing(using[c].id, using[c].recs, using[c].logs)
    /\ pc[c] = "using" /\ ~new.using.mjpg =>
         Listing(new.using.id, new.using.recs, new.using.logs)

Opened(f) == \E c \in Chans : pc[c] \in {"using", "base", "full"} /\ FileOf(c) = f

ListInv ==
    /\ \A c \in Chans : ListOf(c)
    /\ \A f \in FileIds : IsFull(f) /\ ~full[f].mjpg /\ ~Opened(f) =>
         Listing(f, full[f].recs, full[f].logs)

WholeInv == FilesInv /\ CountInv /\ ListInv

IInv == TypeInv /\ PlaceInv /\ IndexInv /\ OffsetInv /\ (torn = 0 => WholeInv)

-----------------------------------------------------------------------------
\* Numbers, and the places of log entries.

\* What is assumed of the constants.
LEMMA Numbers ==
  /\ FILES \in Nat /\ LOGS \in Nat /\ CAP \in Nat /\ NONE \in Nat /\ MaxTorn \in Nat
  /\ FILES > 0 /\ LOGS > 0 /\ CAP > 0 /\ NONE > 2 * FILES /\ NONE > FILES + 1
  /\ MaxLogs \in Nat /\ MaxOff \in Nat /\ MaxOff = CAP + MaxLogs
  /\ OVERWRITE \in BOOLEAN /\ OneOpener \in BOOLEAN
<1>1. MaxLogs \in Nat
  BY FileAssumption
<1> QED  BY <1>1, FileAssumption DEF MaxOff

\* Numbers of files are smaller than FILES, no name is in use for two things.
LEMMA Names ==
  /\ Nobody \notin Chans /\ NONE \notin FileIds /\ 0 \in FileIds
  /\ \A f \in FileIds : f \in Nat /\ f < FILES
  /\ \A n \in Nat : n < FILES => n \in FileIds
BY Numbers, FileAssumption DEF FileIds

\* A nonempty set of natural numbers has a least element, ...
LEMMA MinNat ==
  ASSUME NEW S \in SUBSET Nat, S # {}
  PROVE  Min(S) \in S /\ \A y \in S : Min(S) <= y
<1> DEFINE R == OpToRel(<, Nat)
<1>1. IsWellFoundedOn(R, Nat)
  BY NatLessThanWellFounded, Zenon
<1>2. PICK x \in S : \A y \in S : ~ (<<y, x>> \in R)
  <2> HIDE DEF R
  <2> QED  BY <1>1, WFMin
<1>3. \A y \in S : ~ (y < x)
  BY <1>2 DEF OpToRel
<1>4. \A y \in S : x <= y
  BY <1>3
<1> QED  BY <1>4 DEF Min

\* ... and one that is bounded a greatest.
LEMMA MaxNat ==
  ASSUME NEW n \in Nat, NEW S \in SUBSET (0 .. n), S # {}
  PROVE  Max(S) \in S /\ \A y \in S : y <= Max(S)
<1> DEFINE T == {n - y : y \in S}
<1>1. \A y \in S : y \in Nat /\ n - y \in Nat
  OBVIOUS
<1>2. T \in SUBSET Nat /\ T # {}
  BY <1>1
<1>3. Min(T) \in T /\ \A y \in T : Min(T) <= y
  <2> HIDE DEF T
  <2> QED  BY <1>2, MinNat
<1>4. PICK x \in S : Min(T) = n - x
  BY <1>3
<1>5. \A y \in S : n - y \in T
  OBVIOUS
<1> HIDE DEF T
<1>6. \A y \in S : n - x <= n - y
  BY <1>3, <1>4, <1>5
<1>7. \A y \in S : y <= x
  BY <1>1, <1>6
<1> QED  BY <1>7 DEF Max

\* The entries of two files are different ones.
LEMMA Place ==
  /\ \A f \in FileIds : \A i \in 0 .. LOGS : At(f, i) \in Entries
  /\ \A f, g \in FileIds : \A i, j \in 0 .. LOGS - 1 :
       At(f, i) = At(g, j) => f = g /\ i = j
<1>1. ASSUME NEW f \in FileIds, NEW i \in 0 .. LOGS
      PROVE  At(f, i) \in Entries
  <2>1. f \in Nat /\ f + 1 <= FILES /\ FILES - f - 1 \in Nat
    BY Names, Numbers
  <2>2. (FILES - f - 1) * LOGS \in Nat /\ f * LOGS \in Nat
    BY <2>1, Numbers
  <2>3. FILES * LOGS = (FILES - f - 1) * LOGS + f * LOGS + LOGS
    BY <2>1, Numbers
  <2>4. i \in Nat /\ i <= LOGS
    BY Numbers
  <2> DEFINE x == f * LOGS
             y == FILES * LOGS
             z == (FILES - f - 1) * LOGS
  <2> HIDE DEF x, y, z
  <2>5. x + i \in 0 .. y + 1
    BY <2>2, <2>3, <2>4, Numbers DEF x, y, z
  <2> QED  BY <2>5 DEF At, Entries, x, y
<1>2. ASSUME NEW f \in FileIds, NEW g \in FileIds, NEW i \in 0 .. LOGS - 1,
             NEW j \in 0 .. LOGS - 1, f < g
      PROVE  At(f, i) < At(g, j)
  <2>1. f \in Nat /\ g \in Nat /\ g - f - 1 \in Nat
    BY <1>2, Names
  <2>2. (g - f - 1) * LOGS \in Nat /\ f * LOGS \in Nat /\ g * LOGS \in Nat
    BY <2>1, Numbers
  <2>3. g * LOGS = (g - f - 1) * LOGS + f * LOGS + LOGS
    BY <2>1, Numbers
  <2> DEFINE x == f * LOGS
             y == g * LOGS
             z == (g - f - 1) * LOGS
  <2> HIDE DEF x, y, z
  <2>4. x + i < y + j
    BY <2>2, <2>3, Numbers DEF x, y, z
  <2> QED  BY <2>4 DEF At, x, y
<1>3. ASSUME NEW f \in FileIds, NEW i \in 0 .. LOGS - 1, NEW j \in 0 .. LOGS - 1,
             At(f, i) = At(f, j)
      PROVE  i = j
  <2>1. f * LOGS \in Nat
    BY Names, Numbers
  <2> QED  BY <1>3, <2>1, Numbers DEF At
<1>4. ASSUME NEW f \in FileIds, NEW i \in 0 .. LOGS
      PROVE  At(f, i) \in Int
  <2>1. f * LOGS \in Nat
    BY Names, Numbers
  <2> QED  BY <2>1, Numbers DEF At
<1>5. ASSUME NEW f \in FileIds, NEW g \in FileIds, NEW i \in 0 .. LOGS - 1,
             NEW j \in 0 .. LOGS - 1, At(f, i) = At(g, j)
      PROVE  f = g
  <2>1. ~ (f < g) /\ ~ (g < f)
    <3>1. At(f, i) \in Int /\ At(g, j) \in Int
      BY <1>4, Numbers
    <3> QED  BY <1>2, <1>5, <3>1
  <2> QED  BY <2>1, Names
<1> QED  BY <1>1, <1>3, <1>5

\* The successor and the predecessor of a number that has them.
LEMMA Succ ==
  ASSUME NEW n \in 0 .. NONE
  PROVE  /\ Inc(n) \in 0 .. NONE /\ Dec(n) \in 0 .. NONE
         /\ n < NONE => Inc(n) = n + 1
         /\ n > 0 => Dec(n) = n - 1
         /\ Dec(n) # n
<1>1. \A k, m \in Nat : m > 0 => k % m \in 0 .. m - 1
  OBVIOUS
<1>2. n < NONE => (n + 1) % (NONE + 1) = n + 1
  BY Numbers
<1>3. n > 0 => (n + NONE) % (NONE + 1) = n - 1
  BY Numbers
<1>4. n = 0 => (n + NONE) % (NONE + 1) = NONE
  BY Numbers
<1>5. Inc(n) \in 0 .. NONE /\ Dec(n) \in 0 .. NONE
  <2>1. n + 1 \in Nat /\ n + NONE \in Nat /\ NONE + 1 \in Nat /\ NONE + 1 > 0
    BY Numbers
  <2>2. (n + 1) % (NONE + 1) \in 0 .. (NONE + 1) - 1
    BY <1>1, <2>1
  <2>3. (n + NONE) % (NONE + 1) \in 0 .. (NONE + 1) - 1
    BY <1>1, <2>1
  <2> QED  BY <2>2, <2>3, Numbers DEF Inc, Dec
<1>6. n = 0 \/ n > 0
  OBVIOUS
<1> QED  BY <1>2, <1>3, <1>4, <1>5, <1>6, Numbers DEF Inc, Dec

-----------------------------------------------------------------------------
\* What the operators return.

\* What the parts of each variable are.
LEMMA Fields ==
  ASSUME TypeInv
  PROVE  /\ base.used \in (1 .. FILES) \cup {NONE} /\ base.full \in 0 .. NONE
         /\ base.covered \in (1 .. FILES) \cup {NONE} /\ base \in BaseBlock
         /\ new.base \in BaseBlock /\ new.using \in UsingEntry
         /\ new.using.id \in FileIds \cup {NONE}
         /\ \A c \in Chans :
              /\ using[c] \in UsingEntry /\ using[c].id \in FileIds \cup {NONE}
              /\ using[c].recs \in 0 .. MaxLogs /\ using[c].logs \in 0 .. MaxLogs
              /\ using[c].mjpg \in BOOLEAN
              /\ rec[c] \in Record /\ rec[c].file \in FileIds
              /\ rec[c].off \in 0 .. MaxOff /\ rec[c].type \in SUBSET Types
         /\ \A e \in Entries :
              /\ log[e] \in LogEntry /\ log[e].type \in SUBSET Types
              /\ log[e].seq \in 0 .. MaxLogs /\ log[e].start \in 0 .. MaxOff
              /\ log[e].stop \in 0 .. MaxOff
<1>1. \A c \in Chans : using[c] \in UsingEntry /\ rec[c] \in Record
  BY DEF TypeInv
<1>2. \A e \in Entries : log[e] \in LogEntry
  BY DEF TypeInv
<1>3. \A u \in UsingEntry : /\ u.id \in FileIds \cup {NONE} /\ u.recs \in 0 .. MaxLogs
                            /\ u.logs \in 0 .. MaxLogs /\ u.mjpg \in BOOLEAN
  BY DEF UsingEntry
<1>4. \A r \in Record : /\ r.file \in FileIds /\ r.off \in 0 .. MaxOff
                        /\ r.type \in SUBSET Types
  BY DEF Record
<1>5. \A l \in LogEntry : /\ l.type \in SUBSET Types /\ l.seq \in 0 .. MaxLogs
                          /\ l.start \in 0 .. MaxOff /\ l.stop \in 0 .. MaxOff
  BY DEF LogEntry
<1>6. base \in BaseBlock /\ new.base \in BaseBlock /\ new.using \in UsingEntry
  BY DEF TypeInv
<1>7. \A b \in BaseBlock : /\ b.used \in (1 .. FILES) \cup {NONE} /\ b.full \in 0 .. NONE
                           /\ b.covered \in (1 .. FILES) \cup {NONE}
  BY DEF BaseBlock
<1> QED  BY <1>1, <1>2, <1>3, <1>4, <1>5, <1>6, <1>7

\* The file that is chosen is one of the disk's, and both times the same.
LEMMA Chosen ==
  ASSUME TypeInv, GoodBase(base), NEW c \in Chans
  PROVE  /\ CoverFile \in FileIds /\ NewFile(c) \in FileIds
         /\ DataFile(c) = NewFile(c)
<1>1. /\ base.used \in (1 .. FILES) \cup {NONE} /\ base.covered \in (1 .. FILES) \cup {NONE}
      /\ using[c].id \in FileIds \cup {NONE}
  BY Fields
<1>2. CoverFile \in FileIds
  BY <1>1, Names, Numbers DEF CoverFile
<1>3. NewFile(c) \in FileIds
  BY <1>1, <1>2, Names, Numbers DEF NewFile
<1>4. DataFile(c) = NewFile(c)
  BY <1>1, Numbers DEF NewFile, DataFile, GoodBase
<1> QED  BY <1>2, <1>3, <1>4

\* A channel's log entries are in its file, and not in another.
LEMMA InFile ==
  ASSUME TypeInv, MaxLogs <= LOGS, NEW c \in Chans, using[c].id # NONE
  PROVE  /\ using[c].id \in FileIds
         /\ \A i \in 0 .. using[c].logs - 1 :
              i \in 0 .. LOGS - 1 /\ At(using[c].id, i) \in Counted(c)
         /\ Counted(c) \subseteq Entries
         /\ \A f \in FileIds : \A i \in 0 .. LOGS - 1 :
              At(f, i) \in Counted(c) =>
                f = using[c].id /\ i \in 0 .. using[c].logs - 1
<1>1. using[c].id \in FileIds /\ using[c].logs \in 0 .. MaxLogs
  BY Fields
<1>2. \A i \in 0 .. using[c].logs - 1 : i \in 0 .. LOGS - 1 /\ i \in 0 .. LOGS
  BY <1>1, Numbers
<1>3. \A e \in Counted(c) : \E i \in 0 .. using[c].logs - 1 : e = At(using[c].id, i)
  BY DEF Counted
<1>4. \A i \in 0 .. using[c].logs - 1 : At(using[c].id, i) \in Counted(c)
  BY DEF Counted
<1>5. Counted(c) \subseteq Entries
  BY <1>1, <1>2, <1>3, Place
<1>6. ASSUME NEW f \in FileIds, NEW i \in 0 .. LOGS - 1, At(f, i) \in Counted(c)
      PROVE  f = using[c].id /\ i \in 0 .. using[c].logs - 1
  <2>1. PICK j \in 0 .. using[c].logs - 1 : At(f, i) = At(using[c].id, j)
    BY <1>3, <1>6
  <2>2. f = using[c].id /\ i = j
    BY <1>1, <1>2, <2>1, Place
  <2> QED  BY <2>1, <2>2
<1> QED  BY <1>1, <1>2, <1>4, <1>5, <1>6

\* A file is filled behind all its logs.
LEMMA BehindAll ==
  ASSUME TypeInv, MaxLogs <= LOGS, NEW c \in Chans
  PROVE  /\ StartOffset(c) \in 0 .. MaxOff
         /\ using[c].id = NONE => StartOffset(c) = 0
         /\ \/ StartOffset(c) = 0
            \/ \E i \in 0 .. using[c].logs - 1 :
                 StartOffset(c) = log[At(using[c].id, i)].stop
         /\ using[c].id # NONE =>
              \A i \in 0 .. using[c].logs - 1 :
                log[At(using[c].id, i)].stop <= StartOffset(c)
<1>1. CASE using[c].id = NONE
  BY <1>1, Numbers DEF StartOffset
<1>2. CASE using[c].id # NONE
  <2> DEFINE S == {0} \cup {log[e].stop : e \in Counted(c)}
  <2>1. \A e \in Counted(c) : log[e].stop \in 0 .. MaxOff
    BY <1>2, InFile, Fields
  <2>2. S \in SUBSET (0 .. MaxOff) /\ S # {}
    BY <2>1, Numbers
  <2>3. \A i \in 0 .. using[c].logs - 1 : log[At(using[c].id, i)].stop \in S
    BY <1>2, InFile
  <2>4. StartOffset(c) = Max(S)
    BY <1>2 DEF StartOffset
  <2>5. \A x \in S : \/ x = 0
                    \/ \E i \in 0 .. using[c].logs - 1 : x = log[At(using[c].id, i)].stop
    BY DEF Counted
  <2> HIDE DEF S
  <2>6. Max(S) \in S /\ \A y \in S : y <= Max(S)
    BY <2>2, MaxNat, Numbers
  <2> QED  BY <1>2, <2>2, <2>3, <2>4, <2>5, <2>6
<1> QED  BY <1>1, <1>2

\* What the stamp of a frame or a tail changes.
LEMMA Stamps ==
  ASSUME TypeInv, MaxLogs <= LOGS, NEW c \in Chans, NEW off \in 0 .. MaxOff
  PROVE  /\ Stamped(c, off) \in [Entries -> LogEntry]
         /\ \A e \in Entries :
              /\ Stamped(c, off)[e].type = log[e].type
              /\ Stamped(c, off)[e].seq = log[e].seq
              /\ Stamped(c, off)[e].start = log[e].start
              /\ Stamped(c, off)[e].stop \in {log[e].stop, off}
              /\ using[c].id = NONE \/ e \notin Counted(c) =>
                   Stamped(c, off)[e] = log[e]
              /\ log[e].seq # using[c].recs /\ ~IS_MJPG_TYPE(log[e].type) =>
                   Stamped(c, off)[e] = log[e]
<1> DEFINE new1(e) == [log[e] EXCEPT !.stop = off]
           s == Stamped(c, off)
<1>1. \A l \in LogEntry :
        /\ [l EXCEPT !.stop = off] \in LogEntry
        /\ [l EXCEPT !.stop = off].type = l.type
        /\ [l EXCEPT !.stop = off].seq = l.seq
        /\ [l EXCEPT !.stop = off].start = l.start
        /\ [l EXCEPT !.stop = off].stop = off
  BY DEF LogEntry
<1>2. \A e \in Entries : log[e] \in LogEntry
  BY Fields
<1>3. \A e \in Entries : s[e] = log[e] \/ s[e] = new1(e)
  BY DEF Stamped
<1>4. \A e \in Entries :
        /\ using[c].id = NONE \/ e \notin Counted(c) => s[e] = log[e]
        /\ log[e].seq # using[c].recs /\ ~IS_MJPG_TYPE(log[e].type) => s[e] = log[e]
  BY DEF Stamped
<1>5. s = [e \in Entries |-> s[e]]
  BY DEF Stamped
<1> HIDE DEF s
<1>6. \A e \in Entries : s[e] \in LogEntry
  BY <1>1, <1>2, <1>3
<1>7. s \in [Entries -> LogEntry]
  BY <1>5, <1>6
<1>8. \A e \in Entries : /\ s[e].type = log[e].type /\ s[e].seq = log[e].seq
                         /\ s[e].start = log[e].start /\ s[e].stop \in {log[e].stop, off}
  <2> TAKE e \in Entries
  <2>1. log[e] \in LogEntry
    BY <1>2
  <2>2. CASE s[e] = log[e]
    BY <2>2
  <2>3. CASE s[e] = new1(e)
    <3> DEFINE l == log[e]
    <3> HIDE DEF l
    <3>1. l \in LogEntry /\ s[e] = [l EXCEPT !.stop = off]
      BY <2>1, <2>3 DEF l
    <3>2. s[e].type = l.type /\ s[e].seq = l.seq /\ s[e].start = l.start /\ s[e].stop = off
      BY <1>1, <3>1
    <3> QED  BY <3>2 DEF l
  <2> QED  BY <1>3, <2>2, <2>3
<1> QED  BY <1>4, <1>7, <1>8 DEF s

\* The entries that the opening of a file writes.
LEMMA NextUsing ==
  ASSUME TypeInv, GoodBase(base), MaxLogs <= LOGS, NEW c \in Chans, GoodUsing(using[c]),
         using[c].logs < MaxLogs
  PROVE  LET u == NewUsing(c, Shot(c)) IN
         /\ u \in UsingEntry /\ GoodUsing(u) /\ u.id = NewFile(c) /\ u.id # NONE
         /\ u.mjpg <=> using[c].mjpg \/ Shot(c)
         /\ ~Shot(c) => u.recs = using[c].recs + 1 /\ u.logs = using[c].logs + 1
<1> DEFINE u == NewUsing(c, Shot(c))
           v == using[c]
<1>1. /\ v.id \in FileIds \cup {NONE} /\ v.recs \in 0 .. MaxLogs /\ v.logs \in 0 .. MaxLogs
      /\ v.mjpg \in BOOLEAN /\ Shot(c) \in BOOLEAN
  BY Fields DEF Shot, IS_MJPG_TYPE
<1>2. NewFile(c) \in FileIds /\ NewFile(c) # NONE
  BY Chosen, Names
<1>3. /\ u.id = NewFile(c) /\ u.recs = v.recs + (IF Shot(c) THEN 0 ELSE 1)
      /\ u.logs = IF ~Shot(c) THEN v.logs + 1 ELSE IF Begins(c) THEN 1 ELSE v.logs
      /\ u.mjpg = (v.mjpg \/ Shot(c))
  BY DEF NewUsing
<1>4. v.recs <= v.logs /\ (v.id = NONE => v.recs = 0 /\ v.logs = 0)
  BY DEF GoodUsing, NotUsing
<1>5. Begins(c) => v.id = NONE
  BY DEF Begins
<1>6. u \in UsingEntry
  BY <1>1, <1>2, <1>4, <1>5, Numbers DEF NewUsing, UsingEntry
<1>7. u.recs <= u.logs
  BY <1>1, <1>3, <1>4, <1>5, Numbers
<1>8. ~u.mjpg => u.logs > 0
  BY <1>1, <1>3, Numbers
<1>9. u.id = 0 => u.logs > 0
  <2>1. ASSUME NewFile(c) = 0 PROVE Begins(c) \/ v.id = 0
    BY <2>1, Fields, Names, Numbers DEF NewFile, Begins
  <2>2. v.id = 0 => v.logs > 0
    BY DEF GoodUsing
  <2> QED  BY <1>1, <1>3, <2>1, <2>2, Numbers
<1>10. GoodUsing(u)
  <2> HIDE DEF u
  <2> QED  BY <1>2, <1>3, <1>7, <1>8, <1>9 DEF GoodUsing
<1>11. ~Shot(c) => u.recs = v.recs + 1 /\ u.logs = v.logs + 1
  BY <1>3, <1>1, Numbers
<1> QED  BY <1>2, <1>3, <1>6, <1>10, <1>11

\* So is the base block.
LEMMA NextBase ==
  ASSUME TypeInv, GoodBase(base), NEW c \in Chans
  PROVE  NewBase(c) \in BaseBlock /\ GoodBase(NewBase(c))
<1>1. /\ base.used \in (1 .. FILES) \cup {NONE} /\ base.full \in 0 .. NONE
      /\ base.covered \in (1 .. FILES) \cup {NONE} /\ base \in BaseBlock
  BY Fields
<1>2. CASE using[c].id # NONE
  BY <1>1, <1>2 DEF NewBase
<1>3. CASE using[c].id = NONE /\ Covers(c)
  <2>1. CoverFile \in FileIds
    BY Chosen
  <2>2. CoverFile + 1 \in 1 .. FILES /\ CoverFile + 1 # NONE
    BY <2>1, Names, Numbers
  <2>3. Dec(base.full) \in 0 .. NONE
    BY <1>1, Succ
  <2>4. NewBase(c) = [base EXCEPT !.covered = CoverFile + 1, !.full = Dec(@)]
    BY <1>3 DEF NewBase
  <2>5. base.used = FILES
    BY <1>3 DEF Covers
  <2> HIDE DEF CoverFile
  <2>6. NewBase(c) \in BaseBlock
    BY <1>1, <2>2, <2>3, <2>4 DEF BaseBlock
  <2>7. NewBase(c).used = FILES
    BY <1>1, <2>4, <2>5 DEF BaseBlock
  <2> QED  BY <2>6, <2>7 DEF GoodBase
<1>4. CASE using[c].id = NONE /\ ~Covers(c)
  <2> DEFINE n == IF base.used = NONE THEN 1 ELSE base.used + 1
  <2>1. n \in 1 .. FILES
    BY <1>1, <1>4, Numbers DEF Covers
  <2>2. base.covered = NONE
    BY <1>1, <1>4 DEF Covers, GoodBase
  <2>3. NewBase(c) = [base EXCEPT !.used = n]
    BY <1>4 DEF NewBase
  <2> HIDE DEF n
  <2>4. NewBase(c) \in BaseBlock
    BY <1>1, <2>1, <2>3 DEF BaseBlock
  <2>5. NewBase(c).covered = NONE
    BY <1>1, <2>2, <2>3 DEF BaseBlock
  <2> QED  BY <2>4, <2>5 DEF GoodBase
<1> QED  BY <1>2, <1>3, <1>4

\* Where the log of a recording goes, and what it says.
LEMMA NextLog ==
  ASSUME TypeInv, GoodBase(base), MaxLogs <= LOGS, NEW c \in Chans, GoodUsing(using[c]),
         using[c].logs < MaxLogs, Shot(c) => using[c].logs + 1 < LOGS
  PROVE  /\ RecID(c, Shot(c)) \in 0 .. LOGS - 1
         /\ NewLog(c, Shot(c)) \in LogEntry
         /\ ~Shot(c) => /\ RecID(c, Shot(c)) = using[c].logs
                        /\ NewLog(c, Shot(c)).type = rec[c].type
                        /\ NewLog(c, Shot(c)).seq = using[c].recs + 1
                        /\ NewLog(c, Shot(c)).start = rec[c].off
                        /\ NewLog(c, Shot(c)).stop = rec[c].off
<1> DEFINE v == using[c]
<1>1. /\ v.id \in FileIds \cup {NONE} /\ v.recs \in 0 .. MaxLogs /\ v.logs \in 0 .. MaxLogs
      /\ v.mjpg \in BOOLEAN /\ Shot(c) \in BOOLEAN
  BY Fields DEF Shot, IS_MJPG_TYPE
<1>2. v.id = NONE => v.logs = 0
  BY DEF GoodUsing, NotUsing
<1>3. ShotLog(c) # {} => Min(ShotLog(c)) \in 0 .. v.logs - 1
  <2>1. ShotLog(c) \in SUBSET (0 .. v.logs - 1)
    BY DEF ShotLog
  <2>2. ShotLog(c) \in SUBSET Nat
    BY <1>1, <2>1, Numbers
  <2> QED  BY <2>1, <2>2, MinNat
<1>4. RecID(c, Shot(c)) \in 0 .. LOGS - 1
  BY <1>1, <1>3, Numbers DEF RecID
<1>5. OldShot(c) \in LogEntry
  <2>1. NoLog \in LogEntry
    BY Numbers DEF NoLog, LogEntry
  <2>2. CASE v.id = NONE
    BY <1>1, <1>2, <1>3, <2>1, <2>2, Numbers DEF OldShot
  <2>3. CASE v.id # NONE
    <3>1. \A i \in 0 .. v.logs - 1 : At(v.id, i) \in Entries
      BY <2>3, InFile
    <3>2. \A i \in 0 .. v.logs - 1 : log[At(v.id, i)] \in LogEntry
      BY <3>1, Fields
    <3>3. v.logs # 0 => v.logs - 1 \in 0 .. v.logs - 1
      BY <1>1, Numbers
    <3> QED  BY <1>3, <2>1, <3>2, <3>3 DEF OldShot
  <2> QED  BY <2>2, <2>3
<1>6. /\ OldShot(c).type \in SUBSET Types /\ OldShot(c).start \in 0 .. MaxOff
      /\ rec[c].type \in SUBSET Types /\ rec[c].off \in 0 .. MaxOff
  BY <1>5, Fields DEF LogEntry
<1>7. NewUsing(c, Shot(c)).recs \in 0 .. MaxLogs
  BY NextUsing DEF UsingEntry
<1>8. NewLog(c, Shot(c)) \in LogEntry
  BY <1>6, <1>7 DEF NewLog, LogEntry
<1>9. ~Shot(c) => RecID(c, Shot(c)) = v.logs
  BY DEF RecID
<1>10. ASSUME ~Shot(c)
       PROVE  /\ NewLog(c, Shot(c)).type = rec[c].type
              /\ NewLog(c, Shot(c)).seq = v.recs + 1
              /\ NewLog(c, Shot(c)).start = rec[c].off
              /\ NewLog(c, Shot(c)).stop = rec[c].off
  <2>1. NewUsing(c, Shot(c)).recs = v.recs + 1
    BY <1>10, NextUsing
  <2> QED  BY <1>10, <2>1 DEF NewLog
<1> QED  BY <1>4, <1>8, <1>9, <1>10

-----------------------------------------------------------------------------
\* One step.

\* What a step of channel c is.
Act(c) ==
    \/ \E t \in Types : Start(c, t) \/ AddIndexRecLog(c, t)
    \/ GetDataFile(c) \/ OpenFails(c) \/ UpdateFileIndex(c)
    \/ WriteIndexUsing(c) \/ WriteIndexBase(c) \/ WriteIndexFull(c)
    \/ Frame(c) \/ SwitchFile(c) \/ UpdateFull(c) \/ FullUsing(c)
    \/ FullBase(c) \/ Stop(c) \/ WriteFails(c)

\* Every step is a channel's, or a crash.
LEMMA Steps ==
  ASSUME Next
  PROVE  (\E c \in Chans : Act(c)) \/ Crash
BY Zenon DEF Next, Act

\* Only a crash tears an update.
LEMMA NotTorn ==
  ASSUME NEW c \in Chans, Act(c)
  PROVE  torn' = torn
BY DEF Act, Start, AddIndexRecLog, GetDataFile, OpenFails, UpdateFileIndex, WriteIndexUsing,
       WriteIndexBase, WriteIndexFull, Frame, SwitchFile, UpdateFull, FullUsing, FullBase,
       Stop, WriteFails

\* It leaves the other channels alone.
LEMMA Others ==
  ASSUME TypeInv, NEW c \in Chans, Act(c)
  PROVE  \A d \in Chans : d # c =>
           pc'[d] = pc[d] /\ rec'[d] = rec[d] /\ using'[d] = using[d]
<1>1. /\ DOMAIN pc = Chans /\ DOMAIN rec = Chans /\ DOMAIN using = Chans
  BY DEF TypeInv
<1> SUFFICES ASSUME NEW d \in Chans, d # c
             PROVE  /\ pc'[d] = pc[d] /\ rec'[d] = rec[d] /\ using'[d] = using[d]
  OBVIOUS
<1>2. ASSUME NEW t \in Types, Start(c, t)
      PROVE  pc'[d] = pc[d] /\ rec'[d] = rec[d] /\ using'[d] = using[d]
  <2>1. pc'[d] = pc[d]
    BY <1>1, <1>2 DEF Start
  <2>2. rec'[d] = rec[d]
    BY <1>1, <1>2 DEF Start
  <2> QED  BY <1>2, <2>1, <2>2 DEF Start, index
<1>3. ASSUME NEW t \in Types, AddIndexRecLog(c, t)
      PROVE  pc'[d] = pc[d] /\ rec'[d] = rec[d] /\ using'[d] = using[d]
  BY <1>1, <1>3 DEF AddIndexRecLog
<1>4. CASE GetDataFile(c)
  BY <1>1, <1>4 DEF GetDataFile, index
<1>5. CASE OpenFails(c)
  BY <1>1, <1>5 DEF OpenFails, index
<1>6. CASE UpdateFileIndex(c)
  BY <1>1, <1>6 DEF UpdateFileIndex
<1>7. CASE WriteIndexUsing(c)
  BY <1>1, <1>7 DEF WriteIndexUsing
<1>8. CASE WriteIndexBase(c)
  BY <1>1, <1>8 DEF WriteIndexBase
<1>9. CASE WriteIndexFull(c)
  BY <1>1, <1>9 DEF WriteIndexFull
<1>10. CASE Frame(c)
  BY <1>1, <1>10 DEF Frame
<1>11. CASE SwitchFile(c)
  BY <1>1, <1>11 DEF SwitchFile
<1>12. CASE UpdateFull(c)
  BY <1>1, <1>12 DEF UpdateFull
<1>13. CASE FullUsing(c)
  BY <1>1, <1>13 DEF FullUsing
<1>14. CASE FullBase(c)
  BY <1>1, <1>14 DEF FullBase
<1>15. CASE Stop(c)
  BY <1>1, <1>15 DEF Stop
<1>16. CASE WriteFails(c)
  BY <1>1, <1>16 DEF WriteFails, index
<1> QED  BY <1>2, <1>3, <1>4, <1>5, <1>6, <1>7, <1>8, <1>9, <1>10, <1>11, <1>12, <1>13,
            <1>14, <1>15, <1>16 DEF Act

\* What is needed of the whole invariant for the state of a recording.
LEMMA Offsets ==
  ASSUME IInv, NEW c \in Chans
  PROVE  /\ Recording(c) /\ pc[c] = "write" => rec[c].off + 1 \in 0 .. MaxOff
         /\ Open(c) => rec[c].off + 1 \in 0 .. MaxOff
<1>1. OffsetOf(c) /\ PlaceOf(c) /\ rec[c].off \in 0 .. MaxOff
  BY Fields DEF IInv, OffsetInv, PlaceInv
<1>2. Open(c) => rec[c].off < MaxOff
  BY <1>1 DEF OffsetOf
<1>3. Recording(c) /\ pc[c] = "write" => Open(c)
  BY DEF Recording, Open
<1> QED  BY <1>1, <1>2, <1>3, Numbers

\* A field of a record is changed.
LEMMA Updated ==
  /\ \A r \in Record, f \in FileIds, n \in 0 .. MaxOff :
       [r EXCEPT !.file = f, !.off = n] \in Record
  /\ \A r \in Record : \A n \in 0 .. MaxOff : [r EXCEPT !.off = n] \in Record
  /\ \A r \in Record : \A s \in {"invalid", "init", "start", "write", "close"} :
       [r EXCEPT !.state = s] \in Record
  /\ \A r \in Record : \A t \in Types : [r EXCEPT !.type = @ \cup {t}] \in Record
  /\ Fresh \in Record
  /\ NotUsing \in UsingEntry /\ NotFull \in FullEntry /\ NoCopy.base \in BaseBlock
  /\ NoCopy.using \in UsingEntry
<1>1. Fresh \in Record /\ NotUsing \in UsingEntry /\ NotFull \in FullEntry
  BY Numbers, Names DEF Fresh, NotUsing, NotFull, Record, UsingEntry, FullEntry
<1>2. NoCopy.base \in BaseBlock /\ NoCopy.using \in UsingEntry
  BY <1>1, Numbers DEF NoCopy, BaseBlock
<1> QED  BY <1>1, <1>2 DEF Record

\* A channel's step keeps the types, ...
LEMMA TypeStep ==
  ASSUME Exclusive, IInv, NEW c \in Chans, Act(c)
  PROVE  TypeInv'
<1>1. TypeInv /\ PlaceOf(c) /\ IndexInv /\ IndexOf(c) /\ MaxLogs <= LOGS
  BY DEF IInv, PlaceInv, IndexInv, Exclusive
<1>2. /\ base \in BaseBlock /\ using \in [Chans -> UsingEntry]
      /\ full \in [FileIds -> FullEntry] /\ log \in [Entries -> LogEntry]
      /\ lock \in Chans \cup {Nobody} /\ new \in [base : BaseBlock, using : UsingEntry]
      /\ pc \in [Chans -> Pcs] /\ rec \in [Chans -> Record]
      /\ listed \subseteq Chans /\ task \subseteq listed
      /\ starter \in Chans \cup {Nobody} /\ torn \in 0 .. MaxTorn
  BY <1>1 DEF TypeInv
<1>3. rec[c] \in Record /\ rec[c].off \in 0 .. MaxOff /\ using[c] \in UsingEntry
  BY <1>1, Fields
<1>4. GoodBase(base) /\ GoodUsing(using[c])
  BY <1>1 DEF IndexInv, IndexOf
<1>5. NoCopy \in [base : BaseBlock, using : UsingEntry]
  BY Updated DEF NoCopy
<1>6. ASSUME NEW t \in Types, Start(c, t) PROVE TypeInv'
  <2>1. [rec[c] EXCEPT !.state = "init"] \in Record /\ [Fresh EXCEPT !.state = "init"] \in Record
    BY <1>3, Updated
  <2>2. Reset(c) \in Record
    BY <1>3, <2>1 DEF Reset
  <2>3. [Reset(c) EXCEPT !.type = @ \cup {t}] \in Record
    BY <2>2, Updated
  <2> HIDE DEF Reset
  <2>4. rec' \in [Chans -> Record]
    BY <1>2, <1>6, <2>3 DEF Start
  <2>5. /\ base' = base /\ using' = using /\ full' = full /\ log' = log /\ lock' = lock
        /\ new' = new /\ torn' = torn
    BY <1>6 DEF Start, index
  <2>6. listed' \subseteq Chans /\ task' \subseteq listed' /\ starter' \in Chans \cup {Nobody}
    BY <1>2, <1>6 DEF Start
  <2>7. pc' \in [Chans -> Pcs]
    BY <1>2, <1>6 DEF Start, Pcs
  <2> QED  BY <1>2, <2>4, <2>5, <2>6, <2>7 DEF TypeInv
<1>7. ASSUME NEW t \in Types, AddIndexRecLog(c, t) PROVE TypeInv'
  <2>1. Open(c) /\ using[c].id # NONE
    <3>1. Open(c)
      BY <1>1, <1>7 DEF AddIndexRecLog, Reset, Fresh, Open, PlaceOf
    <3> QED  BY <1>1, <3>1 DEF IndexOf, Filled, FileOf, Open
  <2>2. /\ using[c].id \in FileIds /\ using[c].logs \in 0 .. MaxLogs
        /\ using[c].logs < MaxLogs
    BY <1>1, <1>7, <2>1, Fields DEF AddIndexRecLog, MayLog
  <2>3. lock' = Nobody /\ using[c].logs + 1 \in 0 .. MaxLogs
    BY <1>1, <1>7, <2>2, Numbers DEF AddIndexRecLog
  <2>4. At(using[c].id, using[c].logs - 1) \in Entries
    <3>1. CASE using[c].logs > 0
      <4>1. using[c].logs - 1 \in 0 .. LOGS
        BY <1>1, <2>2, <3>1, Numbers
      <4> QED  BY <2>2, <4>1, Place
    <3>2. CASE using[c].logs = 0
      <4>1. using[c].id # 0
        BY <1>4, <3>2 DEF GoodUsing
      <4>2. using[c].id - 1 \in FileIds /\ using[c].id \in Nat
        <5>1. using[c].id \in Nat /\ using[c].id < FILES
          BY <2>2, Names
        <5>2. using[c].id - 1 \in Nat /\ using[c].id - 1 < FILES
          BY <4>1, <5>1, Numbers
        <5> QED  BY <5>1, <5>2, Names
      <4>3. At(using[c].id, -1) = At(using[c].id - 1, LOGS - 1)
        BY <4>2, Numbers DEF At
      <4>4. LOGS - 1 \in 0 .. LOGS
        BY Numbers
      <4>5. At(using[c].id - 1, LOGS - 1) \in Entries
        BY <4>2, <4>4, Place
      <4> QED  BY <3>2, <4>3, <4>5
    <3> QED  BY <2>2, <3>1, <3>2, Numbers
  <2> DEFINE l == log[At(using[c].id, using[c].logs - 1)]
  <2>5. l \in LogEntry
    BY <1>2, <2>4
  <2>6. [l EXCEPT !.type = {t}, !.start = rec[c].off] \in LogEntry
    <3> HIDE DEF l
    <3>1. {t} \in SUBSET Types
      OBVIOUS
    <3> QED  BY <1>3, <2>5, <3>1 DEF LogEntry
  <2>7. log' \in [Entries -> LogEntry]
    <3> DEFINE m == [l EXCEPT !.type = {t}, !.start = rec[c].off]
    <3>1. log' = [log EXCEPT ![At(using[c].id, using[c].logs)] = m]
      BY <1>7 DEF AddIndexRecLog
    <3> HIDE DEF m
    <3> QED  BY <1>2, <2>6, <3>1 DEF m
  <2>8. using' \in [Chans -> UsingEntry]
    <3> DEFINE v == using[c]
    <3>1. using' = [using EXCEPT ![c] = [v EXCEPT !.logs = v.logs + 1]]
      <4>1. ~(v.logs + 1 > LOGS)
        BY <1>1, <2>2, Numbers
      <4>2. using' = [using EXCEPT ![c] = [v EXCEPT !.logs =
                        IF v.logs + 1 > LOGS THEN v.logs ELSE v.logs + 1]]
        BY <1>2, <1>7 DEF AddIndexRecLog
      <4> QED  BY <4>1, <4>2
    <3>2. [v EXCEPT !.logs = v.logs + 1] \in UsingEntry
      <4> HIDE DEF v
      <4>1. v \in UsingEntry /\ v.logs + 1 \in 0 .. MaxLogs
        BY <1>3, <2>3 DEF v
      <4> QED  BY <4>1 DEF UsingEntry
    <3> QED  BY <1>2, <3>1, <3>2
  <2>9. rec' \in [Chans -> Record]
    <3>1. [rec[c] EXCEPT !.type = @ \cup {t}] \in Record
      BY <1>3, Updated
    <3>2. rec' = [rec EXCEPT ![c] = [rec[c] EXCEPT !.type = @ \cup {t}]]
      BY <1>2, <1>7 DEF AddIndexRecLog
    <3> QED  BY <1>2, <3>1, <3>2
  <2>10. /\ base' = base /\ full' = full /\ new' = new /\ torn' = torn /\ pc' = pc
         /\ listed' = listed /\ starter' = starter /\ task' = task \cup {c} /\ c \in listed
    <3>1. c \in listed
      BY <1>7, <1>1, <2>1 DEF AddIndexRecLog, PlaceOf, Open
    <3> QED  BY <1>7, <3>1 DEF AddIndexRecLog
  <2> QED  BY <1>2, <2>3, <2>7, <2>8, <2>9, <2>10 DEF TypeInv
<1>8. ASSUME GetDataFile(c) PROVE TypeInv'
  <2>1. DataFile(c) \in FileIds /\ StartOffset(c) \in 0 .. MaxOff
    BY <1>1, <1>4, Chosen, BehindAll
  <2>2. [rec[c] EXCEPT !.file = DataFile(c), !.off = StartOffset(c)] \in Record
    BY <1>3, <2>1, Updated
  <2>3. rec' = [rec EXCEPT ![c] = [rec[c] EXCEPT !.file = DataFile(c), !.off = StartOffset(c)]]
    BY <1>2, <1>8 DEF GetDataFile
  <2>4. rec' \in [Chans -> Record]
    BY <1>2, <2>2, <2>3
  <2> QED  BY <1>2, <1>8, <2>4 DEF GetDataFile, index, TypeInv, Pcs
<1>9. ASSUME OpenFails(c) PROVE TypeInv'
  BY <1>2, <1>9 DEF OpenFails, EndOpen, index, TypeInv, Pcs
<1>10. ASSUME UpdateFileIndex(c) PROVE TypeInv'
  <2>1. using[c].logs < MaxLogs /\ (Shot(c) => using[c].logs + 1 < LOGS)
    BY <1>1, <1>10 DEF PlaceOf, UpdateFileIndex
  <2>2. NewUsing(c, Shot(c)) \in UsingEntry
    BY <1>1, <1>4, <2>1, NextUsing
  <2>3. NewBase(c) \in BaseBlock
    BY <1>1, <1>4, NextBase
  <2>4. NewLog(c, Shot(c)) \in LogEntry
    BY <1>1, <1>4, <2>1, NextLog
  <2>5. NoLog \in LogEntry
    BY Numbers DEF NoLog, LogEntry
  <2>6. log' = [e \in Entries |->
                  IF e = At(rec[c].file, RecID(c, Shot(c))) THEN NewLog(c, Shot(c))
                  ELSE IF e \in Wiped(c) THEN NoLog ELSE log[e]]
    BY <1>10 DEF UpdateFileIndex, Shot
  <2>7. log' \in [Entries -> LogEntry]
    BY <1>2, <2>4, <2>5, <2>6
  <2>8. new' = [base |-> NewBase(c), using |-> NewUsing(c, Shot(c))]
    BY <1>10 DEF UpdateFileIndex, Shot
  <2>9. new' \in [base : BaseBlock, using : UsingEntry]
    BY <2>2, <2>3, <2>8
  <2> QED  BY <1>2, <1>10, <2>7, <2>9 DEF UpdateFileIndex, TypeInv, Pcs
<1>11. ASSUME WriteIndexUsing(c) PROVE TypeInv'
  BY <1>2, <1>11 DEF WriteIndexUsing, TypeInv, Pcs
<1>12. ASSUME WriteIndexBase(c) PROVE TypeInv'
  BY <1>2, <1>12 DEF WriteIndexBase, TypeInv, Pcs
<1>13. ASSUME WriteIndexFull(c) PROVE TypeInv'
  <2>1. [rec[c] EXCEPT !.state = "start"] \in Record /\ NotFull \in FullEntry
    BY <1>3, Updated
  <2>2. rec' \in [Chans -> Record] /\ full' \in [FileIds -> FullEntry]
    BY <1>2, <1>13, <2>1 DEF WriteIndexFull
  <2> QED  BY <1>2, <1>5, <1>13, <2>2 DEF WriteIndexFull, EndOpen, TypeInv, Pcs
<1>14. ASSUME Open(c), NEW r \in Record,
              r.off = rec[c].off + 1, rec' = [rec EXCEPT ![c] = r],
              log' = Stamped(c, rec[c].off + 1)
       PROVE  rec' \in [Chans -> Record] /\ log' \in [Entries -> LogEntry]
  <2>1. rec[c].off + 1 \in 0 .. MaxOff
    BY <1>14, Offsets
  <2> QED  BY <1>1, <1>2, <1>14, <2>1, Stamps
<1>15. ASSUME Open(c), NEW s \in {"start", "write", "close"}
       PROVE  /\ [rec[c] EXCEPT !.off = @ + 1, !.state = s] \in Record
              /\ [rec[c] EXCEPT !.off = @ + 1, !.state = s].off = rec[c].off + 1
  <2>1. rec[c].off + 1 \in 0 .. MaxOff
    BY <1>15, Offsets
  <2> QED  BY <1>3, <1>15, <2>1 DEF Record
<1>16. ASSUME Frame(c) PROVE TypeInv'
  <2> DEFINE r == [rec[c] EXCEPT !.off = @ + 1, !.state = "write"]
  <2>1. Open(c)
    BY <1>16 DEF Frame, Recording, Open
  <2>2. r \in Record /\ r.off = rec[c].off + 1
    BY <1>15, <2>1
  <2>3. rec' = [rec EXCEPT ![c] = r]
    BY <1>2, <1>16 DEF Frame
  <2>4. log' = Stamped(c, rec[c].off + 1)
    BY <1>16 DEF Frame
  <2> HIDE DEF r
  <2>5. rec' \in [Chans -> Record] /\ log' \in [Entries -> LogEntry]
    BY <1>14, <2>1, <2>2, <2>3, <2>4
  <2> QED  BY <1>2, <1>16, <2>5 DEF Frame, TypeInv, Pcs
<1>17. ASSUME SwitchFile(c) PROVE TypeInv'
  <2> DEFINE r == [rec[c] EXCEPT !.off = @ + 1]
  <2>1. Open(c)
    BY <1>17 DEF SwitchFile, Recording, Open
  <2>2. rec[c].off + 1 \in 0 .. MaxOff
    BY <2>1, Offsets
  <2>3. r \in Record /\ r.off = rec[c].off + 1
    BY <1>3, <2>2, Updated DEF Record
  <2>4. rec' = [rec EXCEPT ![c] = r]
    BY <1>2, <1>17 DEF SwitchFile
  <2>5. log' = Stamped(c, rec[c].off + 1)
    BY <1>17 DEF SwitchFile
  <2> HIDE DEF r
  <2>6. rec' \in [Chans -> Record] /\ log' \in [Entries -> LogEntry]
    BY <1>14, <2>1, <2>3, <2>4, <2>5
  <2> QED  BY <1>2, <1>17, <2>6 DEF SwitchFile, TypeInv, Pcs
<1>18. ASSUME UpdateFull(c) PROVE TypeInv'
  <2>1. FullSum \in 0 .. NONE
    BY <1>1, Fields, Succ, Numbers DEF FullSum
  <2>2. [base EXCEPT !.full = FullSum] \in BaseBlock
    BY <1>2, <2>1 DEF BaseBlock
  <2>3. new' \in [base : BaseBlock, using : UsingEntry]
    BY <1>18, <2>2, Updated DEF UpdateFull
  <2>4. [chan |-> c, recs |-> using[c].recs, logs |-> using[c].logs, mjpg |-> using[c].mjpg]
          \in FullEntry
    BY <1>3 DEF UsingEntry, FullEntry
  <2>5. full' \in [FileIds -> FullEntry]
    BY <1>2, <1>18, <2>4 DEF UpdateFull
  <2> QED  BY <1>2, <1>18, <2>3, <2>5 DEF UpdateFull, TypeInv, Pcs
<1>19. ASSUME FullUsing(c) PROVE TypeInv'
  BY <1>2, <1>19 DEF FullUsing, TypeInv, Pcs
<1>20. ASSUME FullBase(c) PROVE TypeInv'
  <2>1. [Fresh EXCEPT !.state = "init"] \in Record
    BY Updated
  <2>2. rec' \in [Chans -> Record]
    BY <1>2, <1>20, <2>1 DEF FullBase
  <2> QED  BY <1>2, <1>5, <1>20, <2>2 DEF FullBase, TypeInv, Pcs
<1>21. ASSUME Stop(c) PROVE TypeInv'
  <2>1. CASE rec[c].state \in {"start", "write"}
    <3> DEFINE r == [rec[c] EXCEPT !.off = @ + 1, !.state = "close"]
    <3>1. Open(c) /\ listed' = listed \ {c}
      BY <1>21, <2>1 DEF Stop, Open
    <3>2. r \in Record /\ r.off = rec[c].off + 1
      BY <1>15, <3>1
    <3>3. rec' = [rec EXCEPT ![c] = r]
      BY <1>2, <1>21, <2>1 DEF Stop
    <3>4. log' = Stamped(c, rec[c].off + 1)
      BY <1>21, <2>1 DEF Stop
    <3> HIDE DEF r
    <3>5. rec' \in [Chans -> Record] /\ log' \in [Entries -> LogEntry]
      BY <1>14, <3>1, <3>2, <3>3, <3>4
    <3> QED  BY <1>2, <1>21, <3>1, <3>5 DEF Stop, TypeInv, Pcs
  <2>2. CASE rec[c].state = "init"
    BY <1>2, <1>21, <2>2 DEF Stop, TypeInv
  <2> QED  BY <1>21, <2>1, <2>2 DEF Stop
<1>22. ASSUME WriteFails(c) PROVE TypeInv'
  BY <1>2, <1>22 DEF WriteFails, index, TypeInv, Pcs
<1> QED  BY <1>6, <1>7, <1>8, <1>9, <1>10, <1>11, <1>12, <1>13, <1>16, <1>17, <1>18, <1>19,
            <1>20, <1>21, <1>22 DEF Act

\* It leaves them their lock, and their place in the lists.
LEMMA OthersPlace ==
  ASSUME TypeInv, PlaceInv, Exclusive, NEW c \in Chans, Act(c), NEW d \in Chans, d # c
  PROVE  /\ lock' = d <=> lock = d
         /\ starter' = d <=> starter = d
         /\ d \in listed' <=> d \in listed
<1>1. PlaceOf(c) /\ PlaceOf(d) /\ Nobody # d /\ Nobody # c
  BY Names DEF PlaceInv
<1>2. ASSUME NEW t \in Types, Start(c, t)
      PROVE  (lock' = d <=> lock = d) /\ (starter' = d <=> starter = d)
             /\ (d \in listed' <=> d \in listed)
  BY <1>1, <1>2 DEF Start
<1>3. ASSUME NEW t \in Types, AddIndexRecLog(c, t)
      PROVE  (lock' = d <=> lock = d) /\ (starter' = d <=> starter = d)
             /\ (d \in listed' <=> d \in listed)
  BY <1>1, <1>3 DEF AddIndexRecLog
<1>4. CASE GetDataFile(c)
  BY <1>4 DEF GetDataFile
<1>5. CASE OpenFails(c)
  BY <1>1, <1>5 DEF OpenFails, EndOpen
<1>6. CASE UpdateFileIndex(c)
  BY <1>1, <1>6 DEF UpdateFileIndex
<1>7. CASE WriteIndexUsing(c)
  BY <1>7 DEF WriteIndexUsing
<1>8. CASE WriteIndexBase(c)
  BY <1>8 DEF WriteIndexBase
<1>9. CASE WriteIndexFull(c)
  BY <1>1, <1>9 DEF WriteIndexFull, EndOpen, PlaceOf, Locked
<1>10. CASE Frame(c)
  BY <1>10 DEF Frame
<1>11. CASE SwitchFile(c)
  BY <1>11 DEF SwitchFile
<1>12. CASE UpdateFull(c)
  BY <1>1, <1>12 DEF UpdateFull
<1>13. CASE FullUsing(c)
  BY <1>13 DEF FullUsing
<1>14. CASE FullBase(c)
  BY <1>1, <1>14 DEF FullBase, PlaceOf, Locked
<1>15. CASE Stop(c)
  BY <1>15 DEF Stop
<1>16. CASE WriteFails(c)
  BY <1>16 DEF WriteFails
<1> QED  BY <1>2, <1>3, <1>4, <1>5, <1>6, <1>7, <1>8, <1>9, <1>10, <1>11, <1>12, <1>13, <1>14,
            <1>15, <1>16 DEF Act

\* Only one channel opens or changes its file.
LEMMA Sole ==
  ASSUME TypeInv, PlaceInv, Exclusive, NEW c \in Chans, Act(c)
  PROVE  /\ pc'[c] # "idle" => \A d \in Chans : d # c => pc[d] = "idle"
         /\ \A d, e \in Chans : pc'[d] # "idle" /\ pc'[e] # "idle" => d = e
<1>1. pc[c] # "idle" => \A d \in Chans : d # c => pc[d] = "idle"
  BY DEF PlaceInv
<1>2. pc[c] = "idle" /\ pc'[c] # "idle" => \A d \in Chans : d # c => pc[d] = "idle"
  <2>1. CASE Alone
    BY <2>1 DEF Alone
  <2>2. CASE OneOpener
    <3>1. pc \in [Chans -> Pcs]
      BY DEF TypeInv
    <3> SUFFICES ASSUME pc[c] = "idle", pc'[c] # "idle"
                 PROVE  \A d \in Chans : d # c => pc[d] = "idle"
      OBVIOUS
    <3>2. (\E t \in Types : Start(c, t)) \/ SwitchFile(c)
      BY <3>1 DEF Act, AddIndexRecLog, GetDataFile, OpenFails, UpdateFileIndex,
         WriteIndexUsing, WriteIndexBase, WriteIndexFull, Frame, UpdateFull, FullUsing,
         FullBase, Stop, WriteFails
    <3> QED  BY <2>2, <3>2 DEF Start, SwitchFile
  <2> QED  BY <2>1, <2>2 DEF Exclusive
<1>3. pc'[c] # "idle" => \A d \in Chans : d # c => pc[d] = "idle"
  BY <1>1, <1>2
<1>4. \A d \in Chans : d # c => pc'[d] = pc[d]
  BY Others
<1> QED  BY <1>3, <1>4 DEF PlaceInv

\* ... the places where a recording can be, ...
LEMMA PlaceStep ==
  ASSUME Exclusive, IInv, NEW c \in Chans, Act(c)
  PROVE  PlaceInv'
<1>1. TypeInv /\ PlaceInv /\ PlaceOf(c) /\ IndexInv /\ IndexOf(c) /\ MaxLogs <= LOGS
  BY DEF IInv, PlaceInv, IndexInv, Exclusive
<1>2. /\ pc \in [Chans -> Pcs] /\ rec \in [Chans -> Record] /\ using \in [Chans -> UsingEntry]
      /\ c \in Chans /\ Nobody # c /\ task \subseteq listed
  BY <1>1, Names DEF TypeInv
<1>3. rec[c] \in Record /\ rec[c].type \in SUBSET Types /\ using[c].logs \in 0 .. MaxLogs
  BY <1>1, Fields
<1>4. ASSUME NEW d \in Chans, d # c PROVE PlaceOf(d)'
  <2>1. pc'[d] = pc[d] /\ rec'[d] = rec[d] /\ using'[d] = using[d]
    BY <1>1, <1>4, Others
  <2>2. /\ lock' = d <=> lock = d
        /\ starter' = d <=> starter = d
        /\ d \in listed' <=> d \in listed
    BY <1>1, <1>4, OthersPlace
  <2>3. PlaceOf(d)
    BY <1>1 DEF PlaceInv
  <2> QED  BY <2>1, <2>2, <2>3 DEF PlaceOf, Shot
<1>5. ASSUME NEW t \in Types, Start(c, t) PROVE PlaceOf(c)'
  <2> DEFINE r == Reset(c)
             s == [r EXCEPT !.type = @ \cup {t}]
  <2>1. /\ pc[c] = "idle" /\ using[c].logs < MaxLogs /\ starter = Nobody
        /\ t = "shot" => using[c].logs + 1 < LOGS
        /\ rec' = [rec EXCEPT ![c] = s] /\ listed' = listed \cup {c}
        /\ lock' = lock /\ using' = using
        /\ IF r.state = "init" THEN pc' = [pc EXCEPT ![c] = "get"] /\ starter' = c
           ELSE pc' = pc /\ starter' = starter
        /\ r.state # "write"
    BY <1>5 DEF Start, MayLog, index
  <2>2. /\ r.state = "init" \/ (r = rec[c] /\ rec[c].state # "init")
        /\ r.type = rec[c].type \/ r.type = {}
        /\ r.type # {} /\ r.state = "init" => rec[c].state = "init"
        /\ r \in Record
    <3>1. CASE c \in listed
      BY <1>3, <3>1 DEF Reset
    <3>2. CASE c \notin listed
      <4>1. rec[c].state \in {"invalid", "close"}
        BY <1>1, <3>2 DEF PlaceOf
      <4>2. r = [Fresh EXCEPT !.state = "init"]
        BY <3>2, <4>1 DEF Reset
      <4>3. r \in Record
        BY <4>2, Updated
      <4> QED  BY <4>2, <4>3 DEF Fresh
    <3> QED  BY <3>1, <3>2
  <2> HIDE DEF r
  <2>3. s.state = r.state /\ s.type = r.type \cup {t}
    BY <2>2 DEF Record
  <2>4. rec'[c] = s
    BY <1>2, <2>1
  <2>5. rec[c].state = "init" => using[c].id = NONE /\ using[c].logs = 0
    BY <1>1, <2>1 DEF PlaceOf, IndexOf, GoodUsing, NotUsing
  <2> HIDE DEF s
  <2>6. Shot(c)' <=> t = "shot" \/ "shot" \in r.type
    BY <2>3, <2>4 DEF Shot, IS_MJPG_TYPE
  <2>7. "shot" \in r.type => rec[c].type = r.type /\ Shot(c)
    BY <2>2 DEF Shot, IS_MJPG_TYPE
  <2>8. r.state = "init" /\ Shot(c)' => using[c].logs + 1 < LOGS
    <3>1. ASSUME r.state = "init", "shot" \in r.type PROVE using[c].logs + 1 < LOGS
      <4>1. rec[c].state = "init" /\ Shot(c)
        BY <2>2, <2>7, <3>1
      <4> QED  BY <1>1, <2>5, <4>1 DEF PlaceOf
    <3> QED  BY <2>1, <2>6, <3>1
  <2>9. r.state = "init" => PlaceOf(c)'
    <3> SUFFICES ASSUME r.state = "init" PROVE PlaceOf(c)'
      OBVIOUS
    <3>1. /\ pc'[c] = "get" /\ starter' = c /\ lock' = lock /\ rec'[c].state = "init"
          /\ c \in listed' /\ using'[c] = using[c]
      BY <1>2, <2>1, <2>3, <2>4
    <3>2. 1 < LOGS \/ ~Shot(c)'
      BY <1>3, <2>8, Numbers
    <3> QED  BY <1>1, <1>3, <2>1, <2>8, <3>1, <3>2, Numbers
             DEF PlaceOf, Locked, Opening, Filling
  <2>10. r.state # "init" => PlaceOf(c)'
    <3> SUFFICES ASSUME r.state # "init" PROVE PlaceOf(c)'
      OBVIOUS
    <3>1. /\ pc'[c] = "idle" /\ starter' = starter /\ lock' = lock /\ rec'[c].state = rec[c].state
          /\ c \in listed' /\ using'[c] = using[c] /\ rec[c].state # "init"
      BY <1>2, <2>1, <2>2, <2>3, <2>4
    <3> QED  BY <1>1, <2>1, <3>1 DEF PlaceOf, Locked, Opening, Filling
  <2> QED  BY <2>9, <2>10
<1>6. ASSUME NEW t \in Types, AddIndexRecLog(c, t) PROVE PlaceOf(c)'
  <2>1. /\ pc[c] = "idle" /\ pc' = pc /\ listed' = listed /\ starter' = starter
        /\ rec[c].state = "write" /\ using[c].logs < MaxLogs /\ lock = Nobody
    BY <1>6 DEF AddIndexRecLog, MayLog, Reset, Fresh
  <2>2. rec'[c] = [rec[c] EXCEPT !.type = @ \cup {t}]
    BY <1>2, <1>6 DEF AddIndexRecLog
  <2>3. rec'[c].state = "write"
    BY <1>3, <2>1, <2>2 DEF Record
  <2>4. lock' = Nobody
    BY <1>1, <1>3, <1>6, <2>1, Numbers DEF AddIndexRecLog
  <2> QED  BY <1>1, <1>2, <2>1, <2>3, <2>4 DEF PlaceOf, Locked, Opening, Filling
<1>7. ASSUME GetDataFile(c) PROVE PlaceOf(c)'
  <2>1. rec'[c] = [rec[c] EXCEPT !.file = DataFile(c), !.off = StartOffset(c)]
    BY <1>2, <1>7 DEF GetDataFile
  <2>2. rec'[c].state = rec[c].state /\ rec'[c].type = rec[c].type
    BY <1>3, <2>1 DEF Record
  <2>3. /\ pc[c] = "get" /\ pc'[c] = "index" /\ lock' = lock /\ using' = using
        /\ listed' = listed /\ starter' = starter
    BY <1>2, <1>7 DEF GetDataFile, index
  <2> QED  BY <1>1, <2>2, <2>3 DEF PlaceOf, Shot, Locked, Opening, Filling
<1>8. ASSUME OpenFails(c) PROVE PlaceOf(c)'
  <2>1. /\ pc[c] = "get" /\ pc'[c] = "idle" /\ lock' = lock /\ using' = using /\ rec' = rec
        /\ listed' = listed /\ starter' # c /\ using[c].id = NONE
    BY <1>2, <1>8 DEF OpenFails, EndOpen, index, NoSpace
  <2> QED  BY <1>1, <2>1 DEF PlaceOf, Shot, Locked, Opening, Filling
<1>9. ASSUME UpdateFileIndex(c) PROVE PlaceOf(c)'
  <2>1. /\ pc[c] = "index" /\ pc'[c] = "using" /\ lock' = c /\ using' = using /\ rec' = rec
        /\ listed' = listed /\ starter' = starter
    BY <1>2, <1>9 DEF UpdateFileIndex
  <2> QED  BY <1>1, <2>1 DEF PlaceOf, Shot, Locked, Opening, Filling
<1>10. ASSUME WriteIndexUsing(c) PROVE PlaceOf(c)'
  <2>1. /\ pc[c] = "using" /\ pc'[c] = "base" /\ lock' = lock /\ rec' = rec
        /\ listed' = listed /\ starter' = starter
    BY <1>2, <1>10 DEF WriteIndexUsing
  <2> QED  BY <1>1, <2>1 DEF PlaceOf, Shot, Locked, Opening, Filling
<1>11. ASSUME WriteIndexBase(c) PROVE PlaceOf(c)'
  <2>1. /\ pc[c] = "base" /\ pc'[c] = "full" /\ lock' = lock /\ rec' = rec /\ using' = using
        /\ listed' = listed /\ starter' = starter
    BY <1>2, <1>11 DEF WriteIndexBase
  <2> QED  BY <1>1, <2>1 DEF PlaceOf, Shot, Locked, Opening, Filling
<1>12. ASSUME WriteIndexFull(c) PROVE PlaceOf(c)'
  <2>1. /\ pc[c] = "full" /\ pc'[c] \in {"idle", "write"} /\ lock' = Nobody /\ using' = using
        /\ listed' = listed /\ starter' # c /\ rec'[c].state = "start"
    BY <1>2, <1>3, <1>12 DEF WriteIndexFull, EndOpen, Record
  <2> QED  BY <1>1, <1>2, <2>1 DEF PlaceOf, Locked, Opening, Filling
<1>13. ASSUME Frame(c) PROVE PlaceOf(c)'
  <2>1. /\ pc[c] \in {"idle", "write"} /\ pc'[c] = "idle" /\ lock' = lock /\ lock = Nobody
        /\ using' = using /\ listed' = listed /\ starter' = starter
        /\ rec[c].state \in {"start", "write"} /\ c \in listed
    BY <1>2, <1>13 DEF Frame, Recording
  <2>2. rec'[c] = [rec[c] EXCEPT !.off = @ + 1, !.state = "write"]
    BY <1>2, <1>13 DEF Frame
  <2>3. rec'[c].state = "write"
    BY <1>3, <2>2 DEF Record
  <2> QED  BY <1>1, <1>2, <2>1, <2>3 DEF PlaceOf, Locked, Opening, Filling
<1>14. ASSUME SwitchFile(c) PROVE PlaceOf(c)'
  <2>1. /\ pc[c] = "idle" /\ pc'[c] = "fill" /\ lock' = lock /\ lock = Nobody
        /\ using' = using /\ listed' = listed /\ starter' = starter
        /\ rec[c].state \in {"start", "write"} /\ c \in listed
    BY <1>2, <1>14 DEF SwitchFile, Recording
  <2>2. rec'[c] = [rec[c] EXCEPT !.off = @ + 1]
    BY <1>2, <1>14 DEF SwitchFile
  <2>3. rec'[c].state = rec[c].state
    BY <1>3, <2>2 DEF Record
  <2> QED  BY <1>1, <1>2, <2>1, <2>3 DEF PlaceOf, Locked, Opening, Filling
<1>15. ASSUME UpdateFull(c) PROVE PlaceOf(c)'
  <2>1. /\ pc[c] = "fill" /\ pc'[c] = "fillUsing" /\ lock' = c /\ using' = using /\ rec' = rec
        /\ listed' = listed /\ starter' = starter
    BY <1>2, <1>15 DEF UpdateFull
  <2> QED  BY <1>1, <2>1 DEF PlaceOf, Shot, Locked, Opening, Filling
<1>16. ASSUME FullUsing(c) PROVE PlaceOf(c)'
  <2>1. /\ pc[c] = "fillUsing" /\ pc'[c] = "fillBase" /\ lock' = lock /\ rec' = rec
        /\ listed' = listed /\ starter' = starter
    BY <1>2, <1>16 DEF FullUsing
  <2> QED  BY <1>1, <2>1 DEF PlaceOf, Shot, Locked, Opening, Filling
<1>17. ASSUME FullBase(c) PROVE PlaceOf(c)'
  <2>1. /\ pc[c] = "fillBase" /\ pc'[c] = "get" /\ lock' = Nobody /\ using' = using
        /\ listed' = listed /\ starter' = starter
        /\ rec'[c] = [Fresh EXCEPT !.state = "init"]
    BY <1>2, <1>17 DEF FullBase
  <2>2. rec'[c].state = "init" /\ ~Shot(c)'
    BY <2>1 DEF Fresh, Shot, IS_MJPG_TYPE
  <2>3. using[c].id = NONE /\ using[c].logs = 0 /\ 0 < MaxLogs
    BY <1>1, <2>1, Numbers DEF IndexOf, NotUsing, PlaceOf
  <2> QED  BY <1>1, <1>2, <2>1, <2>2, <2>3 DEF PlaceOf, Locked, Opening, Filling
<1>18. ASSUME Stop(c) PROVE PlaceOf(c)'
  <2>1. /\ pc[c] = "idle" /\ pc' = pc /\ lock' = lock /\ using' = using /\ starter' = starter
        /\ starter = Nobody
    BY <1>18 DEF Stop
  <2>2. CASE rec[c].state \in {"start", "write"}
    <3>1. rec'[c].state = "close"
      BY <1>2, <1>3, <1>18, <2>2 DEF Stop, Record
    <3> QED  BY <1>1, <1>2, <2>1, <3>1 DEF PlaceOf, Locked, Opening, Filling
  <2>3. CASE rec[c].state = "init"
    <3>1. rec' = rec /\ listed' = listed
      BY <1>18, <2>3 DEF Stop
    <3> QED  BY <1>1, <2>1, <3>1 DEF PlaceOf, Shot
  <2> QED  BY <1>18, <2>2, <2>3 DEF Stop
<1>19. ASSUME WriteFails(c) PROVE PlaceOf(c)'
  <2>1. /\ pc[c] \in {"idle", "write"} /\ pc'[c] = "idle" /\ lock' = lock /\ using' = using
        /\ rec' = rec /\ listed' = listed /\ starter' = starter
        /\ rec[c].state \in {"start", "write"}
    BY <1>2, <1>19 DEF WriteFails, Recording, index
  <2> QED  BY <1>1, <2>1 DEF PlaceOf, Shot, Locked, Opening, Filling
<1>20. PlaceOf(c)'
  BY <1>5, <1>6, <1>7, <1>8, <1>9, <1>10, <1>11, <1>12, <1>13, <1>14, <1>15, <1>16, <1>17,
     <1>18, <1>19 DEF Act
<1>21. \A d, e \in Chans : pc'[d] # "idle" /\ pc'[e] # "idle" => d = e
  BY <1>1, Sole
<1> QED  BY <1>4, <1>20, <1>21 DEF PlaceInv

\* A channel that is not changing files leaves the base block and the full entries.
LEMMA Quiet ==
  ASSUME TypeInv, NEW c \in Chans, Act(c), pc[c] = "idle"
  PROVE  /\ base' = base /\ full' = full /\ new' = new
         /\ using'[c].id = using[c].id /\ using'[c].mjpg = using[c].mjpg
         /\ using'[c].recs = using[c].recs
<1>1. using \in [Chans -> UsingEntry] /\ using[c] \in UsingEntry
  BY DEF TypeInv
<1>2. ASSUME NEW t \in Types, AddIndexRecLog(c, t)
      PROVE  /\ base' = base /\ full' = full /\ new' = new
             /\ using'[c].id = using[c].id /\ using'[c].mjpg = using[c].mjpg
             /\ using'[c].recs = using[c].recs
  <2> DEFINE n == IF using[c].logs + 1 > LOGS THEN using[c].logs ELSE using[c].logs + 1
  <2>1. using' = [using EXCEPT ![c] = [using[c] EXCEPT !.logs = n]]
    BY <1>1, <1>2 DEF AddIndexRecLog
  <2> HIDE DEF n
  <2>2. using'[c] = [using[c] EXCEPT !.logs = n]
    BY <1>1, <2>1
  <2>3. /\ using'[c].id = using[c].id /\ using'[c].mjpg = using[c].mjpg
        /\ using'[c].recs = using[c].recs
    BY <1>1, <2>2 DEF UsingEntry
  <2> QED  BY <1>2, <2>3 DEF AddIndexRecLog
<1>3. ASSUME ~\E t \in Types : AddIndexRecLog(c, t)
      PROVE  base' = base /\ full' = full /\ new' = new /\ using' = using
  BY <1>3 DEF Act, Start, GetDataFile, OpenFails, UpdateFileIndex, WriteIndexUsing,
     WriteIndexBase, WriteIndexFull, Frame, SwitchFile, UpdateFull, FullUsing, FullBase,
     Stop, WriteFails, index
<1> QED  BY <1>2, <1>3

\* An open recording is in the file of its channel.
LEMMA OpenFile ==
  ASSUME TypeInv, PlaceInv, IndexInv, NEW c \in Chans, Open(c) \/ pc[c] = "fill"
  PROVE  /\ using[c].id # NONE /\ using[c].id \in FileIds /\ using[c].id = rec[c].file
         /\ ~using[c].mjpg => using[c].logs > 0
<1>1. IndexOf(c) /\ PlaceOf(c) /\ rec[c].file \in FileIds
  BY Fields DEF IndexInv, PlaceInv
<1>2. Filled(c) /\ FileOf(c) = using[c].id
  BY DEF Filled, FileOf, Open
<1> QED  BY <1>1, <1>2 DEF IndexOf, GoodUsing

\* ... what the index says of a recording, whatever crashed before, ...
LEMMA IndexStep ==
  ASSUME Exclusive, IInv, NEW c \in Chans, Act(c)
  PROVE  IndexInv'
<1>1. TypeInv /\ PlaceInv /\ PlaceOf(c) /\ IndexInv /\ IndexOf(c) /\ MaxLogs <= LOGS
  BY DEF IInv, PlaceInv, IndexInv, Exclusive
<1>2. /\ pc \in [Chans -> Pcs] /\ rec \in [Chans -> Record] /\ using \in [Chans -> UsingEntry]
  BY <1>1 DEF TypeInv
<1>3. /\ rec[c] \in Record /\ rec[c].file \in FileIds /\ using[c] \in UsingEntry
      /\ using[c].logs \in 0 .. MaxLogs /\ using[c].recs \in 0 .. MaxLogs
      /\ base \in BaseBlock /\ new.base \in BaseBlock
  BY <1>1, Fields
<1>4. GoodBase(base) /\ GoodBase(new.base) /\ GoodUsing(new.using) /\ GoodUsing(using[c])
  BY <1>1 DEF IndexInv, IndexOf
<1>5. ASSUME NEW d \in Chans, d # c PROVE IndexOf(d)'
  <2>1. pc'[d] = pc[d] /\ rec'[d] = rec[d] /\ using'[d] = using[d] /\ IndexOf(d)
    BY <1>1, <1>5, Others DEF IndexInv
  <2>2. CASE pc[d] = "idle"
    <3>1. (Filled(d)' <=> Filled(d)) /\ FileOf(d)' = FileOf(d)
      BY <2>1, <2>2 DEF Filled, FileOf, Open
    <3> QED  BY <2>1, <2>2, <3>1 DEF IndexOf
  <2>3. CASE pc[d] # "idle"
    <3>1. base' = base /\ new' = new
      BY <1>1, <1>5, <2>3, Quiet DEF PlaceInv
    <3>2. /\ (Filled(d)' <=> Filled(d)) /\ FileOf(d)' = FileOf(d)
          /\ NewFile(d)' = NewFile(d) /\ FullSum' = FullSum
      BY <2>1, <3>1 DEF Filled, FileOf, Open, NewFile, FullSum, CoverFile
    <3> QED  BY <2>1, <3>1, <3>2 DEF IndexOf
  <2> QED  BY <2>2, <2>3
<1> DEFINE Good == GoodBase(base)' /\ GoodBase(new.base)' /\ GoodUsing(new.using)'
<1>6. base' = base /\ new' = new => Good
  BY <1>4 DEF GoodBase, GoodUsing
<1>7. GoodBase(NoCopy.base) /\ GoodUsing(NoCopy.using) /\ GoodUsing(NotUsing)
  BY Numbers DEF GoodBase, GoodUsing, NoCopy, NotUsing
<1>8. ASSUME NEW t \in Types, Start(c, t) PROVE Good /\ IndexOf(c)'
  <2>1. /\ pc[c] = "idle" /\ using' = using /\ base' = base /\ new' = new
        /\ rec'[c] = [Reset(c) EXCEPT !.type = @ \cup {t}]
        /\ pc'[c] = IF Reset(c).state = "init" THEN "get" ELSE "idle"
    BY <1>2, <1>8 DEF Start, index
  <2>2. CASE Reset(c).state = "init"
    <3>1. pc'[c] = "get" /\ ~Filled(c)'
      BY <2>1, <2>2 DEF Filled, Open
    <3> QED  BY <1>1, <1>6, <2>1, <3>1 DEF IndexOf, GoodUsing
  <2>3. CASE Reset(c).state # "init"
    <3>1. pc'[c] = "idle" /\ Reset(c) = rec[c]
      <4>1. ASSUME c \notin listed PROVE FALSE
        BY <1>1, <2>3, <4>1 DEF Reset, PlaceOf, Fresh
      <4> QED  BY <2>1, <2>3, <4>1 DEF Reset
    <3>2. rec'[c].state = rec[c].state /\ rec'[c].file = rec[c].file
      BY <1>3, <2>1, <3>1 DEF Record
    <3>3. (Filled(c)' <=> Filled(c)) /\ FileOf(c)' = FileOf(c)
      BY <2>1, <3>1, <3>2 DEF Filled, Open, FileOf
    <3> QED  BY <1>1, <1>6, <2>1, <3>1, <3>2, <3>3 DEF IndexOf, GoodUsing
  <2> QED  BY <2>2, <2>3
<1>9. ASSUME NEW t \in Types, AddIndexRecLog(c, t) PROVE Good /\ IndexOf(c)'
  <2>1. /\ pc[c] = "idle" /\ pc' = pc /\ base' = base /\ new' = new
        /\ rec[c].state = "write" /\ using[c].logs < MaxLogs
    BY <1>9 DEF AddIndexRecLog, MayLog, Reset, Fresh
  <2>2. rec'[c] = [rec[c] EXCEPT !.type = @ \cup {t}]
    BY <1>2, <1>9 DEF AddIndexRecLog
  <2>3. rec'[c].state = rec[c].state /\ rec'[c].file = rec[c].file
    BY <1>3, <2>2 DEF Record
  <2>4. using'[c] = [using[c] EXCEPT !.logs = using[c].logs + 1]
    <3>1. ~(using[c].logs + 1 > LOGS)
      BY <1>1, <1>3, <2>1, Numbers
    <3> QED  BY <1>2, <1>9, <3>1 DEF AddIndexRecLog
  <2>5. /\ using'[c].id = using[c].id /\ using'[c].mjpg = using[c].mjpg
        /\ using'[c].recs = using[c].recs /\ using'[c].logs = using[c].logs + 1
    BY <1>3, <2>4 DEF UsingEntry
  <2>6. using[c].id # NONE
    BY <1>1, <2>1, OpenFile DEF Open
  <2>7. GoodUsing(using[c])'
    BY <1>3, <1>4, <2>5, <2>6, Numbers DEF GoodUsing
  <2>8. Filled(c)' /\ Filled(c) /\ FileOf(c)' = FileOf(c)
    BY <2>1, <2>3, <2>5 DEF Filled, Open, FileOf
  <2> QED  BY <1>1, <1>6, <2>1, <2>3, <2>5, <2>7, <2>8 DEF IndexOf
<1>10. ASSUME GetDataFile(c) PROVE Good /\ IndexOf(c)'
  <2>1. /\ pc'[c] = "index" /\ using' = using /\ base' = base /\ new' = new /\ ~NoSpace(c)
        /\ rec'[c] = [rec[c] EXCEPT !.file = DataFile(c), !.off = StartOffset(c)]
    BY <1>2, <1>10 DEF GetDataFile, index
  <2>2. DataFile(c) = NewFile(c)
    BY <1>1, <1>4, Chosen
  <2>3. rec'[c].file = NewFile(c) /\ NewFile(c)' = NewFile(c)
    BY <1>3, <2>1, <2>2 DEF Record, NewFile, CoverFile
  <2>4. ~Filled(c)'
    BY <2>1 DEF Filled, Open
  <2>5. using[c].id = NONE => base.used # FILES \/ OVERWRITE
    BY <2>1 DEF NoSpace
  <2>6. GoodUsing(using[c])'
    BY <1>4, <2>1 DEF GoodUsing
  <2> QED  BY <1>6, <2>1, <2>3, <2>4, <2>5, <2>6 DEF IndexOf
<1>11. ASSUME OpenFails(c) PROVE Good /\ IndexOf(c)'
  <2>1. /\ pc[c] = "get" /\ pc'[c] = "idle" /\ using' = using /\ base' = base /\ new' = new
        /\ rec' = rec
    BY <1>2, <1>11 DEF OpenFails, index
  <2>2. ~Filled(c)'
    BY <1>1, <2>1 DEF Filled, Open, PlaceOf, Opening
  <2> QED  BY <1>1, <1>6, <2>1, <2>2 DEF IndexOf, GoodUsing
<1>12. ASSUME UpdateFileIndex(c) PROVE Good /\ IndexOf(c)'
  <2>1. /\ pc[c] = "index" /\ pc'[c] = "using" /\ using' = using /\ base' = base /\ rec' = rec
        /\ new' = [base |-> NewBase(c), using |-> NewUsing(c, Shot(c))]
    BY <1>2, <1>12 DEF UpdateFileIndex, Shot
  <2>2. using[c].logs < MaxLogs
    BY <1>1, <2>1 DEF PlaceOf
  <2>3. /\ GoodUsing(NewUsing(c, Shot(c))) /\ NewUsing(c, Shot(c)).id = NewFile(c)
        /\ NewFile(c) # NONE
    BY <1>1, <1>4, <2>2, NextUsing
  <2>4. GoodBase(NewBase(c))
    BY <1>1, <1>4, NextBase
  <2>5. using[c].id \in {NONE, NewFile(c)}
    BY DEF NewFile
  <2>6. new'.using = NewUsing(c, Shot(c)) /\ new'.base = NewBase(c)
    BY <2>1
  <2>7. Good
    BY <1>4, <2>1, <2>3, <2>4, <2>6 DEF GoodBase, GoodUsing
  <2>8. FileOf(c)' = NewFile(c) /\ rec[c].file = NewFile(c)
    BY <1>1, <2>1, <2>3, <2>6 DEF FileOf, IndexOf
  <2> QED  BY <1>4, <2>1, <2>3, <2>5, <2>6, <2>7, <2>8 DEF IndexOf, GoodUsing
<1>13. ASSUME WriteIndexUsing(c) PROVE Good /\ IndexOf(c)'
  <2>1. /\ pc[c] = "using" /\ pc'[c] = "base" /\ using'[c] = new.using /\ base' = base
        /\ rec' = rec /\ new' = new
    BY <1>2, <1>13 DEF WriteIndexUsing
  <2>2. new.using.id # NONE /\ new.using.id = rec[c].file
    BY <1>1, <2>1 DEF IndexOf, Filled, FileOf
  <2> QED  BY <1>4, <1>6, <2>1, <2>2 DEF IndexOf, FileOf, GoodUsing
<1>14. ASSUME WriteIndexBase(c) PROVE Good /\ IndexOf(c)'
  <2>1. /\ pc[c] = "base" /\ pc'[c] = "full" /\ using' = using /\ base' = new.base
        /\ rec' = rec /\ new' = new
    BY <1>2, <1>14 DEF WriteIndexBase
  <2>2. Filled(c) /\ Filled(c)' /\ FileOf(c)' = FileOf(c)
    BY <2>1 DEF Filled, FileOf
  <2> QED  BY <1>1, <1>4, <2>1, <2>2 DEF IndexOf, GoodUsing, GoodBase
<1>15. ASSUME WriteIndexFull(c) PROVE Good /\ IndexOf(c)'
  <2>1. /\ pc[c] = "full" /\ pc'[c] \in {"idle", "write"} /\ using' = using /\ base' = base
        /\ rec'[c] = [rec[c] EXCEPT !.state = "start"] /\ new' = NoCopy
    BY <1>2, <1>15 DEF WriteIndexFull
  <2>2. rec'[c].file = rec[c].file
    BY <1>3, <2>1 DEF Record
  <2>3. Filled(c) /\ FileOf(c) = using[c].id /\ FileOf(c)' = using[c].id
    BY <2>1 DEF Filled, FileOf
  <2>4. Good
    BY <1>4, <1>7, <2>1 DEF GoodBase, GoodUsing
  <2> QED  BY <1>1, <1>4, <2>1, <2>2, <2>3, <2>4 DEF IndexOf, GoodUsing
<1>16. ASSUME Frame(c) PROVE Good /\ IndexOf(c)'
  <2>1. /\ Open(c) /\ pc'[c] = "idle" /\ using' = using /\ base' = base /\ new' = new
        /\ rec'[c] = [rec[c] EXCEPT !.off = @ + 1, !.state = "write"]
    BY <1>2, <1>16 DEF Frame, Recording, Open
  <2>2. rec'[c].file = rec[c].file
    BY <1>3, <2>1 DEF Record
  <2>3. using[c].id # NONE /\ using[c].id = rec[c].file
    BY <1>1, <2>1, OpenFile
  <2> QED  BY <1>4, <1>6, <2>1, <2>2, <2>3 DEF IndexOf, FileOf, GoodUsing
<1>17. ASSUME SwitchFile(c) PROVE Good /\ IndexOf(c)'
  <2>1. /\ Open(c) /\ pc'[c] = "fill" /\ using' = using /\ base' = base /\ new' = new
        /\ rec'[c] = [rec[c] EXCEPT !.off = @ + 1]
    BY <1>2, <1>17 DEF SwitchFile, Recording, Open
  <2>2. rec'[c].file = rec[c].file
    BY <1>3, <2>1 DEF Record
  <2>3. using[c].id # NONE /\ using[c].id = rec[c].file
    BY <1>1, <2>1, OpenFile
  <2> QED  BY <1>4, <1>6, <2>1, <2>2, <2>3 DEF IndexOf, FileOf, GoodUsing
<1>18. ASSUME UpdateFull(c) PROVE Good /\ IndexOf(c)'
  <2>1. /\ pc[c] = "fill" /\ pc'[c] = "fillUsing" /\ using' = using /\ base' = base /\ rec' = rec
        /\ new' = [base |-> [base EXCEPT !.full = FullSum], using |-> NotUsing]
    BY <1>2, <1>18 DEF UpdateFull
  <2>2. using[c].id # NONE /\ using[c].id = rec[c].file
    BY <1>1, <2>1, OpenFile
  <2>3. FullSum' = FullSum
    BY <2>1 DEF FullSum
  <2>4. new'.base = [base EXCEPT !.full = FullSum] /\ new'.using = NotUsing
    BY <2>1
  <2>5. new'.base.covered = base.covered /\ new'.base.used = base.used
    BY <1>3, <2>4 DEF BaseBlock
  <2>6. Good
    BY <1>4, <1>7, <2>1, <2>4, <2>5 DEF GoodBase, GoodUsing
  <2> QED  BY <1>4, <2>1, <2>2, <2>3, <2>4, <2>6 DEF IndexOf, FileOf, GoodUsing
<1>19. ASSUME FullUsing(c) PROVE Good /\ IndexOf(c)'
  <2>1. /\ pc[c] = "fillUsing" /\ pc'[c] = "fillBase" /\ using'[c] = new.using /\ base' = base
        /\ new' = new
    BY <1>2, <1>19 DEF FullUsing
  <2>2. FullSum' = FullSum
    BY <2>1 DEF FullSum
  <2>3. ~Filled(c)'
    BY <2>1 DEF Filled, Open
  <2>4. new.using = NotUsing /\ new.base = [base EXCEPT !.full = FullSum]
    BY <1>1, <2>1 DEF IndexOf
  <2> QED  BY <1>6, <1>7, <2>1, <2>2, <2>3, <2>4 DEF IndexOf, GoodUsing
<1>20. ASSUME FullBase(c) PROVE Good /\ IndexOf(c)'
  <2>1. /\ pc[c] = "fillBase" /\ pc'[c] = "get" /\ using' = using /\ base' = new.base
        /\ new' = NoCopy
    BY <1>2, <1>20 DEF FullBase
  <2>2. ~Filled(c)'
    BY <2>1 DEF Filled, Open
  <2> QED  BY <1>4, <1>7, <2>1, <2>2 DEF IndexOf, GoodUsing, GoodBase
<1>21. ASSUME Stop(c) PROVE Good /\ IndexOf(c)'
  <2>1. pc[c] = "idle" /\ pc' = pc /\ using' = using /\ base' = base /\ new' = new
    BY <1>21 DEF Stop
  <2>2. rec'[c].state \in {"init", "close"}
    BY <1>2, <1>3, <1>21 DEF Stop, Record
  <2>3. ~Filled(c)'
    BY <2>1, <2>2 DEF Filled, Open
  <2> QED  BY <1>4, <1>6, <2>1, <2>3 DEF IndexOf, GoodUsing
<1>22. ASSUME WriteFails(c) PROVE Good /\ IndexOf(c)'
  <2>1. /\ Open(c) /\ pc'[c] = "idle" /\ using' = using /\ base' = base /\ new' = new
        /\ rec' = rec
    BY <1>2, <1>22 DEF WriteFails, Recording, Open, index
  <2>2. using[c].id # NONE /\ using[c].id = rec[c].file
    BY <1>1, <2>1, OpenFile
  <2> QED  BY <1>4, <1>6, <2>1, <2>2 DEF IndexOf, FileOf, GoodUsing
<1>23. Good /\ IndexOf(c)'
  BY <1>8, <1>9, <1>10, <1>11, <1>12, <1>13, <1>14, <1>15, <1>16, <1>17, <1>18, <1>19, <1>20,
     <1>21, <1>22 DEF Act
<1> QED  BY <1>5, <1>23 DEF IndexInv

-----------------------------------------------------------------------------
\* The files and the counters of the base block.

\* There are at most FILES full files.
LEMMA FullCard ==
  ASSUME TypeInv
  PROVE  IsFiniteSet(FullFiles) /\ Cardinality(FullFiles) \in 0 .. FILES
<1>1. IsFiniteSet(FileIds) /\ Cardinality(FileIds) = FILES
  <2>1. 0 \in Int /\ FILES - 1 \in Int
    BY Numbers
  <2>2. /\ IsFiniteSet(0 .. FILES - 1)
        /\ Cardinality(0 .. FILES - 1) = IF 0 > FILES - 1 THEN 0 ELSE FILES - 1 - 0 + 1
    BY <2>1, FS_Interval
  <2> QED  BY <2>2, Numbers DEF FileIds
<1>2. FullFiles \in SUBSET FileIds
  BY DEF FullFiles
<1>3. IsFiniteSet(FullFiles) /\ Cardinality(FullFiles) <= Cardinality(FileIds)
  BY <1>1, <1>2, FS_Subset
<1>4. Cardinality(FullFiles) \in Nat
  BY <1>3, FS_CardinalityType
<1> QED  BY <1>1, <1>3, <1>4, Numbers

\* Steps that write none of it.
LEMMA FilesStay ==
  ASSUME FilesInv, CountInv, base' = base, full' = full,
         \A d \in Chans : using'[d].id = using[d].id,
         \A d \in Chans : pc[d] \notin Locked => pc'[d] \notin Locked,
         \A d \in Chans : pc[d] \in Locked => pc'[d] = pc[d] /\ new' = new
  PROVE  FilesInv' /\ CountInv'
<1>1. \A f : (IsFull(f)' <=> IsFull(f)) /\ (InUse(f)' <=> InUse(f)) /\ (Last(f)' <=> Last(f))
  BY DEF IsFull, InUse, Last
<1>2. \A d \in Chans : \A s \in Locked : pc'[d] = s <=> pc[d] = s
  OBVIOUS
<1>3. \A f \in FileIds : Used(f)'
  <2>1. \A d \in Chans : pc'[d] = "base" <=> pc[d] = "base"
    BY <1>2 DEF Locked
  <2>2. Number(base.used)' = Number(base.used)
    BY DEF Number
  <2> QED  BY <1>1, <2>1, <2>2 DEF FilesInv, Used
<1>4. ASSUME NEW d \in Chans PROVE FilesOf(d)'
  <2>1. FilesOf(d) /\ using'[d].id = using[d].id
    BY DEF FilesInv
  <2>2. CASE pc[d] \in Locked
    <3>1. pc'[d] = pc[d] /\ new' = new
      BY <2>2
    <3>2. \A f : Update(f)' <=> Update(f)
      BY <1>1, <3>1 DEF Update, Number, CoverFile
    <3> QED  BY <1>1, <2>1, <3>1, <3>2 DEF FilesOf
  <2>3. CASE pc[d] \notin Locked
    <3>1. pc'[d] \notin Locked
      BY <2>3
    <3> QED  BY <1>1, <2>1, <2>3, <3>1 DEF FilesOf, Locked
  <2> QED  BY <2>2, <2>3
<1>5. OneChannelPerFile'
  BY DEF FilesInv, OneChannelPerFile
<1>6. CountInv'
  <2>1. FullFiles' = FullFiles
    BY <1>1 DEF FullFiles
  <2>2. \A d \in Chans : (pc'[d] = "full" <=> pc[d] = "full")
                         /\ (pc'[d] \in {"fillUsing", "fillBase"} <=>
                             pc[d] \in {"fillUsing", "fillBase"})
    BY <1>2 DEF Locked
  <2>3. (Covering' <=> Covering) /\ (FillingOne' <=> FillingOne)
    BY <1>1, <2>2 DEF Covering, FillingOne
  <2> QED  BY <2>1, <2>3 DEF CountInv, Number
<1> QED  BY <1>3, <1>4, <1>5, <1>6 DEF FilesInv

\* What holds when a channel opens or changes its file.
LEMMA Changing ==
  ASSUME Exclusive, TypeInv, PlaceInv, FilesInv, NEW c \in Chans, pc[c] # "idle"
  PROVE  /\ \A d \in Chans : d # c => pc[d] = "idle"
         /\ \A d \in Chans : d # c /\ using[d].id \in FileIds => ~IsFull(using[d].id)
         /\ \A f \in FileIds :
              IsFull(f) \/ InUse(f) <=>
                f < Number(base.used) \/ (pc[c] = "base" /\ using[c].id = f)
         /\ pc[c] # "full" => ~Covering
         /\ FillingOne <=> pc[c] \in {"fillUsing", "fillBase"}
         /\ Covering <=> pc[c] = "full" /\ IsFull(using[c].id)
<1>1. \A d \in Chans : d # c => pc[d] = "idle"
  BY DEF PlaceInv
<1>2. \A d \in Chans : d # c /\ using[d].id \in FileIds => ~IsFull(using[d].id)
  BY <1>1 DEF FilesInv, FilesOf
<1> QED  BY <1>1, <1>2 DEF FilesInv, Used, Covering, FillingOne

\* UpdateFileIndex chooses an update that fits the files.
LEMMA FilesUpdate ==
  ASSUME Exclusive, TypeInv, PlaceInv, IndexInv, FilesInv, CountInv, NEW c \in Chans,
         UpdateFileIndex(c)
  PROVE  FilesInv' /\ CountInv'
<1>1. /\ pc[c] = "index" /\ pc'[c] = "using" /\ using' = using /\ base' = base /\ full' = full
      /\ new' = [base |-> NewBase(c), using |-> NewUsing(c, Shot(c))]
      /\ \A d \in Chans : d # c => pc'[d] = pc[d]
  BY DEF UpdateFileIndex, Shot, TypeInv
<1>2. /\ \A d \in Chans : d # c => pc[d] = "idle"
      /\ \A f \in FileIds : IsFull(f) \/ InUse(f) <=> f < Number(base.used)
      /\ ~Covering /\ ~FillingOne
  BY <1>1, Changing
<1>3. /\ base.used \in (1 .. FILES) \cup {NONE} /\ base.full \in 0 .. NONE
      /\ base.covered \in (1 .. FILES) \cup {NONE} /\ base \in BaseBlock
      /\ using[c].id \in FileIds \cup {NONE}
  BY Fields
<1>4. IndexOf(c) /\ GoodBase(base) /\ FilesOf(c)
  BY DEF IndexInv, FilesInv
<1>5. NewFile(c) \in FileIds
  BY <1>4, Chosen
<1> PICK F \in FileIds : F = NewFile(c)
  BY <1>5
<1>6. F < FILES /\ F \in Nat /\ F # NONE
  BY Names
<1>7. new'.base = NewBase(c) /\ new'.using.id = F
  BY <1>1 DEF NewUsing
<1> DEFINE Up == \/ /\ NewBase(c) = base /\ F < Number(base.used) /\ ~IsFull(F)
                    /\ Alone => Last(F)
                 \/ /\ base.used # FILES /\ F = Number(base.used) /\ ~IsFull(F)
                    /\ NewBase(c) = [base EXCEPT !.used = F + 1]
                 \/ /\ OVERWRITE /\ Alone /\ base.used = FILES /\ F = CoverFile /\ IsFull(F)
                    /\ NewBase(c) = [base EXCEPT !.covered = F + 1, !.full = Dec(@)]
<1>8. ASSUME using[c].id # NONE PROVE Up /\ NewBase(c) = base
  <2>1. F = using[c].id /\ NewBase(c) = base
    BY <1>8 DEF NewFile, NewBase
  <2>2. InUse(F)
    BY <2>1 DEF InUse
  <2>3. F < Number(base.used)
    BY <1>2, <1>6, <2>2
  <2>4. ~IsFull(F) /\ (Alone => Last(F))
    BY <1>1, <1>4, <1>6, <1>8, <2>1 DEF FilesOf
  <2> QED  BY <2>1, <2>3, <2>4
<1>9. ASSUME using[c].id = NONE, base.used = FILES PROVE Up /\ NewBase(c) # base
  <2>1. OVERWRITE /\ Alone
    BY <1>1, <1>4, <1>9 DEF IndexOf, Exclusive
  <2>2. F = CoverFile /\ NewBase(c) = [base EXCEPT !.covered = F + 1, !.full = Dec(@)]
    <3>1. Covers(c) /\ base.used # NONE
      BY <1>9, Numbers DEF Covers
    <3>2. F = CoverFile
      BY <1>9, <3>1 DEF NewFile
    <3>3. NewBase(c) = [base EXCEPT !.covered = CoverFile + 1, !.full = Dec(@)]
      BY <1>9, <3>1 DEF NewBase
    <3> QED  BY <3>2, <3>3
  <2>3. F < Number(base.used)
    BY <1>6, <1>9, Numbers DEF Number
  <2>4. ~InUse(F)
    BY <1>6, <1>9, <2>1 DEF InUse, Alone
  <2>5. IsFull(F)
    BY <1>2, <1>6, <2>3, <2>4
  <2>6. NewBase(c).full # base.full
    <3>1. Dec(base.full) # base.full
      BY <1>3, Succ
    <3>2. NewBase(c).full = Dec(base.full)
      BY <1>3, <2>2 DEF BaseBlock
    <3> QED  BY <3>1, <3>2
  <2> QED  BY <1>9, <2>1, <2>2, <2>5, <2>6
<1>10. ASSUME using[c].id = NONE, base.used # FILES PROVE Up /\ NewBase(c) # base
  <2>1. F = Number(base.used) /\ NewBase(c) = [base EXCEPT !.used = F + 1]
    BY <1>3, <1>10, Numbers DEF NewFile, NewBase, Covers, Number
  <2>2. ~IsFull(F)
    BY <1>2, <1>6, <2>1
  <2>3. F + 1 # base.used
    BY <1>3, <1>6, <2>1, Numbers DEF Number
  <2>4. NewBase(c).used = F + 1
    BY <1>3, <2>1 DEF BaseBlock
  <2> QED  BY <1>10, <2>1, <2>2, <2>3, <2>4
<1>11. Update(new.using.id)' /\ (using'[c].id # NONE <=> new'.base = base')
  <2>1. Up /\ (using[c].id # NONE <=> NewBase(c) = base)
    BY <1>8, <1>9, <1>10
  <2>2. /\ IsFull(F)' <=> IsFull(F)
        /\ Last(F)' <=> Last(F)
        /\ CoverFile' = CoverFile /\ Number(base.used)' = Number(base.used)
    BY <1>1 DEF IsFull, Last, CoverFile, Number
  <2> QED  BY <1>1, <1>7, <2>1, <2>2 DEF Update
<1>12. \A f : (IsFull(f)' <=> IsFull(f)) /\ (InUse(f)' <=> InUse(f)) /\ (Last(f)' <=> Last(f))
  BY <1>1 DEF IsFull, InUse, Last
<1>13. FilesOf(c)'
  BY <1>1, <1>4, <1>11, <1>12 DEF FilesOf
<1>14. ASSUME NEW d \in Chans, d # c PROVE FilesOf(d)'
  <2>1. FilesOf(d) /\ pc[d] = "idle" /\ pc'[d] = "idle"
    BY <1>1, <1>2, <1>14 DEF FilesInv
  <2> QED  BY <1>1, <1>12, <2>1 DEF FilesOf
<1>15. \A f \in FileIds : Used(f)'
  <2>1. \A d \in Chans : pc'[d] # "base"
    BY <1>1, <1>2
  <2>2. Number(base.used)' = Number(base.used)
    BY <1>1 DEF Number
  <2> QED  BY <1>2, <1>12, <2>1, <2>2 DEF Used
<1>16. OneChannelPerFile'
  BY <1>1 DEF FilesInv, OneChannelPerFile
<1>17. CountInv'
  <2>1. FullFiles' = FullFiles /\ Number(base.full)' = Number(base.full)
    BY <1>1, <1>12 DEF FullFiles, Number
  <2>2. ~Covering' /\ ~FillingOne'
    BY <1>1, <1>2 DEF Covering, FillingOne
  <2> QED  BY <1>2, <2>1, <2>2 DEF CountInv
<1> QED  BY <1>13, <1>14, <1>15, <1>16, <1>17 DEF FilesInv

\* The file that a channel opens is not another's.
LEMMA OwnFile ==
  ASSUME Exclusive, TypeInv, PlaceInv, IndexInv, FilesInv, NEW c \in Chans,
         NEW d \in Chans, d # c
  PROVE  /\ pc[c] = "index" => using[d].id # NewFile(c)
         /\ pc[c] = "using" => using[d].id # new.using.id
<1>1. ~Alone /\ ~OVERWRITE
  BY DEF Alone, Exclusive
<1>2. IndexOf(c) /\ FilesOf(c) /\ GoodBase(base)
  BY DEF IndexInv, FilesInv
<1>3. pc[c] \in {"index", "using"} =>
        \A f \in FileIds : f = Number(base.used) => using[d].id # f
  <2> SUFFICES ASSUME pc[c] \in {"index", "using"}, NEW f \in FileIds,
                      f = Number(base.used), using[d].id = f
               PROVE  FALSE
    OBVIOUS
  <2>1. IsFull(f) \/ InUse(f) <=> f < Number(base.used)
    BY Changing
  <2>2. f \in Nat /\ InUse(f)
    BY Names DEF InUse
  <2> QED  BY <2>1, <2>2
<1>4. \A f \in FileIds : using[c].id = f => using[d].id # f
  BY Names DEF FilesInv, OneChannelPerFile
<1>5. ASSUME pc[c] = "index" PROVE using[d].id # NewFile(c)
  <2>1. NewFile(c) \in FileIds
    BY <1>2, Chosen
  <2>2. using[c].id # NONE => NewFile(c) = using[c].id
    BY DEF NewFile
  <2>3. using[c].id = NONE => NewFile(c) = Number(base.used)
    BY <1>1, <1>2, <1>5, Fields, Numbers DEF IndexOf, NewFile, Number
  <2> QED  BY <1>3, <1>4, <1>5, <2>1, <2>2, <2>3
<1>6. ASSUME pc[c] = "using" PROVE using[d].id # new.using.id
  <2>1. /\ using[c].id \in {NONE, new.using.id} /\ new.using.id \in FileIds
        /\ Update(new.using.id) /\ (using[c].id # NONE <=> new.base = base)
    BY <1>2, <1>6, Fields DEF IndexOf, Filled, FileOf, FilesOf
  <2>2. new.using.id = using[c].id \/ new.using.id = Number(base.used)
    BY <1>1, <2>1 DEF Update
  <2> QED  BY <1>3, <1>4, <1>6, <2>1, <2>2
<1> QED  BY <1>5, <1>6

\* The using entry enters the file that the update is about, ...
LEMMA FilesUsing ==
  ASSUME Exclusive, TypeInv, PlaceInv, IndexInv, FilesInv, CountInv, NEW c \in Chans,
         WriteIndexUsing(c)
  PROVE  FilesInv' /\ CountInv'
<1>1. /\ pc[c] = "using" /\ pc'[c] = "base" /\ using'[c] = new.using /\ base' = base
      /\ full' = full /\ new' = new
      /\ \A d \in Chans : d # c => pc'[d] = pc[d] /\ using'[d] = using[d]
  BY DEF WriteIndexUsing, TypeInv
<1>2. /\ \A d \in Chans : d # c => pc[d] = "idle"
      /\ \A f \in FileIds : IsFull(f) \/ InUse(f) <=> f < Number(base.used)
      /\ ~Covering /\ ~FillingOne
  BY <1>1, Changing
<1>3. IndexOf(c) /\ FilesOf(c)
  BY DEF IndexInv, FilesInv
<1>4. new.using.id \in FileIds
  <2>1. new.using.id # NONE
    BY <1>1, <1>3 DEF IndexOf, Filled, FileOf
  <2> QED  BY <2>1, Fields
<1> PICK F \in FileIds : F = new.using.id
  BY <1>4
<1>5. /\ Update(F) /\ (using[c].id # NONE <=> new.base = base)
      /\ using[c].id \in {NONE, F} /\ F # NONE
  BY <1>1, <1>3, Names DEF FilesOf, IndexOf
<1>6. \A f : (IsFull(f)' <=> IsFull(f)) /\ (Last(f)' <=> Last(f)) /\ (Update(f)' <=> Update(f))
  BY <1>1 DEF IsFull, Last, Update, CoverFile, Number
<1>7. /\ base.used \in (1 .. FILES) \cup {NONE} /\ base.full \in 0 .. NONE
      /\ base.covered \in (1 .. FILES) \cup {NONE} /\ base \in BaseBlock
  BY Fields
<1>8. F \in Nat /\ F < FILES
  BY Names
<1>9. \A f \in FileIds : InUse(f)' <=> InUse(f) \/ f = F
  BY <1>1, <1>5, Names DEF InUse
<1>10. \A f \in FileIds : Used(f)'
  <2>1. Number(base.used)' = Number(base.used)
    BY <1>1 DEF Number
  <2>2. \A f \in FileIds : (\E d \in Chans : pc'[d] = "base" /\ using'[d].id = f) <=> f = F
    BY <1>1, <1>2
  <2> QED  BY <1>2, <1>6, <1>9, <2>1, <2>2 DEF Used
<1>11. \A d \in Chans : d # c => using[d].id # F
  BY <1>1, OwnFile
<1>12. FilesOf(c)'
  <2>1. IsFull(F) => OVERWRITE
    BY <1>5 DEF Update
  <2>2. Alone /\ new.base = base => Last(F)
    <3> SUFFICES ASSUME Alone, new.base = base PROVE Last(F)
      OBVIOUS
    <3>1. [base EXCEPT !.used = F + 1] = base => base.used = F + 1
      BY <1>7 DEF BaseBlock
    <3>2. base.used = F + 1 => F # Number(base.used)
      BY <1>8, Numbers DEF Number
    <3>3. [base EXCEPT !.covered = F + 1, !.full = Dec(@)] # base
      <4>1. [base EXCEPT !.covered = F + 1, !.full = Dec(@)].full = Dec(base.full)
        BY <1>7 DEF BaseBlock
      <4> QED  BY <1>7, <4>1, Succ
    <3> QED  BY <1>5, <3>1, <3>2, <3>3 DEF Update
  <2> QED  BY <1>1, <1>5, <1>6, <2>1, <2>2 DEF FilesOf
<1>13. ASSUME NEW d \in Chans, d # c PROVE FilesOf(d)'
  <2>1. FilesOf(d) /\ pc[d] = "idle" /\ pc'[d] = "idle" /\ using'[d] = using[d]
    BY <1>1, <1>2, <1>13 DEF FilesInv
  <2> QED  BY <1>6, <2>1 DEF FilesOf
<1>14. OneChannelPerFile'
  BY <1>1, <1>11 DEF FilesInv, OneChannelPerFile
<1>15. CountInv'
  <2>1. FullFiles' = FullFiles /\ Number(base.full)' = Number(base.full)
    BY <1>1, <1>6 DEF FullFiles, Number
  <2>2. ~Covering' /\ ~FillingOne'
    BY <1>1, <1>2 DEF Covering, FillingOne
  <2> QED  BY <1>2, <2>1, <2>2 DEF CountInv
<1> QED  BY <1>10, <1>12, <1>13, <1>14, <1>15 DEF FilesInv

\* ... the base block counts it, ...
LEMMA FilesBase ==
  ASSUME Exclusive, TypeInv, PlaceInv, IndexInv, FilesInv, CountInv, NEW c \in Chans,
         WriteIndexBase(c)
  PROVE  FilesInv' /\ CountInv'
<1>1. /\ pc[c] = "base" /\ pc'[c] = "full" /\ using' = using /\ base' = new.base
      /\ full' = full /\ new' = new
      /\ \A d \in Chans : d # c => pc'[d] = pc[d]
  BY DEF WriteIndexBase, TypeInv
<1>2. IndexOf(c) /\ FilesOf(c) /\ GoodBase(base)
  BY DEF IndexInv, FilesInv
<1>3. using[c].id \in FileIds
  <2>1. using[c].id # NONE
    BY <1>1, <1>2 DEF IndexOf, Filled, FileOf
  <2> QED  BY <2>1, Fields
<1> PICK F \in FileIds : F = using[c].id
  BY <1>3
<1>4. /\ \A d \in Chans : d # c => pc[d] = "idle"
      /\ \A f \in FileIds : IsFull(f) \/ InUse(f) <=> f < Number(base.used) \/ f = F
      /\ ~Covering /\ ~FillingOne
  BY <1>1, Changing
<1>5. Update(F) /\ F \in Nat /\ F < FILES /\ F # NONE
  BY <1>1, <1>2, Names DEF FilesOf
<1>6. \A f : (IsFull(f)' <=> IsFull(f)) /\ (InUse(f)' <=> InUse(f))
  BY <1>1 DEF IsFull, InUse
<1>7. /\ base.used \in (1 .. FILES) \cup {NONE} /\ base.full \in 0 .. NONE
      /\ base.covered \in (1 .. FILES) \cup {NONE} /\ base \in BaseBlock
  BY Fields
<1>8. Cardinality(FullFiles) = Number(base.full)
  <2>1. Number(base.full) \in Nat
    BY <1>7, Numbers DEF Number
  <2> QED  BY <1>4, <2>1 DEF CountInv
<1> DEFINE After == /\ \A f \in FileIds : f < Number(base'.used) <=>
                                            f < Number(base.used) \/ f = F
                    /\ Alone => Last(F)'
                    /\ IsFull(F) => OVERWRITE /\ base'.used = FILES
                    /\ Number(base.full) = Number(base'.full) + IF IsFull(F) THEN 1 ELSE 0
<1>9. ASSUME new.base = base, F < Number(base.used), ~IsFull(F), Alone => Last(F) PROVE After
  BY <1>1, <1>7, <1>9, Numbers DEF Last, Number
<1>10. ASSUME base.used # FILES, F = Number(base.used), ~IsFull(F),
              new.base = [base EXCEPT !.used = F + 1]
       PROVE  After
  <2>1. base'.used = F + 1 /\ base'.full = base.full /\ base'.covered = base.covered
    BY <1>1, <1>7, <1>10 DEF BaseBlock
  <2>2. base.covered = NONE
    BY <1>2, <1>10 DEF GoodBase
  <2>3. \A f \in FileIds : f \in Nat
    BY Names
  <2>4. F + 1 # NONE
    BY <1>5, Numbers
  <2> QED  BY <1>5, <1>7, <1>10, <2>1, <2>2, <2>3, <2>4, Numbers DEF Last, Number
<1>11. ASSUME OVERWRITE, Alone, base.used = FILES, F = CoverFile, IsFull(F),
              new.base = [base EXCEPT !.covered = F + 1, !.full = Dec(@)]
       PROVE  After
  <2>1. base'.used = FILES /\ base'.full = Dec(base.full) /\ base'.covered = F + 1
    BY <1>1, <1>7, <1>11 DEF BaseBlock
  <2>2. Number(FILES) = FILES /\ F + 1 # NONE
    BY <1>5, Numbers DEF Number
  <2>3. Cardinality(FullFiles) > 0
    <3>1. IsFiniteSet(FullFiles) /\ FullFiles # {} /\ Cardinality(FullFiles) \in Nat
      BY <1>11, FullCard, Numbers DEF FullFiles
    <3>2. Cardinality(FullFiles) # 0
      BY <3>1, FS_EmptySet
    <3> QED  BY <3>1, <3>2
  <2>4. base.full \in 1 .. NONE - 1
    BY <1>7, <1>8, <2>3, Numbers DEF Number
  <2>5. Dec(base.full) = base.full - 1
    BY <1>7, <2>4, Succ
  <2>6. Number(base.full) = Number(base'.full) + 1
    BY <2>1, <2>4, <2>5, Numbers DEF Number
  <2>7. \A f \in FileIds : f < Number(base'.used) /\ f < Number(base.used)
    BY <1>11, <2>1, <2>2, Names
  <2>8. Last(F)'
    BY <2>1, <2>2 DEF Last
  <2> QED  BY <1>11, <2>1, <2>6, <2>7, <2>8
<1>12. After
  BY <1>5, <1>9, <1>10, <1>11 DEF Update
<1> HIDE DEF After
<1>13. \A f \in FileIds : Used(f)'
  <2>1. \A d \in Chans : pc'[d] # "base"
    BY <1>1, <1>4
  <2>2. Number(base.used)' = Number(base'.used)
    BY DEF Number
  <2> QED  BY <1>4, <1>6, <1>12, <2>1, <2>2 DEF Used, After
<1>14. FilesOf(c)'
  <2>1. (Alone => Last(F)') /\ (IsFull(F) => OVERWRITE /\ base'.used = FILES)
    BY <1>12 DEF After
  <2> QED  BY <1>1, <1>6, <2>1 DEF FilesOf
<1>15. ASSUME NEW d \in Chans, d # c PROVE FilesOf(d)'
  <2>1. FilesOf(d) /\ pc[d] = "idle" /\ pc'[d] = "idle"
    BY <1>1, <1>4, <1>15 DEF FilesInv
  <2>2. ~Alone
    BY <1>15 DEF Alone
  <2> QED  BY <1>1, <1>6, <2>1, <2>2 DEF FilesOf
<1>16. OneChannelPerFile'
  BY <1>1 DEF FilesInv, OneChannelPerFile
<1>17. CountInv'
  <2>1. FullFiles' = FullFiles
    BY <1>6 DEF FullFiles
  <2>2. Covering' <=> IsFull(F)
    BY <1>1, <1>4, <1>6 DEF Covering
  <2>3. ~FillingOne'
    BY <1>1, <1>4 DEF FillingOne
  <2>4. Number(base.full)' = Number(base'.full)
    BY DEF Number
  <2>5. Number(base.full) = Number(base'.full) + IF IsFull(F) THEN 1 ELSE 0
    BY <1>12 DEF After
  <2> QED  BY <1>8, <2>1, <2>2, <2>3, <2>4, <2>5 DEF CountInv
<1> QED  BY <1>13, <1>14, <1>15, <1>16, <1>17 DEF FilesInv

\* ... and it is no longer full.
LEMMA FilesFull ==
  ASSUME Exclusive, TypeInv, PlaceInv, IndexInv, FilesInv, CountInv, NEW c \in Chans,
         WriteIndexFull(c)
  PROVE  FilesInv' /\ CountInv'
<1>1. /\ pc[c] = "full" /\ pc'[c] \in {"idle", "write"} /\ using' = using /\ base' = base
      /\ full' = [full EXCEPT ![using[c].id] = NotFull]
      /\ \A d \in Chans : d # c => pc'[d] = pc[d]
  BY DEF WriteIndexFull, TypeInv
<1>2. IndexOf(c) /\ FilesOf(c)
  BY DEF IndexInv, FilesInv
<1>3. using[c].id \in FileIds
  <2>1. using[c].id # NONE
    BY <1>1, <1>2 DEF IndexOf, Filled, FileOf
  <2> QED  BY <2>1, Fields
<1> PICK F \in FileIds : F = using[c].id
  BY <1>3
<1>4. /\ \A d \in Chans : d # c => pc[d] = "idle"
      /\ \A d \in Chans : d # c /\ using[d].id \in FileIds => ~IsFull(using[d].id)
      /\ \A f \in FileIds : IsFull(f) \/ InUse(f) <=> f < Number(base.used)
      /\ ~FillingOne /\ (Covering <=> IsFull(F))
  BY <1>1, Changing
<1>5. \A f \in FileIds : /\ IsFull(f)' <=> IsFull(f) /\ f # F
                         /\ InUse(f)' <=> InUse(f)
                         /\ Last(f)' <=> Last(f)
  BY <1>1 DEF IsFull, InUse, Last, NotFull, TypeInv
<1>6. InUse(F)
  BY DEF InUse
<1>7. \A f \in FileIds : Used(f)'
  <2>1. \A d \in Chans : pc'[d] # "base"
    BY <1>1, <1>4
  <2>2. Number(base.used)' = Number(base.used)
    BY <1>1 DEF Number
  <2> QED  BY <1>4, <1>5, <1>6, <2>1, <2>2 DEF Used
<1>8. FilesOf(c)'
  <2>1. Last(using[c].id)' <=> Last(using[c].id)
    BY <1>1 DEF Last
  <2> QED  BY <1>1, <1>2, <1>5, <2>1 DEF FilesOf
<1>9. ASSUME NEW d \in Chans, d # c PROVE FilesOf(d)'
  <2>1. FilesOf(d) /\ pc[d] = "idle" /\ pc'[d] = "idle" /\ ~Alone
    BY <1>1, <1>4, <1>9 DEF FilesInv, Alone
  <2>2. using[d].id \in FileIds => ~IsFull(using[d].id)'
    BY <1>1, <1>4, <1>5, <1>9
  <2> QED  BY <1>1, <2>1, <2>2 DEF FilesOf
<1>10. OneChannelPerFile'
  BY <1>1 DEF FilesInv, OneChannelPerFile
<1>11. CountInv'
  <2>1. FullFiles' = FullFiles \ {F}
    BY <1>5 DEF FullFiles
  <2>2. F \in FullFiles <=> IsFull(F)
    BY DEF FullFiles
  <2>3. IsFiniteSet(FullFiles) /\ Cardinality(FullFiles) \in 0 .. FILES
    BY FullCard
  <2>4. Cardinality(FullFiles \ {F}) = IF F \in FullFiles THEN Cardinality(FullFiles) - 1
                                       ELSE Cardinality(FullFiles)
    BY <2>3, FS_RemoveElement
  <2>5. ~Covering' /\ ~FillingOne'
    BY <1>1, <1>4 DEF Covering, FillingOne
  <2>6. Number(base.full)' = Number(base.full) /\ Number(base.full) \in Nat
    BY <1>1, Fields, Numbers DEF Number
  <2>7. Cardinality(FullFiles) = Number(base.full) + IF IsFull(F) THEN 1 ELSE 0
    BY <1>4 DEF CountInv
  <2> QED  BY <2>1, <2>2, <2>3, <2>4, <2>5, <2>6, <2>7, Numbers DEF CountInv
<1> QED  BY <1>7, <1>8, <1>9, <1>10, <1>11 DEF FilesInv

\* A file that is filled becomes full, ...
LEMMA FilesFill ==
  ASSUME Exclusive, TypeInv, PlaceInv, IndexInv, FilesInv, CountInv, NEW c \in Chans,
         UpdateFull(c)
  PROVE  FilesInv' /\ CountInv'
<1>1. /\ pc[c] = "fill" /\ pc'[c] = "fillUsing" /\ using' = using /\ base' = base
      /\ full' = [full EXCEPT ![using[c].id] =
                     [chan |-> c, recs |-> using[c].recs, logs |-> using[c].logs,
                      mjpg |-> using[c].mjpg]]
      /\ \A d \in Chans : d # c => pc'[d] = pc[d]
  BY DEF UpdateFull, TypeInv
<1>2. IndexOf(c) /\ FilesOf(c)
  BY DEF IndexInv, FilesInv
<1>3. using[c].id \in FileIds
  BY <1>1, OpenFile
<1> PICK F \in FileIds : F = using[c].id
  BY <1>3
<1>4. /\ \A d \in Chans : d # c => pc[d] = "idle"
      /\ \A d \in Chans : d # c /\ using[d].id \in FileIds => ~IsFull(using[d].id)
      /\ \A f \in FileIds : IsFull(f) \/ InUse(f) <=> f < Number(base.used)
      /\ ~FillingOne /\ ~Covering
  BY <1>1, Changing
<1>5. \A f \in FileIds : /\ IsFull(f)' <=> IsFull(f) \/ f = F
                         /\ InUse(f)' <=> InUse(f)
                         /\ Last(f)' <=> Last(f)
  BY <1>1, Names DEF IsFull, InUse, Last, TypeInv
<1>6. InUse(F) /\ ~IsFull(F)
  BY <1>1, <1>2 DEF InUse, FilesOf
<1>7. \A f \in FileIds : Used(f)'
  <2>1. \A d \in Chans : pc'[d] # "base"
    BY <1>1, <1>4
  <2>2. Number(base.used)' = Number(base.used)
    BY <1>1 DEF Number
  <2> QED  BY <1>4, <1>5, <1>6, <2>1, <2>2 DEF Used
<1>8. FilesOf(c)'
  <2>1. Last(using[c].id)' <=> Last(using[c].id)
    BY <1>1 DEF Last
  <2> QED  BY <1>1, <1>2, <1>5, <2>1 DEF FilesOf
<1>9. ASSUME NEW d \in Chans, d # c PROVE FilesOf(d)'
  <2>1. FilesOf(d) /\ pc[d] = "idle" /\ pc'[d] = "idle" /\ ~Alone
    BY <1>1, <1>4, <1>9 DEF FilesInv, Alone
  <2>2. using[d].id # F
    BY <1>3, <1>9, Names DEF FilesInv, OneChannelPerFile
  <2>3. using[d].id \in FileIds => ~IsFull(using[d].id)'
    BY <1>1, <1>4, <1>5, <1>9, <2>2
  <2> QED  BY <1>1, <2>1, <2>3 DEF FilesOf
<1>10. OneChannelPerFile'
  BY <1>1 DEF FilesInv, OneChannelPerFile
<1>11. CountInv'
  <2>1. FullFiles' = FullFiles \cup {F}
    BY <1>5 DEF FullFiles
  <2>2. F \notin FullFiles
    BY <1>6 DEF FullFiles
  <2>3. IsFiniteSet(FullFiles) /\ Cardinality(FullFiles) \in 0 .. FILES
    BY FullCard
  <2>4. Cardinality(FullFiles \cup {F}) = Cardinality(FullFiles) + 1
    BY <2>2, <2>3, FS_AddElement
  <2>5. ~Covering' /\ FillingOne'
    BY <1>1, <1>4 DEF Covering, FillingOne
  <2>6. Number(base.full)' = Number(base.full) /\ Number(base.full) \in Nat
    BY <1>1, Fields, Numbers DEF Number
  <2>7. Cardinality(FullFiles) = Number(base.full)
    BY <1>4, <2>6 DEF CountInv
  <2> QED  BY <2>1, <2>4, <2>5, <2>6, <2>7, Numbers DEF CountInv
<1> QED  BY <1>7, <1>8, <1>9, <1>10, <1>11 DEF FilesInv

\* ... is no longer in use, ...
LEMMA FilesFullUsing ==
  ASSUME Exclusive, TypeInv, PlaceInv, IndexInv, FilesInv, CountInv, NEW c \in Chans,
         FullUsing(c)
  PROVE  FilesInv' /\ CountInv'
<1>1. /\ pc[c] = "fillUsing" /\ pc'[c] = "fillBase" /\ using'[c] = new.using /\ base' = base
      /\ full' = full
      /\ \A d \in Chans : d # c => pc'[d] = pc[d] /\ using'[d] = using[d]
  BY DEF FullUsing, TypeInv
<1>2. IndexOf(c) /\ FilesOf(c)
  BY DEF IndexInv, FilesInv
<1>3. using'[c].id = NONE
  BY <1>1, <1>2 DEF IndexOf, NotUsing
<1>4. /\ \A d \in Chans : d # c => pc[d] = "idle"
      /\ \A f \in FileIds : IsFull(f) \/ InUse(f) <=> f < Number(base.used)
      /\ FillingOne /\ ~Covering
  BY <1>1, Changing
<1>5. \A f : (IsFull(f)' <=> IsFull(f)) /\ (Last(f)' <=> Last(f))
  BY <1>1 DEF IsFull, Last
<1>6. \A f \in FileIds : IsFull(f) \/ InUse(f)' <=> IsFull(f) \/ InUse(f)
  <2> TAKE f \in FileIds
  <2>1. InUse(f)' => InUse(f)
    BY <1>1, <1>3, Names DEF InUse
  <2>2. InUse(f) => InUse(f)' \/ using[c].id = f
    BY <1>1 DEF InUse
  <2>3. using[c].id = f => IsFull(f)
    BY <1>1, <1>2 DEF FilesOf
  <2> QED  BY <2>1, <2>2, <2>3
<1>7. \A f \in FileIds : Used(f)'
  <2>1. \A d \in Chans : pc'[d] # "base"
    BY <1>1, <1>4
  <2>2. Number(base.used)' = Number(base.used)
    BY <1>1 DEF Number
  <2> QED  BY <1>4, <1>5, <1>6, <2>1, <2>2 DEF Used
<1>8. FilesOf(c)'
  BY <1>1, <1>3, Names DEF FilesOf
<1>9. ASSUME NEW d \in Chans, d # c PROVE FilesOf(d)'
  <2>1. FilesOf(d) /\ pc[d] = "idle" /\ pc'[d] = "idle" /\ using'[d] = using[d]
    BY <1>1, <1>4, <1>9 DEF FilesInv
  <2> QED  BY <1>1, <1>5, <2>1 DEF FilesOf
<1>10. OneChannelPerFile'
  BY <1>1, <1>3 DEF FilesInv, OneChannelPerFile
<1>11. CountInv'
  <2>1. FullFiles' = FullFiles /\ Number(base.full)' = Number(base.full)
    BY <1>1, <1>5 DEF FullFiles, Number
  <2>2. ~Covering' /\ FillingOne'
    BY <1>1, <1>4 DEF Covering, FillingOne
  <2> QED  BY <1>4, <2>1, <2>2 DEF CountInv
<1> QED  BY <1>7, <1>8, <1>9, <1>10, <1>11 DEF FilesInv

\* ... and is counted as full.
LEMMA FilesFullBase ==
  ASSUME Exclusive, TypeInv, PlaceInv, IndexInv, FilesInv, CountInv, NEW c \in Chans,
         FullBase(c)
  PROVE  FilesInv' /\ CountInv'
<1>1. /\ pc[c] = "fillBase" /\ pc'[c] = "get" /\ using' = using /\ base' = new.base
      /\ full' = full
      /\ \A d \in Chans : d # c => pc'[d] = pc[d]
  BY DEF FullBase, TypeInv
<1>2. IndexOf(c) /\ base \in BaseBlock /\ base.full \in 0 .. NONE
  BY Fields DEF IndexInv
<1>3. /\ using[c].id = NONE /\ base'.used = base.used /\ base'.covered = base.covered
      /\ base'.full = FullSum
  BY <1>1, <1>2 DEF IndexOf, NotUsing, BaseBlock
<1>4. /\ \A d \in Chans : d # c => pc[d] = "idle"
      /\ \A f \in FileIds : IsFull(f) \/ InUse(f) <=> f < Number(base.used)
      /\ FillingOne /\ ~Covering
  BY <1>1, Changing
<1>5. \A f : (IsFull(f)' <=> IsFull(f)) /\ (InUse(f)' <=> InUse(f)) /\ (Last(f)' <=> Last(f))
  BY <1>1, <1>3 DEF IsFull, InUse, Last
<1>6. \A f \in FileIds : Used(f)'
  <2>1. \A d \in Chans : pc'[d] # "base"
    BY <1>1, <1>4
  <2>2. Number(base.used)' = Number(base.used)
    BY <1>3 DEF Number
  <2> QED  BY <1>4, <1>5, <2>1, <2>2 DEF Used
<1>7. FilesOf(c)'
  BY <1>1, <1>3, Names DEF FilesOf
<1>8. ASSUME NEW d \in Chans, d # c PROVE FilesOf(d)'
  <2>1. FilesOf(d) /\ pc[d] = "idle" /\ pc'[d] = "idle"
    BY <1>1, <1>4, <1>8 DEF FilesInv
  <2> QED  BY <1>1, <1>5, <2>1 DEF FilesOf
<1>9. OneChannelPerFile'
  BY <1>1 DEF FilesInv, OneChannelPerFile
<1>10. CountInv'
  <2> DEFINE k == Cardinality(FullFiles)
  <2>1. k \in 0 .. FILES /\ k = Number(base.full) + 1 /\ Number(base.full) \in Nat
    BY <1>2, <1>4, FullCard, Numbers DEF CountInv, Number
  <2>2. FullSum = k
    <3>1. FullSum = Inc(Number(base.full))
      BY DEF FullSum, Number
    <3>2. Number(base.full) \in 0 .. NONE /\ Number(base.full) < NONE
      BY <2>1, Numbers
    <3> QED  BY <2>1, <3>1, <3>2, Succ
  <2>3. Number(base.full)' = k
    BY <1>3, <2>1, <2>2, Numbers DEF Number
  <2>4. FullFiles' = FullFiles
    BY <1>5 DEF FullFiles
  <2>5. ~Covering' /\ ~FillingOne'
    BY <1>1, <1>4 DEF Covering, FillingOne
  <2> QED  BY <2>1, <2>3, <2>4, <2>5, Numbers DEF CountInv
<1> QED  BY <1>6, <1>7, <1>8, <1>9, <1>10 DEF FilesInv

\* So the counters agree with the entries after every step.
LEMMA FilesStep ==
  ASSUME Exclusive, IInv, NEW c \in Chans, Act(c), FilesInv, CountInv
  PROVE  FilesInv' /\ CountInv'
<1>1. TypeInv /\ PlaceInv /\ IndexInv /\ PlaceOf(c)
  BY DEF IInv, PlaceInv
<1>2. CASE UpdateFileIndex(c)
  BY <1>1, <1>2, FilesUpdate
<1>3. CASE WriteIndexUsing(c)
  BY <1>1, <1>3, FilesUsing
<1>4. CASE WriteIndexBase(c)
  BY <1>1, <1>4, FilesBase
<1>5. CASE WriteIndexFull(c)
  BY <1>1, <1>5, FilesFull
<1>6. CASE UpdateFull(c)
  BY <1>1, <1>6, FilesFill
<1>7. CASE FullUsing(c)
  BY <1>1, <1>7, FilesFullUsing
<1>8. CASE FullBase(c)
  BY <1>1, <1>8, FilesFullBase
<1>9. ASSUME \/ \E t \in Types : Start(c, t) \/ AddIndexRecLog(c, t)
             \/ GetDataFile(c) \/ OpenFails(c) \/ Frame(c) \/ SwitchFile(c) \/ Stop(c)
             \/ WriteFails(c)
      PROVE  FilesInv' /\ CountInv'
  <2>1. pc[c] \notin Locked /\ pc'[c] \notin Locked /\ base' = base /\ full' = full /\ new' = new
    <3>1. pc \in [Chans -> Pcs]
      BY <1>1 DEF TypeInv
    <3> QED  BY <1>9, <3>1 DEF Start, AddIndexRecLog, GetDataFile, OpenFails, Frame, SwitchFile,
                Stop, WriteFails, Locked, index
  <2>2. \A d \in Chans : d # c => pc'[d] = pc[d] /\ using'[d] = using[d]
    BY <1>1, Others
  <2>3. using'[c].id = using[c].id
    <3>1. pc[c] = "idle" \/ using' = using
      BY <1>9 DEF Start, AddIndexRecLog, GetDataFile, OpenFails, Frame, SwitchFile,
                Stop, WriteFails, index
    <3> QED  BY <1>1, <3>1, Quiet
  <2>4. \A d \in Chans : using'[d].id = using[d].id
    BY <2>2, <2>3
  <2>5. \A d \in Chans : pc[d] \notin Locked => pc'[d] \notin Locked
    BY <2>1, <2>2
  <2>6. \A d \in Chans : pc[d] \in Locked => pc'[d] = pc[d] /\ new' = new
    BY <2>1, <2>2
  <2> QED  BY <2>1, <2>4, <2>5, <2>6, FilesStay
<1> QED  BY <1>2, <1>3, <1>4, <1>5, <1>6, <1>7, <1>8, <1>9 DEF Act

-----------------------------------------------------------------------------
\* The logs.

\* What does not change keeps what is said of it.
LEMMA Kept ==
  ASSUME NEW f, NEW n \in Nat, \A i \in 0 .. n - 1 : log'[At(f, i)] = log[At(f, i)]
  PROVE  /\ \A off : Behind(f, n, off) => Behind(f, n, off)'
         /\ \A recs : Listing(f, recs, n) => Listing(f, recs, n)'
<1>1. \A off : Behind(f, n, off) => Behind(f, n, off)'
  BY DEF Behind
<1>2. ASSUME NEW recs, Listing(f, recs, n) PROVE Listing(f, recs, n)'
  <2>1. \A r \in 1 .. recs : \E i \in 0 .. n - 1 :
          log'[At(f, i)].seq = r /\ ~IS_MJPG_TYPE(log'[At(f, i)].type)
    BY <1>2 DEF Listing
  <2>2. CASE \E i \in 0 .. n - 1 : IS_MJPG_TYPE(log[At(f, i)].type)
    <3>1. \E i \in 0 .. n - 1 : IS_MJPG_TYPE(log'[At(f, i)].type)
      BY <2>2
    <3> QED  BY <2>1, <3>1 DEF Listing
  <2>3. CASE /\ n > 0 /\ log[At(f, n - 1)].seq = recs
             /\ \A i \in 0 .. n - 1 : log[At(f, i)].seq <= recs
             /\ \A i, j \in 0 .. n - 1 :
                  log[At(f, i)].seq < log[At(f, j)].seq =>
                    log[At(f, i)].stop <= log[At(f, j)].start
    <3>1. log'[At(f, n - 1)].seq = recs
      BY <2>3
    <3>2. \A i \in 0 .. n - 1 : log'[At(f, i)].seq <= recs
      BY <2>3
    <3>3. \A i, j \in 0 .. n - 1 :
            log'[At(f, i)].seq < log'[At(f, j)].seq =>
              log'[At(f, i)].stop <= log'[At(f, j)].start
      BY <2>3
    <3> QED  BY <2>1, <2>3, <3>1, <3>2, <3>3 DEF Listing
  <2> QED  BY <1>2, <2>2, <2>3 DEF Listing
<1> QED  BY <1>1, <1>2

\* A step writes the logs of the file its channel uses, or opens.
LEMMA Elsewhere ==
  ASSUME Exclusive, IInv, NEW c \in Chans, Act(c), NEW f \in FileIds,
         f # using[c].id, pc[c] = "index" => f # NewFile(c)
  PROVE  \A i \in 0 .. LOGS - 1 : log'[At(f, i)] = log[At(f, i)]
<1> SUFFICES ASSUME NEW i \in 0 .. LOGS - 1 PROVE log'[At(f, i)] = log[At(f, i)]
  OBVIOUS
<1>1. TypeInv /\ PlaceInv /\ IndexInv /\ PlaceOf(c) /\ IndexOf(c) /\ MaxLogs <= LOGS
  BY DEF IInv, PlaceInv, IndexInv, Exclusive
<1>2. At(f, i) \in Entries /\ log \in [Entries -> LogEntry]
  <2>1. i \in 0 .. LOGS
    BY Numbers
  <2> QED  BY <1>1, <2>1, Place DEF TypeInv
<1>3. ASSUME NEW t \in Types, AddIndexRecLog(c, t) PROVE log'[At(f, i)] = log[At(f, i)]
  <2>1. Open(c) /\ using[c].logs < MaxLogs
    BY <1>3 DEF AddIndexRecLog, MayLog, Reset, Fresh, Open
  <2>2. using[c].id \in FileIds /\ using[c].logs \in 0 .. LOGS - 1
    BY <1>1, <2>1, OpenFile, Fields, Numbers
  <2>3. At(f, i) # At(using[c].id, using[c].logs)
    BY <2>2, Place
  <2> QED  BY <1>2, <1>3, <2>3 DEF AddIndexRecLog
<1>4. CASE UpdateFileIndex(c)
  <2>1. pc[c] = "index" /\ rec[c].file = NewFile(c) /\ NewFile(c) \in FileIds
    BY <1>1, <1>4, Chosen DEF UpdateFileIndex, IndexOf, IndexInv
  <2>2. RecID(c, Shot(c)) \in 0 .. LOGS - 1
    BY <1>1, <2>1, NextLog DEF PlaceOf, IndexOf, IndexInv
  <2>3. At(f, i) # At(rec[c].file, RecID(c, Shot(c)))
    BY <2>1, <2>2, Place
  <2>4. At(f, i) \notin Wiped(c)
    <3>1. full[NewFile(c)].logs \in 0 .. MaxLogs
      BY <1>1, <2>1 DEF TypeInv, FullEntry
    <3>2. \A j \in 0 .. full[NewFile(c)].logs - 1 : j \in 0 .. LOGS - 1
      BY <1>1, <3>1, Numbers
    <3>3. \A j \in 0 .. full[NewFile(c)].logs - 1 : At(f, i) # At(NewFile(c), j)
      BY <2>1, <3>2, Place
    <3> QED  BY <3>3 DEF Wiped
  <2> QED  BY <1>2, <1>4, <2>3, <2>4 DEF UpdateFileIndex, Shot
<1>5. ASSUME NEW off \in 0 .. MaxOff, log' = Stamped(c, off) PROVE log'[At(f, i)] = log[At(f, i)]
  <2>1. using[c].id = NONE \/ At(f, i) \notin Counted(c)
    BY <1>1, InFile
  <2> QED  BY <1>1, <1>2, <1>5, <2>1, Stamps
<1>6. ASSUME Open(c), log' = Stamped(c, rec[c].off + 1) PROVE log'[At(f, i)] = log[At(f, i)]
  BY <1>5, <1>6, Offsets
<1>7. CASE Frame(c) \/ SwitchFile(c)
  BY <1>6, <1>7 DEF Frame, SwitchFile, Recording, Open
<1>8. CASE Stop(c)
  BY <1>6, <1>8 DEF Stop, Open
<1>9. ASSUME ~\E t \in Types : AddIndexRecLog(c, t), ~UpdateFileIndex(c), ~Frame(c),
             ~SwitchFile(c), ~Stop(c)
      PROVE  log' = log
  BY <1>9 DEF Act, Start, GetDataFile, OpenFails, WriteIndexUsing, WriteIndexBase,
     WriteIndexFull, UpdateFull, FullUsing, FullBase, WriteFails, index
<1> QED  BY <1>3, <1>4, <1>7, <1>8, <1>9

\* Neither are they those of another channel.
LEMMA OthersLog ==
  ASSUME Exclusive, IInv, NEW c \in Chans, Act(c), NEW d \in Chans, d # c
  PROVE  /\ torn = 0 /\ FilesInv /\ ~Alone
         /\ using[d].id # NONE =>
              /\ using[d].id \in FileIds
              /\ \A i \in 0 .. LOGS - 1 :
                   log'[At(using[d].id, i)] = log[At(using[d].id, i)]
         /\ pc[d] = "using" =>
              /\ new.using.id \in FileIds
              /\ \A i \in 0 .. LOGS - 1 :
                   log'[At(new.using.id, i)] = log[At(new.using.id, i)]
<1>1. ~Alone /\ MaxTorn = 0
  BY DEF Alone, Exclusive
<1>2. torn = 0 /\ FilesInv
  <2>1. torn \in 0 .. MaxTorn
    BY DEF IInv, TypeInv
  <2>2. torn = 0
    BY <1>1, <2>1, Numbers
  <2> QED  BY <2>2 DEF IInv, WholeInv
<1>3. TypeInv /\ PlaceInv /\ IndexInv
  BY DEF IInv
<1>4. ASSUME using[d].id # NONE
      PROVE  /\ using[d].id \in FileIds
             /\ \A i \in 0 .. LOGS - 1 : log'[At(using[d].id, i)] = log[At(using[d].id, i)]
  <2>1. using[d].id \in FileIds
    BY <1>3, <1>4, Fields
  <2>2. using[d].id # using[c].id
    BY <1>2, <1>4 DEF FilesInv, OneChannelPerFile
  <2>3. pc[c] = "index" => using[d].id # NewFile(c)
    BY <1>2, <1>3, OwnFile
  <2> QED  BY <2>1, <2>2, <2>3, Elsewhere
<1>5. ASSUME pc[d] = "using"
      PROVE  /\ new.using.id \in FileIds
             /\ \A i \in 0 .. LOGS - 1 : log'[At(new.using.id, i)] = log[At(new.using.id, i)]
  <2>1. new.using.id \in FileIds
    <3>1. new.using.id # NONE
      BY <1>3, <1>5 DEF IndexInv, IndexOf, Filled, FileOf
    <3> QED  BY <1>3, <3>1, Fields
  <2>2. using[c].id # new.using.id
    BY <1>2, <1>3, <1>5, OwnFile
  <2>3. pc[c] # "index"
    BY <1>3, <1>5 DEF PlaceInv
  <2> QED  BY <2>1, <2>2, <2>3, Elsewhere
<1> QED  BY <1>1, <1>2, <1>4, <1>5

\* An entry that an opening writes is the new one, the others stay unless they are wiped.
LEMMA Entry ==
  ASSUME Exclusive, IInv, NEW c \in Chans, UpdateFileIndex(c), ~new'.using.mjpg
  PROVE  /\ ~Shot(c) /\ ~using[c].mjpg /\ NewFile(c) \in FileIds
         /\ new'.using.id = NewFile(c) /\ using[c].id \in {NONE, NewFile(c)}
         /\ new'.using.recs = using[c].recs + 1 /\ new'.using.logs = using[c].logs + 1
         /\ using[c].logs \in 0 .. LOGS - 1 /\ using[c].recs \in Nat
         /\ log'[At(NewFile(c), using[c].logs)].type = rec[c].type
         /\ log'[At(NewFile(c), using[c].logs)].seq = using[c].recs + 1
         /\ log'[At(NewFile(c), using[c].logs)].start = rec[c].off
         /\ log'[At(NewFile(c), using[c].logs)].stop = rec[c].off
         /\ \A i \in 0 .. using[c].logs - 1 : log'[At(NewFile(c), i)] = log[At(NewFile(c), i)]
<1>1. TypeInv /\ PlaceOf(c) /\ IndexOf(c) /\ GoodBase(base) /\ GoodUsing(using[c])
      /\ MaxLogs <= LOGS /\ log \in [Entries -> LogEntry]
  BY DEF IInv, PlaceInv, IndexInv, IndexOf, Exclusive, TypeInv
<1>2. /\ pc[c] = "index" /\ new' = [base |-> NewBase(c), using |-> NewUsing(c, Shot(c))]
      /\ log' = [e \in Entries |->
                   IF e = At(rec[c].file, RecID(c, Shot(c))) THEN NewLog(c, Shot(c))
                   ELSE IF e \in Wiped(c) THEN NoLog ELSE log[e]]
  BY DEF UpdateFileIndex, Shot
<1>3. new'.using = NewUsing(c, Shot(c))
  BY <1>2
<1>4. using[c].logs < MaxLogs /\ (Shot(c) => using[c].logs + 1 < LOGS)
      /\ rec[c].file = NewFile(c)
  BY <1>1, <1>2 DEF PlaceOf, IndexOf
<1>5. ~Shot(c) /\ ~using[c].mjpg
  BY <1>1, <1>3, <1>4, NextUsing
<1>6. /\ new'.using.id = NewFile(c)
      /\ new'.using.recs = using[c].recs + 1 /\ new'.using.logs = using[c].logs + 1
  BY <1>1, <1>3, <1>4, <1>5, NextUsing
<1>7. /\ RecID(c, Shot(c)) = using[c].logs
      /\ NewLog(c, Shot(c)).type = rec[c].type /\ NewLog(c, Shot(c)).seq = using[c].recs + 1
      /\ NewLog(c, Shot(c)).start = rec[c].off /\ NewLog(c, Shot(c)).stop = rec[c].off
  BY <1>1, <1>4, <1>5, NextLog
<1>8. /\ using[c].logs \in 0 .. LOGS - 1 /\ using[c].recs \in Nat
      /\ NewFile(c) \in FileIds
  BY <1>1, <1>4, Fields, Numbers, Chosen
<1>9. At(NewFile(c), using[c].logs) \in Entries
  <2>1. using[c].logs \in 0 .. LOGS
    BY <1>8, Numbers
  <2> QED  BY <1>8, <2>1, Place
<1>10. log'[At(NewFile(c), using[c].logs)] = NewLog(c, Shot(c))
  BY <1>2, <1>4, <1>7, <1>9
<1>11. ASSUME NEW i \in 0 .. using[c].logs - 1
       PROVE  log'[At(NewFile(c), i)] = log[At(NewFile(c), i)]
  <2>1. i \in 0 .. LOGS - 1 /\ i \in 0 .. LOGS /\ i # using[c].logs
    BY <1>8, Numbers
  <2>2. At(NewFile(c), i) # At(NewFile(c), using[c].logs) /\ At(NewFile(c), i) \in Entries
    BY <1>8, <2>1, Place
  <2>3. using[c].id # NONE
    BY <1>1, <1>8, Numbers DEF GoodUsing, NotUsing
  <2>4. Wiped(c) = {}
    BY <2>3 DEF Wiped, Covers
  <2> QED  BY <1>2, <1>4, <1>7, <2>2, <2>4
<1>12. using[c].id \in {NONE, NewFile(c)}
  BY DEF NewFile
<1> QED  BY <1>5, <1>6, <1>7, <1>8, <1>10, <1>11, <1>12

\* An added log repeats the last one; the others stay.
LEMMA Added ==
  ASSUME Exclusive, IInv, NEW c \in Chans, NEW t \in Types, AddIndexRecLog(c, t)
  PROVE  /\ Open(c) /\ pc[c] = "idle" /\ pc' = pc
         /\ using[c].logs \in 0 .. LOGS - 1 /\ using[c].id \in FileIds
         /\ using'[c].id = using[c].id /\ using'[c].mjpg = using[c].mjpg
         /\ using'[c].recs = using[c].recs /\ using'[c].logs = using[c].logs + 1
         /\ rec'[c].state = rec[c].state /\ rec'[c].off = rec[c].off
         /\ \A i \in 0 .. using[c].logs - 1 :
              log'[At(using[c].id, i)] = log[At(using[c].id, i)]
         /\ log'[At(using[c].id, using[c].logs)] =
              [log[At(using[c].id, using[c].logs - 1)] EXCEPT !.type = {t}, !.start = rec[c].off]
<1>1. /\ TypeInv /\ PlaceInv /\ IndexInv /\ MaxLogs <= LOGS
      /\ using \in [Chans -> UsingEntry] /\ log \in [Entries -> LogEntry]
      /\ rec \in [Chans -> Record]
  BY DEF IInv, TypeInv, Exclusive
<1>2. /\ Open(c) /\ pc[c] = "idle" /\ pc' = pc /\ using[c].logs < MaxLogs
      /\ rec'[c] = [rec[c] EXCEPT !.type = @ \cup {t}]
      /\ log' = [log EXCEPT ![At(using[c].id, using[c].logs)] =
           [log[At(using[c].id, using[c].logs - 1)] EXCEPT !.type = {t}, !.start = rec[c].off]]
  BY <1>1 DEF AddIndexRecLog, MayLog, Reset, Fresh, Open
<1>3. /\ using[c].id \in FileIds /\ using[c].logs \in 0 .. LOGS - 1
      /\ rec[c] \in Record /\ using[c] \in UsingEntry
  BY <1>1, <1>2, OpenFile, Fields, Numbers
<1>4. using'[c] = [using[c] EXCEPT !.logs = using[c].logs + 1]
  <2>1. ~(using[c].logs + 1 > LOGS)
    BY <1>3, Numbers
  <2> QED  BY <1>1, <2>1 DEF AddIndexRecLog
<1>5. /\ using'[c].id = using[c].id /\ using'[c].mjpg = using[c].mjpg
      /\ using'[c].recs = using[c].recs /\ using'[c].logs = using[c].logs + 1
  BY <1>3, <1>4 DEF UsingEntry
<1>6. rec'[c].state = rec[c].state /\ rec'[c].off = rec[c].off
  BY <1>2, <1>3 DEF Record
<1>7. At(using[c].id, using[c].logs) \in Entries
  <2>1. using[c].logs \in 0 .. LOGS
    BY <1>3, Numbers
  <2> QED  BY <1>3, <2>1, Place
<1>8. ASSUME NEW i \in 0 .. using[c].logs - 1
      PROVE  log'[At(using[c].id, i)] = log[At(using[c].id, i)]
  <2>1. i \in 0 .. LOGS - 1 /\ i \in 0 .. LOGS /\ i # using[c].logs
    BY <1>3, Numbers
  <2>2. At(using[c].id, i) # At(using[c].id, using[c].logs) /\ At(using[c].id, i) \in Entries
    BY <1>3, <2>1, Place
  <2> QED  BY <1>1, <1>2, <2>2
<1> QED  BY <1>1, <1>2, <1>3, <1>5, <1>6, <1>7, <1>8

\* A frame or a tail stamps logs of the recording's file.
LEMMA Stamping ==
  ASSUME Exclusive, IInv, NEW c \in Chans, Open(c), log' = Stamped(c, rec[c].off + 1)
  PROVE  /\ using[c].id \in FileIds /\ using[c].logs \in 0 .. LOGS
         /\ rec[c].off \in Nat /\ rec[c].off + 1 \in 0 .. MaxOff
         /\ \A i \in 0 .. using[c].logs - 1 :
              /\ log[At(using[c].id, i)].stop \in Nat /\ log[At(using[c].id, i)].start \in Nat
              /\ log[At(using[c].id, i)].seq \in Nat
              /\ log'[At(using[c].id, i)].type = log[At(using[c].id, i)].type
              /\ log'[At(using[c].id, i)].seq = log[At(using[c].id, i)].seq
              /\ log'[At(using[c].id, i)].start = log[At(using[c].id, i)].start
              /\ log'[At(using[c].id, i)].stop \in {log[At(using[c].id, i)].stop, rec[c].off + 1}
              /\ log[At(using[c].id, i)].seq # using[c].recs
                 /\ ~IS_MJPG_TYPE(log[At(using[c].id, i)].type) =>
                   log'[At(using[c].id, i)].stop = log[At(using[c].id, i)].stop
<1>1. TypeInv /\ PlaceInv /\ IndexInv /\ MaxLogs <= LOGS
  BY DEF IInv, Exclusive
<1>2. using[c].id # NONE /\ using[c].id \in FileIds
  BY <1>1, OpenFile
<1>3. /\ using[c].logs \in 0 .. LOGS
      /\ rec[c].off \in Nat /\ rec[c].off + 1 \in 0 .. MaxOff
  BY <1>1, Fields, Offsets, Numbers
<1>4. ASSUME NEW i \in 0 .. using[c].logs - 1, NEW e, e = At(using[c].id, i)
      PROVE  /\ log[e].stop \in Nat /\ log[e].start \in Nat /\ log[e].seq \in Nat
             /\ log'[e].type = log[e].type /\ log'[e].seq = log[e].seq
             /\ log'[e].start = log[e].start
             /\ log'[e].stop \in {log[e].stop, rec[c].off + 1}
             /\ log[e].seq # using[c].recs /\ ~IS_MJPG_TYPE(log[e].type) =>
                  log'[e].stop = log[e].stop
  <2>1. e \in Entries
    BY <1>1, <1>2, <1>4, InFile
  <2>2. log[e].stop \in Nat /\ log[e].start \in Nat /\ log[e].seq \in Nat
    BY <1>1, <2>1, Fields, Numbers
  <2> QED  BY <1>1, <1>3, <2>1, <2>2, Stamps
<1> QED  BY <1>2, <1>3, <1>4

\* A recording goes on behind the logs of its file.
LEMMA OffsetStep ==
  ASSUME Exclusive, IInv, NEW c \in Chans, Act(c)
  PROVE  OffsetInv'
<1>1. TypeInv /\ PlaceInv /\ PlaceOf(c) /\ IndexInv /\ IndexOf(c) /\ OffsetOf(c) /\ MaxLogs <= LOGS
  BY DEF IInv, PlaceInv, IndexInv, OffsetInv, Exclusive
<1>2. /\ pc \in [Chans -> Pcs] /\ rec \in [Chans -> Record] /\ using \in [Chans -> UsingEntry]
  BY <1>1 DEF TypeInv
<1>3. /\ rec[c] \in Record /\ rec[c].off \in 0 .. MaxOff /\ using[c] \in UsingEntry
      /\ using[c].logs \in 0 .. MaxLogs /\ using[c].id \in FileIds \cup {NONE}
  BY <1>1, Fields
<1>4. ASSUME NEW d \in Chans, d # c PROVE OffsetOf(d)'
  <2>1. pc'[d] = pc[d] /\ rec'[d] = rec[d] /\ using'[d] = using[d] /\ OffsetOf(d)
    BY <1>1, <1>4, Others DEF IInv, OffsetInv
  <2>2. starter' = d <=> starter = d
    BY <1>1, <1>4, OthersPlace
  <2>3. (Open(d)' <=> Open(d))
    BY <2>1 DEF Open
  <2>4. using[d].logs \in Nat /\ using[d].logs <= LOGS /\ (using[d].id = NONE => using[d].logs = 0)
    BY <1>1, Fields, Numbers DEF IndexInv, IndexOf, GoodUsing, NotUsing
  <2>5. \A i \in 0 .. using[d].logs - 1 : log'[At(using[d].id, i)] = log[At(using[d].id, i)]
    <3>1. CASE using[d].id = NONE
      BY <2>4, <3>1
    <3>2. CASE using[d].id # NONE
      <4>1. \A i \in 0 .. LOGS - 1 : log'[At(using[d].id, i)] = log[At(using[d].id, i)]
        BY <1>4, <3>2, OthersLog
      <4> QED  BY <2>4, <4>1, Numbers
    <3> QED  BY <3>1, <3>2
  <2>6. Behind(using[d].id, using[d].logs, rec[d].off) =>
          Behind(using[d].id, using[d].logs, rec[d].off)'
    BY <2>1, <2>4, <2>5 DEF Behind
  <2>7. pc[d] = "get" => \A i \in 0 .. using'[d].logs - 1 :
                           log'[At(using'[d].id, i)].stop < MaxOff
    BY <2>1, <2>5 DEF OffsetOf
  <2>8. pc[d] = "using" /\ ~new'.using.mjpg => Behind(new.using.id, new.using.logs, rec[d].off)'
    <3> SUFFICES ASSUME pc[d] = "using", ~new'.using.mjpg
                 PROVE  Behind(new.using.id, new.using.logs, rec[d].off)'
      OBVIOUS
    <3>1. pc[c] = "idle"
      BY <1>1, <1>4 DEF PlaceInv
    <3>2. new' = new
      BY <1>1, <3>1, Quiet
    <3>3. Behind(new.using.id, new.using.logs, rec[d].off)
      BY <2>1, <3>2 DEF OffsetOf
    <3>4. new.using.logs \in Nat /\ new.using.logs <= LOGS
      BY <1>1, Fields, Numbers DEF UsingEntry
    <3>5. \A i \in 0 .. new.using.logs - 1 : log'[At(new.using.id, i)] = log[At(new.using.id, i)]
      <4>1. \A i \in 0 .. LOGS - 1 : log'[At(new.using.id, i)] = log[At(new.using.id, i)]
        BY <1>4, OthersLog
      <4> QED  BY <3>4, <4>1, Numbers
    <3> QED  BY <2>1, <3>2, <3>3, <3>5 DEF Behind
  <2> QED  BY <2>1, <2>2, <2>3, <2>6, <2>7, <2>8 DEF OffsetOf
<1>5. ASSUME Behind(using[c].id, using[c].logs, rec[c].off), log' = log, using'[c] = using[c],
             rec'[c].off = rec[c].off
      PROVE  Behind(using[c].id, using[c].logs, rec[c].off)'
  BY <1>5 DEF Behind
<1>6. ASSUME log' = log, using'[c] = using[c], rec'[c].off = rec[c].off,
             pc[c] = "idle" \/ pc[c] = "write",
             pc'[c] = "idle", Open(c)' => Open(c)
      PROVE  OffsetOf(c)'
  <2>1. Open(c)' /\ ~using'[c].mjpg => Behind(using[c].id, using[c].logs, rec[c].off)'
    BY <1>1, <1>5, <1>6 DEF OffsetOf
  <2> QED  BY <1>1, <1>6, <2>1 DEF OffsetOf
<1>7. ASSUME NEW t \in Types, Start(c, t) PROVE OffsetOf(c)'
  <2>1. /\ pc[c] = "idle" /\ using' = using /\ log' = log /\ StartOffset(c) < MaxOff
        /\ rec'[c] = [Reset(c) EXCEPT !.type = @ \cup {t}]
        /\ pc'[c] = IF Reset(c).state = "init" THEN "get" ELSE "idle"
    BY <1>2, <1>7 DEF Start, MayLog, index
  <2>2. CASE Reset(c).state = "init"
    <3>1. pc'[c] = "get" /\ ~Open(c)'
      BY <2>1, <2>2 DEF Open
    <3>2. \A i \in 0 .. using[c].logs - 1 : log[At(using[c].id, i)].stop < MaxOff
      <4>1. CASE using[c].id = NONE
        <5>1. using[c].logs = 0
          BY <1>1, <4>1 DEF IndexOf, GoodUsing, NotUsing
        <5> QED  BY <5>1
      <4>2. CASE using[c].id # NONE
        <5> SUFFICES ASSUME NEW i \in 0 .. using[c].logs - 1
                     PROVE  log[At(using[c].id, i)].stop < MaxOff
          OBVIOUS
        <5>1. log[At(using[c].id, i)].stop <= StartOffset(c) /\ StartOffset(c) \in 0 .. MaxOff
          BY <1>1, <4>2, BehindAll
        <5>2. log[At(using[c].id, i)].stop \in 0 .. MaxOff
          BY <1>1, <4>2, InFile, Fields
        <5> QED  BY <2>1, <5>1, <5>2, Numbers
      <4> QED  BY <4>1, <4>2
    <3> QED  BY <2>1, <3>1, <3>2 DEF OffsetOf
  <2>3. CASE Reset(c).state # "init"
    <3>1. Reset(c) = rec[c] /\ pc'[c] = "idle"
      <4>1. ASSUME c \notin listed PROVE FALSE
        BY <1>1, <2>3, <4>1 DEF Reset, PlaceOf, Fresh
      <4> QED  BY <2>1, <2>3, <4>1 DEF Reset
    <3>2. rec'[c].state = rec[c].state /\ rec'[c].off = rec[c].off
      BY <1>3, <2>1, <3>1 DEF Record
    <3>3. Open(c)' => Open(c)
      BY <2>1, <3>2 DEF Open
    <3> QED  BY <1>6, <2>1, <3>1, <3>2, <3>3
  <2> QED  BY <2>2, <2>3
<1>8. ASSUME NEW t \in Types, AddIndexRecLog(c, t) PROVE OffsetOf(c)'
  <2>1. /\ Open(c) /\ pc[c] = "idle" /\ pc' = pc
        /\ using[c].logs \in 0 .. LOGS - 1 /\ using[c].id \in FileIds
        /\ using'[c].id = using[c].id /\ using'[c].mjpg = using[c].mjpg
        /\ using'[c].logs = using[c].logs + 1
        /\ rec'[c].state = rec[c].state /\ rec'[c].off = rec[c].off
        /\ \A i \in 0 .. using[c].logs - 1 :
             log'[At(using[c].id, i)] = log[At(using[c].id, i)]
        /\ log'[At(using[c].id, using[c].logs)] =
             [log[At(using[c].id, using[c].logs - 1)] EXCEPT !.type = {t}, !.start = rec[c].off]
    BY <1>8, Added
  <2>2. ASSUME ~using[c].mjpg PROVE Behind(using[c].id, using[c].logs, rec[c].off)'
    <3>1. Behind(using[c].id, using[c].logs, rec[c].off)
      BY <1>1, <2>1, <2>2 DEF OffsetOf
    <3>2. using[c].logs > 0
      BY <1>1, <2>1, <2>2, OpenFile
    <3>3. using[c].logs - 1 \in 0 .. using[c].logs - 1 /\ using[c].id # NONE
      BY <1>3, <2>1, <3>2, Numbers, Names
    <3>4. At(using[c].id, using[c].logs - 1) \in Entries
      BY <1>1, <3>3, InFile
    <3>5. log'[At(using[c].id, using[c].logs)].stop = log[At(using[c].id, using[c].logs - 1)].stop
      <4>1. log[At(using[c].id, using[c].logs - 1)] \in LogEntry
        BY <1>1, <3>4, Fields
      <4> QED  BY <2>1, <4>1 DEF LogEntry
    <3>6. \A i \in 0 .. using[c].logs - 1 : log'[At(using[c].id, i)].stop <= rec[c].off
      BY <2>1, <3>1 DEF Behind
    <3>7. log'[At(using[c].id, using[c].logs)].stop <= rec[c].off
      BY <3>1, <3>3, <3>5 DEF Behind
    <3>8. \A i \in 0 .. using[c].logs : i = using[c].logs \/ i \in 0 .. using[c].logs - 1
      BY <1>3, Numbers
    <3>9. \A i \in 0 .. (using[c].logs + 1) - 1 : i \in 0 .. using[c].logs
      BY <1>3, Numbers
    <3>10. \A i \in 0 .. (using[c].logs + 1) - 1 : log'[At(using[c].id, i)].stop <= rec[c].off
      BY <3>6, <3>7, <3>8, <3>9
    <3> QED  BY <2>1, <3>10 DEF Behind
  <2>3. rec[c].off < MaxOff
    BY <1>1, <2>1 DEF OffsetOf
  <2> QED  BY <2>1, <2>2, <2>3 DEF OffsetOf
<1>9. ASSUME GetDataFile(c) PROVE OffsetOf(c)'
  <2>1. /\ pc[c] = "get" /\ pc'[c] = "index" /\ using' = using /\ log' = log /\ starter' = starter
        /\ rec'[c] = [rec[c] EXCEPT !.file = DataFile(c), !.off = StartOffset(c)]
    BY <1>2, <1>9 DEF GetDataFile, index
  <2>2. rec'[c].off = StartOffset(c)
    BY <1>3, <2>1 DEF Record
  <2>3. StartOffset(c) < MaxOff
    <3>1. \A i \in 0 .. using[c].logs - 1 : log[At(using[c].id, i)].stop < MaxOff
      BY <1>1, <2>1 DEF OffsetOf
    <3>2. \/ StartOffset(c) = 0
          \/ \E i \in 0 .. using[c].logs - 1 : StartOffset(c) = log[At(using[c].id, i)].stop
      BY <1>1, BehindAll
    <3> QED  BY <3>1, <3>2, Numbers
  <2>4. Behind(using[c].id, using[c].logs, StartOffset(c))
    <3>1. CASE using[c].id = NONE
      <4>1. using[c].logs = 0
        BY <1>1, <3>1 DEF IndexOf, GoodUsing, NotUsing
      <4> QED  BY <4>1 DEF Behind
    <3>2. CASE using[c].id # NONE
      BY <1>1, <3>2, BehindAll DEF Behind
    <3> QED  BY <3>1, <3>2
  <2>5. Behind(using[c].id, using[c].logs, rec[c].off)'
    BY <2>1, <2>2, <2>4 DEF Behind
  <2>6. starter # c => StartOffset(c) = 0
    BY <1>1, <2>1, BehindAll DEF PlaceOf
  <2>7. ~Open(c)'
    BY <2>1 DEF Open
  <2> QED  BY <2>1, <2>2, <2>3, <2>5, <2>6, <2>7 DEF OffsetOf
<1>10. ASSUME OpenFails(c) PROVE OffsetOf(c)'
  <2>1. pc[c] = "get" /\ pc'[c] = "idle" /\ rec' = rec
    BY <1>2, <1>10 DEF OpenFails, index
  <2>2. ~Open(c)'
    BY <1>1, <2>1 DEF Open, PlaceOf, Opening
  <2> QED  BY <2>1, <2>2 DEF OffsetOf
<1>11. ASSUME UpdateFileIndex(c) PROVE OffsetOf(c)'
  <2>1. /\ pc[c] = "index" /\ pc'[c] = "using" /\ rec' = rec /\ starter' = starter
    BY <1>2, <1>11 DEF UpdateFileIndex
  <2>2. ASSUME ~new'.using.mjpg PROVE Behind(new.using.id, new.using.logs, rec[c].off)'
    <3> DEFINE n == using[c].logs
    <3>1. /\ NewFile(c) \in FileIds /\ new'.using.id = NewFile(c)
          /\ using[c].id \in {NONE, NewFile(c)} /\ new'.using.logs = n + 1
          /\ n \in 0 .. LOGS - 1
          /\ log'[At(NewFile(c), n)].stop = rec[c].off
          /\ \A i \in 0 .. n - 1 : log'[At(NewFile(c), i)] = log[At(NewFile(c), i)]
      BY <1>11, <2>2, Entry
    <3>2. Behind(using[c].id, n, rec[c].off) /\ rec[c].off \in 0 .. MaxOff
      BY <1>1, <1>3, <2>1 DEF OffsetOf
    <3>3. using[c].id = NONE => n = 0
      BY <1>1 DEF IndexOf, GoodUsing, NotUsing
    <3> HIDE DEF n
    <3>4. \A i \in 0 .. n - 1 : log'[At(NewFile(c), i)].stop <= rec[c].off
      BY <3>1, <3>2, <3>3 DEF Behind
    <3>5. \A i \in 0 .. (n + 1) - 1 : i = n \/ i \in 0 .. n - 1
      BY <3>1, Numbers
    <3>6. \A i \in 0 .. (n + 1) - 1 : log'[At(NewFile(c), i)].stop <= rec[c].off
      BY <3>1, <3>2, <3>4, <3>5, Numbers
    <3> QED  BY <2>1, <3>1, <3>6 DEF Behind
  <2>3. ~Open(c)'
    BY <2>1 DEF Open
  <2> QED  BY <1>1, <2>1, <2>2, <2>3 DEF OffsetOf
<1>12. ASSUME WriteIndexUsing(c) PROVE OffsetOf(c)'
  <2>1. /\ pc[c] = "using" /\ pc'[c] = "base" /\ rec' = rec /\ starter' = starter
        /\ using'[c] = new.using /\ log' = log
    BY <1>2, <1>12 DEF WriteIndexUsing
  <2>2. ~using'[c].mjpg => Behind(using[c].id, using[c].logs, rec[c].off)'
    BY <1>1, <2>1 DEF OffsetOf, Behind
  <2> QED  BY <1>1, <2>1, <2>2 DEF OffsetOf
<1>13. ASSUME WriteIndexBase(c) PROVE OffsetOf(c)'
  <2>1. /\ pc[c] = "base" /\ pc'[c] = "full" /\ rec' = rec /\ starter' = starter
        /\ using' = using /\ log' = log
    BY <1>2, <1>13 DEF WriteIndexBase
  <2>2. ~using'[c].mjpg => Behind(using[c].id, using[c].logs, rec[c].off)'
    BY <1>1, <1>5, <2>1 DEF OffsetOf
  <2> QED  BY <1>1, <2>1, <2>2 DEF OffsetOf
<1>14. ASSUME WriteIndexFull(c) PROVE OffsetOf(c)'
  <2>1. /\ pc[c] = "full" /\ pc'[c] = (IF starter = c THEN "idle" ELSE "write")
        /\ using' = using /\ log' = log
        /\ rec'[c] = [rec[c] EXCEPT !.state = "start"]
    BY <1>2, <1>14 DEF WriteIndexFull
  <2>2. rec'[c].off = rec[c].off
    BY <1>3, <2>1 DEF Record
  <2>3. ~using'[c].mjpg => Behind(using[c].id, using[c].logs, rec[c].off)'
    BY <1>1, <1>5, <2>1, <2>2 DEF OffsetOf
  <2> QED  BY <1>1, <2>1, <2>2, <2>3 DEF OffsetOf
<1>15. ASSUME Frame(c) PROVE OffsetOf(c)'
  <2>1. /\ Open(c) /\ pc'[c] = "idle" /\ using' = using /\ log' = Stamped(c, rec[c].off + 1)
        /\ rec'[c] = [rec[c] EXCEPT !.off = @ + 1, !.state = "write"]
        /\ (pc[c] = "idle" /\ Fits(c)) \/ pc[c] = "write"
    BY <1>2, <1>15 DEF Frame, Recording, Open
  <2>2. rec'[c].off = rec[c].off + 1
    BY <1>3, <2>1 DEF Record
  <2>3. rec[c].off + 1 < MaxOff
    <3>1. CASE pc[c] = "write"
      BY <1>1, <3>1, Numbers DEF OffsetOf, PlaceOf
    <3>2. CASE Fits(c)
      BY <1>3, <3>2, Numbers DEF Fits
    <3> QED  BY <2>1, <3>1, <3>2
  <2>4. ASSUME ~using[c].mjpg PROVE Behind(using[c].id, using[c].logs, rec[c].off)'
    <3>1. Behind(using[c].id, using[c].logs, rec[c].off)
      BY <1>1, <2>1, <2>4 DEF OffsetOf
    <3>2. \A i \in 0 .. using[c].logs - 1 :
            /\ log[At(using[c].id, i)].stop \in Nat
            /\ log'[At(using[c].id, i)].stop \in {log[At(using[c].id, i)].stop, rec[c].off + 1}
      BY <2>1, Stamping
    <3>3. \A i \in 0 .. using[c].logs - 1 : log'[At(using[c].id, i)].stop <= rec[c].off + 1
      BY <1>3, <3>1, <3>2, Numbers DEF Behind
    <3> QED  BY <2>1, <2>2, <3>3 DEF Behind
  <2> QED  BY <2>1, <2>2, <2>3, <2>4 DEF OffsetOf
<1>16. ASSUME SwitchFile(c) \/ UpdateFull(c) \/ FullUsing(c) PROVE OffsetOf(c)'
  <2>1. pc'[c] \in {"fill", "fillUsing", "fillBase"}
    BY <1>2, <1>16 DEF SwitchFile, UpdateFull, FullUsing
  <2> QED  BY <2>1 DEF OffsetOf, Open
<1>17. ASSUME FullBase(c) PROVE OffsetOf(c)'
  <2>1. pc[c] = "fillBase" /\ pc'[c] = "get" /\ using' = using
    BY <1>2, <1>17 DEF FullBase
  <2>2. using'[c].logs = 0
    BY <1>1, <2>1 DEF IndexOf, NotUsing
  <2> QED  BY <2>1, <2>2 DEF OffsetOf, Open
<1>18. ASSUME Stop(c) PROVE OffsetOf(c)'
  <2>1. pc'[c] = "idle" /\ rec'[c].state \in {"init", "close"}
    BY <1>2, <1>3, <1>18 DEF Stop, Record
  <2> QED  BY <2>1 DEF OffsetOf, Open
<1>19. ASSUME WriteFails(c) PROVE OffsetOf(c)'
  <2>1. /\ Open(c) /\ pc'[c] = "idle" /\ using' = using /\ log' = log /\ rec' = rec
        /\ pc[c] = "idle" \/ pc[c] = "write"
    BY <1>2, <1>19 DEF WriteFails, Recording, Open, index
  <2> QED  BY <1>6, <2>1
<1>20. OffsetOf(c)'
  BY <1>7, <1>8, <1>9, <1>10, <1>11, <1>12, <1>13, <1>14, <1>15, <1>16, <1>17, <1>18, <1>19
     DEF Act
<1> QED  BY <1>4, <1>20 DEF OffsetInv

\* The three ways the logs of a file change: a log that repeats the last one, ...
LEMMA ListAdd ==
  ASSUME NEW f, NEW recs \in Nat, NEW n \in Nat, n > 0, NEW off,
         Listing(f, recs, n), Behind(f, n, off),
         \A i \in 0 .. n - 1 : log[At(f, i)] \in LogEntry,
         \A i \in 0 .. n - 1 : log'[At(f, i)] = log[At(f, i)],
         log'[At(f, n)].seq = log[At(f, n - 1)].seq, log'[At(f, n)].start = off
  PROVE  Listing(f, recs, n + 1)'
<1>1. \A i \in 0 .. (n + 1) - 1 : i = n \/ i \in 0 .. n - 1
  OBVIOUS
<1>2. \A r \in 1 .. recs : \E i \in 0 .. (n + 1) - 1 :
        log'[At(f, i)].seq = r /\ ~IS_MJPG_TYPE(log'[At(f, i)].type)
  <2> TAKE r \in 1 .. recs
  <2>1. PICK i \in 0 .. n - 1 : log[At(f, i)].seq = r /\ ~IS_MJPG_TYPE(log[At(f, i)].type)
    BY DEF Listing
  <2>2. i \in 0 .. (n + 1) - 1
    OBVIOUS
  <2> QED  BY <2>1, <2>2
<1>3. CASE \E i \in 0 .. n - 1 : IS_MJPG_TYPE(log[At(f, i)].type)
  <2>1. PICK i \in 0 .. n - 1 : IS_MJPG_TYPE(log[At(f, i)].type)
    BY <1>3
  <2>2. i \in 0 .. (n + 1) - 1 /\ IS_MJPG_TYPE(log'[At(f, i)].type)
    BY <2>1
  <2> QED  BY <1>2, <2>2 DEF Listing
<1>4. CASE /\ n > 0 /\ log[At(f, n - 1)].seq = recs
           /\ \A i \in 0 .. n - 1 : log[At(f, i)].seq <= recs
           /\ \A i, j \in 0 .. n - 1 :
                log[At(f, i)].seq < log[At(f, j)].seq =>
                  log[At(f, i)].stop <= log[At(f, j)].start
  <2>1. log'[At(f, (n + 1) - 1)].seq = recs
    <3>1. (n + 1) - 1 = n
      OBVIOUS
    <3> QED  BY <1>4, <3>1
  <2>2. /\ \A i \in 0 .. n - 1 : log[At(f, i)].seq \in Nat
        /\ log'[At(f, n)].seq = recs
    BY <1>4, Numbers DEF LogEntry
  <2>3. \A i \in 0 .. (n + 1) - 1 : log'[At(f, i)].seq \in Nat /\ log'[At(f, i)].seq <= recs
    <3> TAKE i \in 0 .. (n + 1) - 1
    <3>1. CASE i = n
      BY <2>2, <3>1
    <3>2. CASE i \in 0 .. n - 1
      BY <1>4, <2>2, <3>2
    <3> QED  BY <1>1, <3>1, <3>2
  <2>4. ASSUME NEW i \in 0 .. (n + 1) - 1, NEW j \in 0 .. (n + 1) - 1,
               log'[At(f, i)].seq < log'[At(f, j)].seq
        PROVE  log'[At(f, i)].stop <= log'[At(f, j)].start
    <3>1. i # n
      <4>1. log'[At(f, j)].seq <= recs /\ log'[At(f, j)].seq \in Nat
        BY <2>3
      <4> QED  BY <2>2, <2>4, <4>1
    <3>2. i \in 0 .. n - 1
      BY <1>1, <3>1
    <3>3. CASE j = n
      BY <3>2, <3>3 DEF Behind
    <3>4. CASE j \in 0 .. n - 1
      BY <1>4, <2>4, <3>2, <3>4
    <3> QED  BY <1>1, <3>3, <3>4
  <2> QED  BY <1>2, <2>1, <2>3, <2>4 DEF Listing
<1> QED  BY <1>3, <1>4 DEF Listing

\* A log that begins the next recording, behind the others, ...
LEMMA ListNew ==
  ASSUME NEW f, NEW recs \in Nat, NEW n \in Nat, NEW off \in Nat,
         Listing(f, recs, n) \/ (n = 0 /\ recs = 0), Behind(f, n, off),
         \A i \in 0 .. n - 1 : log[At(f, i)] \in LogEntry,
         \A i \in 0 .. n - 1 : log'[At(f, i)] = log[At(f, i)],
         ~IS_MJPG_TYPE(log'[At(f, n)].type), log'[At(f, n)].seq = recs + 1,
         log'[At(f, n)].start = off
  PROVE  Listing(f, recs + 1, n + 1)'
<1>1. \A i \in 0 .. (n + 1) - 1 : i = n \/ i \in 0 .. n - 1
  OBVIOUS
<1>2. n \in 0 .. (n + 1) - 1 /\ \A i \in 0 .. n - 1 : i \in 0 .. (n + 1) - 1
  OBVIOUS
<1>3. \A r \in 1 .. recs : \E i \in 0 .. n - 1 :
        log[At(f, i)].seq = r /\ ~IS_MJPG_TYPE(log[At(f, i)].type)
  BY DEF Listing
<1>4. \A r \in 1 .. recs + 1 : \E i \in 0 .. (n + 1) - 1 :
        log'[At(f, i)].seq = r /\ ~IS_MJPG_TYPE(log'[At(f, i)].type)
  <2> TAKE r \in 1 .. recs + 1
  <2>1. CASE r = recs + 1
    BY <1>2, <2>1
  <2>2. CASE r \in 1 .. recs
    <3>1. PICK i \in 0 .. n - 1 : log[At(f, i)].seq = r /\ ~IS_MJPG_TYPE(log[At(f, i)].type)
      BY <1>3, <2>2
    <3> QED  BY <1>2, <3>1
  <2> QED  BY <2>1, <2>2
<1>5. CASE \E i \in 0 .. n - 1 : IS_MJPG_TYPE(log[At(f, i)].type)
  <2>1. PICK i \in 0 .. n - 1 : IS_MJPG_TYPE(log[At(f, i)].type)
    BY <1>5
  <2>2. i \in 0 .. (n + 1) - 1 /\ IS_MJPG_TYPE(log'[At(f, i)].type)
    BY <1>2, <2>1
  <2> QED  BY <1>4, <2>2 DEF Listing
<1>6. CASE /\ \A i \in 0 .. n - 1 : log[At(f, i)].seq <= recs
           /\ \A i, j \in 0 .. n - 1 :
                log[At(f, i)].seq < log[At(f, j)].seq =>
                  log[At(f, i)].stop <= log[At(f, j)].start
  <2>1. log'[At(f, (n + 1) - 1)].seq = recs + 1 /\ n + 1 > 0
    <3>1. (n + 1) - 1 = n
      OBVIOUS
    <3> QED  BY <3>1
  <2>2. \A i \in 0 .. n - 1 : log[At(f, i)].seq \in Nat
    BY Numbers DEF LogEntry
  <2>3. \A i \in 0 .. (n + 1) - 1 : log'[At(f, i)].seq \in Nat /\ log'[At(f, i)].seq <= recs + 1
    BY <1>1, <1>6, <2>2
  <2>4. ASSUME NEW i \in 0 .. (n + 1) - 1, NEW j \in 0 .. (n + 1) - 1,
               log'[At(f, i)].seq < log'[At(f, j)].seq
        PROVE  log'[At(f, i)].stop <= log'[At(f, j)].start
    <3>1. i # n
      <4>1. log'[At(f, j)].seq <= recs + 1 /\ log'[At(f, j)].seq \in Nat
        BY <2>3
      <4> QED  BY <2>4, <4>1
    <3>2. i \in 0 .. n - 1
      BY <1>1, <3>1
    <3>3. CASE j = n
      BY <3>2, <3>3 DEF Behind
    <3>4. CASE j \in 0 .. n - 1
      BY <1>6, <2>4, <3>2, <3>4
    <3> QED  BY <1>1, <3>3, <3>4
  <2> QED  BY <1>4, <2>1, <2>3, <2>4 DEF Listing
<1>7. CASE n = 0
  BY <1>6, <1>7
<1> QED  BY <1>5, <1>6, <1>7 DEF Listing

\* ... and the stamp on the logs of the last recording.
LEMMA ListStamp ==
  ASSUME NEW f, NEW recs, NEW n \in Nat, NEW off, Listing(f, recs, n),
         \A i \in 0 .. n - 1 :
           /\ log[At(f, i)].seq \in Nat
           /\ log'[At(f, i)].type = log[At(f, i)].type
           /\ log'[At(f, i)].seq = log[At(f, i)].seq
           /\ log'[At(f, i)].start = log[At(f, i)].start
           /\ log[At(f, i)].seq # recs /\ ~IS_MJPG_TYPE(log[At(f, i)].type) =>
                log'[At(f, i)].stop = log[At(f, i)].stop
  PROVE  Listing(f, recs, n)'
<1>1. \A r \in 1 .. recs : \E i \in 0 .. n - 1 :
        log'[At(f, i)].seq = r /\ ~IS_MJPG_TYPE(log'[At(f, i)].type)
  BY DEF Listing
<1>2. CASE \E i \in 0 .. n - 1 : IS_MJPG_TYPE(log[At(f, i)].type)
  <2>1. \E i \in 0 .. n - 1 : IS_MJPG_TYPE(log'[At(f, i)].type)
    BY <1>2
  <2> QED  BY <1>1, <2>1 DEF Listing
<1>3. CASE /\ ~\E i \in 0 .. n - 1 : IS_MJPG_TYPE(log[At(f, i)].type)
           /\ n > 0 /\ log[At(f, n - 1)].seq = recs
           /\ \A i \in 0 .. n - 1 : log[At(f, i)].seq <= recs
           /\ \A i, j \in 0 .. n - 1 :
                log[At(f, i)].seq < log[At(f, j)].seq =>
                  log[At(f, i)].stop <= log[At(f, j)].start
  <2>1. n - 1 \in 0 .. n - 1
    BY <1>3
  <2>2. log'[At(f, n - 1)].seq = recs /\ recs \in Nat
    BY <1>3, <2>1
  <2>3. \A i \in 0 .. n - 1 : log'[At(f, i)].seq <= recs
    BY <1>3
  <2>4. ASSUME NEW i \in 0 .. n - 1, NEW j \in 0 .. n - 1,
               log'[At(f, i)].seq < log'[At(f, j)].seq
        PROVE  log'[At(f, i)].stop <= log'[At(f, j)].start
    <3>1. log[At(f, i)].seq < log[At(f, j)].seq /\ log[At(f, j)].seq <= recs
      BY <1>3, <2>4
    <3>2. log[At(f, i)].seq # recs
      BY <2>2, <3>1
    <3>3. log'[At(f, i)].stop = log[At(f, i)].stop
      BY <1>3, <3>2
    <3> QED  BY <1>3, <3>1, <3>3
  <2> QED  BY <1>1, <1>3, <2>2, <2>3, <2>4 DEF Listing
<1> QED  BY <1>2, <1>3 DEF Listing

\* The logs of the file that the stepping channel uses or opens.
LEMMA ListChan ==
  ASSUME Exclusive, IInv, NEW c \in Chans, Act(c), ListInv
  PROVE  ListOf(c)'
<1>1. /\ TypeInv /\ PlaceInv /\ PlaceOf(c) /\ IndexInv /\ IndexOf(c) /\ OffsetOf(c)
      /\ ListOf(c) /\ MaxLogs <= LOGS
  BY DEF IInv, PlaceInv, IndexInv, OffsetInv, ListInv, Exclusive
<1>2. /\ pc \in [Chans -> Pcs] /\ rec \in [Chans -> Record] /\ using \in [Chans -> UsingEntry]
      /\ \A e \in Entries : log[e] \in LogEntry
  BY <1>1, Fields DEF TypeInv
<1>3. /\ using[c].recs \in Nat /\ using[c].logs \in Nat /\ using[c].logs <= LOGS
      /\ rec[c].off \in Nat
  BY <1>1, Fields, Numbers
<1>4. \A i \in 0 .. using[c].logs - 1 :
        using[c].id # NONE => log[At(using[c].id, i)] \in LogEntry
  BY <1>1, <1>2, InFile
<1>5. ASSUME log' = log, using'[c] = using[c], pc[c] # "using", pc'[c] # "using"
      PROVE  ListOf(c)'
  BY <1>1, <1>5 DEF ListOf, Listing
<1>6. ASSUME NEW f, NEW recs, NEW logs, Listing(f, recs, logs)',
             \/ /\ pc'[c] # "using" /\ using'[c].id = f
                /\ using'[c].recs = recs /\ using'[c].logs = logs
             \/ /\ pc'[c] = "using" /\ new'.using.id = f
                /\ new'.using.recs = recs /\ new'.using.logs = logs
      PROVE  ListOf(c)'
  BY <1>6 DEF ListOf, Listing
<1>7. CASE \E t \in Types : Start(c, t)
  BY <1>2, <1>5, <1>7 DEF Start, index
<1>8. ASSUME NEW t \in Types, AddIndexRecLog(c, t) PROVE ListOf(c)'
  <2>1. CASE using[c].mjpg
    <3>1. using'[c].mjpg /\ pc'[c] = "idle"
      BY <1>8, <2>1, Added
    <3> QED  BY <3>1 DEF ListOf
  <2>2. CASE ~using[c].mjpg
    <3>1. /\ Open(c) /\ pc[c] = "idle" /\ pc'[c] = "idle" /\ using[c].id \in FileIds
          /\ using'[c].id = using[c].id /\ using'[c].recs = using[c].recs
          /\ using'[c].logs = using[c].logs + 1
          /\ \A i \in 0 .. using[c].logs - 1 :
               log'[At(using[c].id, i)] = log[At(using[c].id, i)]
          /\ log'[At(using[c].id, using[c].logs)] =
               [log[At(using[c].id, using[c].logs - 1)] EXCEPT !.type = {t}, !.start = rec[c].off]
      BY <1>8, Added
    <3>2. using[c].id # NONE /\ using[c].logs > 0
      BY <1>1, <2>2, <3>1, OpenFile
    <3>3. /\ Behind(using[c].id, using[c].logs, rec[c].off)
          /\ Listing(using[c].id, using[c].recs, using[c].logs)
      BY <1>1, <2>2, <3>1, <3>2 DEF OffsetOf, ListOf
    <3>4. PICK f \in FileIds, recs \in Nat, n \in Nat, off \in Nat :
            f = using[c].id /\ recs = using[c].recs /\ n = using[c].logs /\ off = rec[c].off
      BY <1>3, <3>1
    <3>5. log[At(f, n - 1)] \in LogEntry
      BY <1>3, <1>4, <3>2, <3>4
    <3>6. /\ log'[At(f, n)].seq = log[At(f, n - 1)].seq /\ log'[At(f, n)].start = off
      BY <3>1, <3>4, <3>5 DEF LogEntry
    <3>7. /\ \A i \in 0 .. n - 1 : log[At(f, i)] \in LogEntry /\ log'[At(f, i)] = log[At(f, i)]
          /\ n > 0 /\ Listing(f, recs, n) /\ Behind(f, n, off)
      BY <1>4, <3>1, <3>2, <3>3, <3>4
    <3>8. Listing(f, recs, n + 1)'
      BY <3>6, <3>7, ListAdd
    <3> QED  BY <1>6, <3>1, <3>4, <3>8
  <2> QED  BY <1>1, <2>1, <2>2, Fields
<1>9. CASE GetDataFile(c) \/ OpenFails(c) \/ WriteFails(c)
  BY <1>2, <1>5, <1>9 DEF GetDataFile, OpenFails, WriteFails, index
<1>10. CASE UpdateFileIndex(c)
  <2>1. pc[c] = "index" /\ pc'[c] = "using"
    BY <1>2, <1>10 DEF UpdateFileIndex
  <2>2. CASE new'.using.mjpg
    BY <2>1, <2>2 DEF ListOf
  <2>3. CASE ~new'.using.mjpg
    <3>1. /\ ~Shot(c) /\ ~using[c].mjpg /\ using[c].id \in {NONE, NewFile(c)}
          /\ new'.using.id = NewFile(c) /\ new'.using.recs = using[c].recs + 1
          /\ new'.using.logs = using[c].logs + 1
          /\ NewFile(c) \in FileIds
          /\ log'[At(NewFile(c), using[c].logs)].type = rec[c].type
          /\ log'[At(NewFile(c), using[c].logs)].seq = using[c].recs + 1
          /\ log'[At(NewFile(c), using[c].logs)].start = rec[c].off
          /\ \A i \in 0 .. using[c].logs - 1 :
               log'[At(NewFile(c), i)] = log[At(NewFile(c), i)]
      BY <1>10, <2>3, Entry
    <3>2. using[c].id = NONE => using[c].recs = 0 /\ using[c].logs = 0
      BY <1>1 DEF IndexOf, GoodUsing, NotUsing
    <3>3. PICK f \in FileIds, recs \in Nat, n \in Nat, off \in Nat :
            f = NewFile(c) /\ recs = using[c].recs /\ n = using[c].logs /\ off = rec[c].off
      BY <1>3, <3>1
    <3>4. /\ \A i \in 0 .. n - 1 : log[At(f, i)] \in LogEntry /\ log'[At(f, i)] = log[At(f, i)]
          /\ log'[At(f, n)].seq = recs + 1 /\ log'[At(f, n)].start = off
          /\ ~IS_MJPG_TYPE(log'[At(f, n)].type)
      BY <1>4, <3>1, <3>2, <3>3 DEF Shot
    <3>5. Listing(f, recs, n) \/ (n = 0 /\ recs = 0)
      BY <1>1, <2>1, <3>1, <3>2, <3>3 DEF ListOf
    <3>6. Behind(f, n, off)
      <4>1. CASE n = 0
        BY <4>1 DEF Behind
      <4>2. CASE n # 0
        BY <1>1, <2>1, <3>1, <3>2, <3>3, <4>2 DEF OffsetOf
      <4> QED  BY <4>1, <4>2
    <3>7. Listing(f, recs + 1, n + 1)'
      BY <3>4, <3>5, <3>6, ListNew
    <3> QED  BY <1>6, <2>1, <3>1, <3>3, <3>7
  <2>4. new'.using.mjpg \/ ~new'.using.mjpg
    OBVIOUS
  <2> QED  BY <2>2, <2>3, <2>4
<1>11. CASE WriteIndexUsing(c)
  <2>1. pc[c] = "using" /\ pc'[c] = "base" /\ using'[c] = new.using /\ log' = log
    BY <1>2, <1>11 DEF WriteIndexUsing
  <2> QED  BY <1>1, <2>1 DEF ListOf, Listing
<1>12. CASE WriteIndexBase(c) \/ WriteIndexFull(c) \/ UpdateFull(c)
  BY <1>2, <1>5, <1>12 DEF WriteIndexBase, WriteIndexFull, UpdateFull
<1>13. CASE FullUsing(c)
  <2>1. pc[c] = "fillUsing" /\ pc'[c] = "fillBase" /\ using'[c] = new.using
    BY <1>2, <1>13 DEF FullUsing
  <2>2. using'[c].id = NONE
    BY <1>1, <2>1 DEF IndexOf, NotUsing
  <2> QED  BY <2>1, <2>2 DEF ListOf
<1>14. CASE FullBase(c)
  BY <1>2, <1>5, <1>14 DEF FullBase
<1>15. ASSUME Open(c), log' = Stamped(c, rec[c].off + 1), using' = using, pc'[c] # "using"
       PROVE  ListOf(c)'
  <2>1. pc[c] # "using"
    BY <1>15 DEF Open
  <2>2. CASE ~using[c].mjpg
    <3>1. using[c].id # NONE /\ using[c].id \in FileIds
      BY <1>1, <1>15, OpenFile
    <3>2. Listing(using[c].id, using[c].recs, using[c].logs)
      BY <1>1, <2>1, <2>2, <3>1 DEF ListOf
    <3>3. PICK f \in FileIds, recs \in Nat, n \in Nat, off \in Nat :
            f = using[c].id /\ recs = using[c].recs /\ n = using[c].logs /\ off = rec[c].off
      BY <1>3, <3>1
    <3>4. \A i \in 0 .. n - 1 :
            /\ log[At(f, i)].seq \in Nat
            /\ log'[At(f, i)].type = log[At(f, i)].type
            /\ log'[At(f, i)].seq = log[At(f, i)].seq
            /\ log'[At(f, i)].start = log[At(f, i)].start
            /\ log[At(f, i)].seq # recs /\ ~IS_MJPG_TYPE(log[At(f, i)].type) =>
                 log'[At(f, i)].stop = log[At(f, i)].stop
      BY <1>15, <3>3, Stamping
    <3>5. Listing(f, recs, n)'
      BY <3>2, <3>3, <3>4, ListStamp
    <3> QED  BY <1>6, <1>15, <3>3, <3>5
  <2>3. CASE using[c].mjpg
    BY <1>15, <2>3 DEF ListOf
  <2> QED  BY <1>1, <2>2, <2>3, Fields
<1>16. CASE Frame(c) \/ SwitchFile(c)
  <2>1. /\ Open(c) /\ log' = Stamped(c, rec[c].off + 1) /\ using' = using
        /\ pc'[c] # "using"
    BY <1>2, <1>16 DEF Frame, SwitchFile, Recording, Open
  <2> QED  BY <1>15, <2>1
<1>17. CASE Stop(c)
  <2>1. using' = using /\ pc' = pc /\ pc[c] = "idle"
    BY <1>17 DEF Stop
  <2>2. CASE rec[c].state \in {"start", "write"} /\ log' = Stamped(c, rec[c].off + 1)
    BY <1>15, <2>1, <2>2 DEF Open
  <2>3. CASE log' = log
    BY <1>5, <2>1, <2>3
  <2> QED  BY <1>17, <2>2, <2>3 DEF Stop
<1> QED  BY <1>7, <1>8, <1>9, <1>10, <1>11, <1>12, <1>13, <1>14, <1>16, <1>17 DEF Act

\* The logs of a full file stay, until it is opened again.
LEMMA ListFull ==
  ASSUME Exclusive, IInv, NEW c \in Chans, Act(c), FilesInv, ListInv,
         NEW f \in FileIds, IsFull(f)', ~full'[f].mjpg, ~Opened(f)'
  PROVE  Listing(f, full[f].recs, full[f].logs)'
<1>1. /\ TypeInv /\ PlaceInv /\ PlaceOf(c) /\ IndexInv /\ IndexOf(c) /\ FilesOf(c) /\ ListOf(c)
      /\ MaxLogs <= LOGS
  BY DEF IInv, PlaceInv, IndexInv, FilesInv, ListInv, Exclusive
<1>2. /\ pc \in [Chans -> Pcs] /\ using \in [Chans -> UsingEntry]
      /\ full \in [FileIds -> FullEntry]
  BY <1>1 DEF TypeInv
<1>3. CASE UpdateFull(c) /\ f = using[c].id
  <2>1. /\ pc[c] = "fill" /\ log' = log
        /\ full'[f] = [chan |-> c, recs |-> using[c].recs,
                       logs |-> using[c].logs, mjpg |-> using[c].mjpg]
    BY <1>2, <1>3 DEF UpdateFull
  <2>2. /\ full'[f].recs = using[c].recs /\ full'[f].logs = using[c].logs
        /\ full'[f].mjpg = using[c].mjpg
    BY <2>1
  <2>3. Listing(f, using[c].recs, using[c].logs)
    BY <1>1, <1>3, <2>1, <2>2, Names DEF ListOf
  <2> QED  BY <2>1, <2>2, <2>3 DEF Listing
<1>4. CASE ~(UpdateFull(c) /\ f = using[c].id)
  <2>1. ~(WriteIndexFull(c) /\ f = using[c].id)
    <3> SUFFICES ASSUME WriteIndexFull(c), f = using[c].id PROVE FALSE
      OBVIOUS
    <3>1. full'[f] = NotFull
      BY <1>2 DEF WriteIndexFull
    <3> QED  BY <3>1 DEF IsFull, NotFull
  <2>2. full'[f] = full[f]
    BY <1>2, <1>4, <2>1 DEF Act, Start, AddIndexRecLog, GetDataFile, OpenFails, UpdateFileIndex,
       WriteIndexUsing, WriteIndexBase, WriteIndexFull, Frame, SwitchFile, UpdateFull, FullUsing,
       FullBase, Stop, WriteFails, index
  <2>3. IsFull(f) /\ ~full[f].mjpg
    BY <2>2 DEF IsFull
  <2>4. ~Opened(f)
    <3> SUFFICES ASSUME NEW d \in Chans, pc[d] \in {"using", "base", "full"}, FileOf(d) = f
                 PROVE  FALSE
      BY DEF Opened
    <3>1. CASE d # c
      <4>1. pc[c] = "idle"
        BY <1>1, <3>1 DEF PlaceInv
      <4>2. new' = new /\ pc'[d] = pc[d] /\ using'[d] = using[d]
        BY <1>1, <3>1, <4>1, Quiet, Others
      <4>3. FileOf(d)' = f
        BY <4>2 DEF FileOf
      <4> QED  BY <4>2, <4>3 DEF Opened
    <3>2. CASE d = c /\ pc[c] = "using"
      <4>1. WriteIndexUsing(c)
        BY <3>2 DEF Act, Start, AddIndexRecLog, GetDataFile, OpenFails, UpdateFileIndex,
           WriteIndexBase, WriteIndexFull, Frame, SwitchFile, UpdateFull, FullUsing, FullBase,
           Stop, WriteFails
      <4>2. pc'[c] = "base" /\ using'[c] = new.using
        BY <1>2, <4>1 DEF WriteIndexUsing
      <4>3. FileOf(c)' = f
        BY <3>2, <4>2 DEF FileOf
      <4> QED  BY <4>2, <4>3 DEF Opened
    <3>3. CASE d = c /\ pc[c] = "base"
      <4>1. WriteIndexBase(c)
        BY <3>3 DEF Act, Start, AddIndexRecLog, GetDataFile, OpenFails, UpdateFileIndex,
           WriteIndexUsing, WriteIndexFull, Frame, SwitchFile, UpdateFull, FullUsing, FullBase,
           Stop, WriteFails
      <4>2. pc'[c] = "full" /\ using'[c] = using[c]
        BY <1>2, <4>1 DEF WriteIndexBase
      <4>3. FileOf(c)' = f
        BY <3>3, <4>2 DEF FileOf
      <4> QED  BY <4>2, <4>3 DEF Opened
    <3>4. CASE d = c /\ pc[c] = "full"
      <4>1. WriteIndexFull(c)
        BY <3>4 DEF Act, Start, AddIndexRecLog, GetDataFile, OpenFails, UpdateFileIndex,
           WriteIndexUsing, WriteIndexBase, Frame, SwitchFile, UpdateFull, FullUsing, FullBase,
           Stop, WriteFails
      <4> QED  BY <2>1, <3>4, <4>1 DEF FileOf
    <3> QED  BY <3>1, <3>2, <3>3, <3>4
  <2>5. Listing(f, full[f].recs, full[f].logs)
    BY <2>3, <2>4 DEF ListInv
  <2>6. full[f].logs \in Nat /\ full[f].logs <= LOGS
    <3>1. full[f].logs \in 0 .. MaxLogs
      BY <1>2 DEF FullEntry
    <3> QED  BY <1>1, <3>1, Numbers
  <2>7. ASSUME f # using[c].id PROVE \A i \in 0 .. LOGS - 1 : log'[At(f, i)] = log[At(f, i)]
    <3>1. pc[c] = "index" => f # NewFile(c)
      <4> SUFFICES ASSUME pc[c] = "index", f = NewFile(c) PROVE FALSE
        OBVIOUS
      <4>1. UpdateFileIndex(c)
        BY DEF Act, Start, AddIndexRecLog, GetDataFile, OpenFails, WriteIndexUsing,
           WriteIndexBase, WriteIndexFull, Frame, SwitchFile, UpdateFull, FullUsing, FullBase,
           Stop, WriteFails
      <4>2. pc'[c] = "using" /\ new'.using = NewUsing(c, Shot(c))
        BY <1>2, <4>1 DEF UpdateFileIndex, Shot
      <4>3. new'.using.id = f
        BY <4>2 DEF NewUsing
      <4> QED  BY <4>2, <4>3 DEF Opened, FileOf
    <3> QED  BY <2>7, <3>1, Elsewhere
  <2>8. ASSUME f = using[c].id PROVE log' = log
    <3>1. pc[c] = "fillUsing"
      <4>1. pc[c] \notin {"base", "full"}
        BY <2>4, <2>8 DEF Opened, FileOf
      <4> QED  BY <1>1, <2>3, <2>8, <4>1 DEF FilesOf
    <3>2. FullUsing(c)
      BY <3>1 DEF Act, Start, AddIndexRecLog, GetDataFile, OpenFails, UpdateFileIndex,
         WriteIndexUsing, WriteIndexBase, WriteIndexFull, Frame, SwitchFile, UpdateFull,
         FullBase, Stop, WriteFails
    <3> QED  BY <3>2 DEF FullUsing
  <2>9. PICK recs, n \in Nat : recs = full[f].recs /\ n = full[f].logs
    BY <1>2, <2>6, Numbers DEF FullEntry
  <2>10. \A i \in 0 .. n - 1 : log'[At(f, i)] = log[At(f, i)]
    BY <2>6, <2>7, <2>8, <2>9, Numbers
  <2>11. Listing(f, recs, n)'
    BY <2>5, <2>9, <2>10, Kept
  <2> QED  BY <2>2, <2>9, <2>11
<1> QED  BY <1>3, <1>4

\* The logs of every file are in order after every step.
LEMMA ListStep ==
  ASSUME Exclusive, IInv, NEW c \in Chans, Act(c), FilesInv, ListInv
  PROVE  ListInv'
<1>1. TypeInv /\ PlaceInv /\ IndexInv /\ MaxLogs <= LOGS
  BY DEF IInv, Exclusive
<1>2. ASSUME NEW d \in Chans, d # c PROVE ListOf(d)'
  <2>1. pc'[d] = pc[d] /\ using'[d] = using[d] /\ ListOf(d)
    BY <1>1, <1>2, Others DEF ListInv
  <2>2. CASE pc[d] # "using" /\ using[d].id # NONE /\ ~using[d].mjpg
    <3>1. Listing(using[d].id, using[d].recs, using[d].logs)
      BY <2>1, <2>2 DEF ListOf
    <3>2. \A i \in 0 .. LOGS - 1 : log'[At(using[d].id, i)] = log[At(using[d].id, i)]
      BY <1>2, <2>2, OthersLog
    <3>3. using[d].recs \in Nat /\ using[d].logs \in Nat /\ using[d].logs <= LOGS
          /\ using[d].id \in FileIds
      BY <1>1, <2>2, Fields, Numbers
    <3>4. PICK f \in FileIds, recs \in Nat, n \in Nat :
            f = using[d].id /\ recs = using[d].recs /\ n = using[d].logs
      BY <3>3
    <3>5. \A i \in 0 .. n - 1 : log'[At(f, i)] = log[At(f, i)]
      BY <3>2, <3>3, <3>4, Numbers
    <3>6. Listing(f, recs, n)'
      BY <3>1, <3>4, <3>5, Kept
    <3>7. f = using'[d].id /\ recs = using'[d].recs /\ n = using'[d].logs
      BY <2>1, <3>4
    <3>8. Listing(using[d].id, using[d].recs, using[d].logs)'
      BY <3>6, <3>7, SMTT(30) DEF Listing
    <3> QED  BY <2>1, <2>2, <3>8 DEF ListOf
  <2>3. CASE pc[d] = "using"
    <3>1. pc[c] = "idle"
      BY <1>1, <1>2, <2>3 DEF PlaceInv
    <3>2. new' = new
      BY <1>1, <3>1, Quiet
    <3>3. CASE new.using.mjpg
      BY <2>1, <2>3, <3>2, <3>3 DEF ListOf
    <3>4. CASE ~new.using.mjpg
      <4>1. Listing(new.using.id, new.using.recs, new.using.logs)
        BY <2>1, <2>3, <3>4 DEF ListOf
      <4>2. /\ new.using.id \in FileIds
            /\ \A i \in 0 .. LOGS - 1 : log'[At(new.using.id, i)] = log[At(new.using.id, i)]
        BY <1>2, <2>3, OthersLog
      <4>3. new.using.recs \in Nat /\ new.using.logs \in Nat /\ new.using.logs <= LOGS
        BY <1>1, Fields, Numbers DEF UsingEntry
      <4>4. PICK f \in FileIds, recs \in Nat, n \in Nat :
              f = new.using.id /\ recs = new.using.recs /\ n = new.using.logs
        BY <4>2, <4>3
      <4>5. \A i \in 0 .. n - 1 : log'[At(f, i)] = log[At(f, i)]
        BY <4>2, <4>3, <4>4, Numbers
      <4>6. Listing(f, recs, n)'
        BY <4>1, <4>4, <4>5, Kept
      <4>7. f = new'.using.id /\ recs = new'.using.recs /\ n = new'.using.logs
        BY <3>2, <4>4
      <4>8. Listing(new.using.id, new.using.recs, new.using.logs)'
        BY <4>6, <4>7, SMTT(30) DEF Listing
      <4> QED  BY <2>1, <2>3, <3>4, <4>8 DEF ListOf
    <3>5. new.using.mjpg \in BOOLEAN
      BY <1>1, Fields DEF UsingEntry
    <3> QED  BY <3>3, <3>4, <3>5
  <2> QED  BY <2>1, <2>2, <2>3 DEF ListOf
<1>3. ListOf(c)'
  BY ListChan
<1>4. \A d \in Chans : ListOf(d)'
  BY <1>2, <1>3
<1>5. ASSUME NEW f \in FileIds, IsFull(f)', ~full'[f].mjpg, ~Opened(f)'
      PROVE  Listing(f, full[f].recs, full[f].logs)'
  BY <1>5, ListFull
<1> QED  BY <1>4, <1>5 DEF ListInv

-----------------------------------------------------------------------------
\* The invariant.

\* A crash leaves the index alone; what of it was half written it leaves torn.
LEMMA CrashStep ==
  ASSUME Exclusive, IInv, Crash
  PROVE  IInv'
<1>1. TypeInv /\ PlaceInv /\ IndexInv
  BY DEF IInv
<1>2. /\ base' = base /\ using' = using /\ full' = full /\ log' = log
      /\ \A c \in Chans : pc'[c] = "idle" /\ rec'[c] = Fresh
      /\ listed' = {} /\ task' = {} /\ starter' = Nobody /\ lock' = Nobody /\ new' = NoCopy
      /\ pc' = [c \in Chans |-> "idle"] /\ rec' = [c \in Chans |-> Fresh]
  BY DEF Crash, index
<1>3. \A c \in Chans : ~Open(c)'
  BY <1>2 DEF Open, Fresh
<1>4. TypeInv'
  <2>1. Fresh \in Record /\ NoCopy \in [base : BaseBlock, using : UsingEntry]
    BY Numbers DEF Fresh, Record, NoCopy, NotUsing, BaseBlock, UsingEntry, FileIds
  <2>2. torn' \in 0 .. MaxTorn
    BY <1>1, Numbers DEF Crash, MayTear, TypeInv
  <2> QED  BY <1>1, <1>2, <2>1, <2>2 DEF TypeInv, Pcs
<1>5. PlaceInv'
  <2>1. \A c \in Chans : PlaceOf(c)'
    BY <1>2, Names DEF PlaceOf, Locked, Opening, Filling, Fresh
  <2> QED  BY <1>2, <2>1 DEF PlaceInv
<1>6. IndexInv'
  <2>1. \A c \in Chans : IndexOf(c)'
    BY <1>1, <1>2, <1>3 DEF IndexInv, IndexOf, Filled
  <2>2. GoodBase(NoCopy.base) /\ GoodUsing(NoCopy.using)
    BY Numbers DEF NoCopy, NotUsing, GoodBase, GoodUsing
  <2> QED  BY <1>1, <1>2, <2>1, <2>2 DEF IndexInv
<1>7. OffsetInv'
  BY <1>2, <1>3 DEF OffsetInv, OffsetOf
<1>8. ASSUME torn' = 0 PROVE WholeInv'
  <2>1. lock = Nobody /\ torn = 0
    BY <1>1, <1>8 DEF Crash, TypeInv
  <2>2. FilesInv /\ CountInv /\ ListInv
    BY <2>1 DEF IInv, WholeInv
  <2>3. \A c \in Chans : pc[c] \notin Locked
    BY <1>1, <2>1, Names DEF PlaceInv, PlaceOf
  <2>4. FilesInv' /\ CountInv'
    <3>1. \A c \in Chans : pc'[c] \notin Locked
      BY <1>2 DEF Locked
    <3> QED  BY <1>2, <2>2, <2>3, <3>1, FilesStay
  <2>5. ListInv'
    <3>1. \A c \in Chans : ListOf(c)'
      BY <1>2, <2>2, <2>3 DEF ListInv, ListOf, Listing, Locked
    <3>2. \A f \in FileIds : ~Opened(f)
      BY <2>3 DEF Opened, Locked
    <3> QED  BY <1>2, <2>2, <3>1, <3>2 DEF ListInv, Listing, IsFull
  <2> QED  BY <2>4, <2>5 DEF WholeInv
<1> QED  BY <1>4, <1>5, <1>6, <1>7, <1>8 DEF IInv

\* A step that changes nothing keeps everything.
LEMMA Stutter ==
  ASSUME IInv, UNCHANGED vars
  PROVE  IInv'
<1>1. /\ base' = base /\ using' = using /\ full' = full /\ log' = log /\ lock' = lock
      /\ new' = new /\ pc' = pc /\ rec' = rec /\ listed' = listed /\ task' = task
      /\ starter' = starter /\ torn' = torn
  BY DEF vars
<1>2. TypeInv'
  BY <1>1 DEF IInv, TypeInv
<1>3. PlaceInv'
  BY <1>1 DEF IInv, PlaceInv, PlaceOf, Shot
<1>4. IndexInv'
  BY <1>1 DEF IInv, IndexInv, IndexOf, NewFile, CoverFile, Filled, FileOf, Open, FullSum,
     GoodBase, GoodUsing
<1>5. OffsetInv'
  BY <1>1 DEF IInv, OffsetInv, OffsetOf, Behind, Open
<1>6. ASSUME torn' = 0 PROVE WholeInv'
  <2>1. FilesInv /\ CountInv /\ ListInv
    BY <1>1, <1>6 DEF IInv, WholeInv
  <2>2. FilesInv' /\ CountInv'
    BY <1>1, <2>1, FilesStay
  <2>3. ListInv'
    BY <1>1, <2>1 DEF ListInv, ListOf, Listing, IsFull, Opened, FileOf
  <2> QED  BY <2>2, <2>3 DEF WholeInv
<1> QED  BY <1>2, <1>3, <1>4, <1>5, <1>6 DEF IInv

\* A formatted disk.
LEMMA Start0 ==
  ASSUME Init
  PROVE  IInv
<1>1. /\ \A c \in Chans : using[c] = NotUsing /\ pc[c] = "idle" /\ rec[c] = Fresh
      /\ \A f \in FileIds : full[f] = NotFull
      /\ base = NoCopy.base /\ new = NoCopy
      /\ listed = {} /\ task = {} /\ starter = Nobody /\ lock = Nobody
  BY DEF Init
<1>2. \A c \in Chans : ~Open(c)
  BY <1>1 DEF Open, Fresh
<1>3. \A f \in FileIds : ~IsFull(f) /\ ~InUse(f)
  BY <1>1, Names DEF IsFull, InUse, NotFull, NotUsing
<1>4. TypeInv
  <2>1. /\ Fresh \in Record /\ NoCopy \in [base : BaseBlock, using : UsingEntry]
        /\ NoCopy.base \in BaseBlock /\ NotUsing \in UsingEntry
    BY Numbers DEF Fresh, Record, NoCopy, NotUsing, BaseBlock, UsingEntry, FileIds
  <2>2. NoLog \in LogEntry /\ NotFull \in FullEntry
    BY Numbers DEF NoLog, LogEntry, NotFull, FullEntry
  <2> QED  BY <2>1, <2>2, Numbers DEF Init, TypeInv, Pcs
<1>5. PlaceInv
  <2>1. \A c \in Chans : PlaceOf(c)
    BY <1>1, Names DEF PlaceOf, Locked, Opening, Filling, Fresh, NotUsing
  <2> QED  BY <1>1, <2>1 DEF PlaceInv
<1>6. IndexInv
  <2>1. GoodBase(NoCopy.base) /\ GoodUsing(NoCopy.using) /\ GoodUsing(NotUsing)
    BY Numbers DEF NoCopy, NotUsing, GoodBase, GoodUsing
  <2>2. \A c \in Chans : IndexOf(c)
    BY <1>1, <1>2, <2>1 DEF IndexOf, Filled
  <2> QED  BY <1>1, <2>1, <2>2 DEF IndexInv
<1>7. OffsetInv
  BY <1>1, <1>2 DEF OffsetInv, OffsetOf
<1>8. FilesInv
  <2>1. base.used = NONE /\ base.full = NONE /\ \A c \in Chans : using[c].id = NONE
    BY <1>1 DEF NoCopy, NotUsing
  <2>2. \A f \in FileIds : Used(f)
    BY <1>1, <1>3, <2>1, Names DEF Used, Number
  <2>3. \A c \in Chans : FilesOf(c)
    BY <1>1, <2>1, Names DEF FilesOf
  <2> QED  BY <2>1, <2>2, <2>3 DEF FilesInv, OneChannelPerFile
<1>9. CountInv
  <2>1. FullFiles = {}
    BY <1>3 DEF FullFiles
  <2>2. base.full = NONE /\ ~Covering /\ ~FillingOne
    BY <1>1 DEF NoCopy, Covering, FillingOne
  <2>3. Cardinality(FullFiles) = 0
    BY <2>1, FS_EmptySet
  <2> QED  BY <2>2, <2>3 DEF CountInv, Number
<1>10. ListInv
  <2>1. \A c \in Chans : ListOf(c)
    BY <1>1 DEF ListOf, NotUsing
  <2> QED  BY <1>3, <2>1 DEF ListInv
<1> QED  BY <1>4, <1>5, <1>6, <1>7, <1>8, <1>9, <1>10 DEF IInv, WholeInv

\* The inductive invariant.
THEOREM Invariant ==
  ASSUME Exclusive
  PROVE  Spec => []IInv
<1>1. Init => IInv
  BY Start0
<1>2. IInv /\ [Next]_vars => IInv'
  <2>1. ASSUME IInv, NEW c \in Chans, Act(c) PROVE IInv'
    <3>1. TypeInv' /\ PlaceInv' /\ IndexInv' /\ OffsetInv'
      BY <2>1, TypeStep, PlaceStep, IndexStep, OffsetStep
    <3>2. ASSUME torn' = 0 PROVE WholeInv'
      <4>1. FilesInv /\ CountInv /\ ListInv
        BY <2>1, <3>2, NotTorn DEF IInv, WholeInv
      <4>2. FilesInv' /\ CountInv' /\ ListInv'
        BY <2>1, <4>1, FilesStep, ListStep
      <4> QED  BY <4>2 DEF WholeInv
    <3> QED  BY <3>1, <3>2 DEF IInv
  <2> QED  BY <2>1, Steps, CrashStep, Stutter
<1> QED  BY <1>1, <1>2, PTL DEF Spec

-----------------------------------------------------------------------------
\* What follows from it, as far as Exclusive goes: one channel, or several that open files
\* one at a time, which nothing in the code makes them do.

(* The index and the recordings hold what they can hold: no counter of the *)
(* base block leaves its range.                                            *)
THEOREM TypeCorrect ==
  ASSUME Exclusive
  PROVE  Spec => []TypeOK
<1>1. IInv => TypeOK
  <2> SUFFICES ASSUME IInv PROVE TypeOK
    OBVIOUS
  <2>1. TypeInv
    BY DEF IInv
  <2>2. torn = 0 => base.full \in (0 .. FILES) \cup {NONE}
    <3> SUFFICES ASSUME torn = 0 PROVE base.full \in (0 .. FILES) \cup {NONE}
      OBVIOUS
    <3>1. CountInv
      BY DEF IInv, WholeInv
    <3>2. Cardinality(FullFiles) \in 0 .. FILES /\ base.full \in 0 .. NONE
      BY <2>1, FullCard, Fields
    <3> QED  BY <3>1, <3>2, Numbers DEF CountInv, Number
  <2>3. \A c \in Chans : rec[c].state \in {"invalid", "init", "start", "write", "close"}
    BY <2>1 DEF TypeInv, Record
  <2>4. \A f \in FileIds : full[f].chan \in Chans \cup {Nobody}
    BY <2>1 DEF TypeInv, FullEntry
  <2>5. /\ base.used \in (1 .. FILES) \cup {NONE} /\ base.full \in 0 .. NONE
        /\ base.covered \in (1 .. FILES) \cup {NONE}
        /\ \A c \in Chans :
             /\ using[c].id \in FileIds \cup {NONE}
             /\ using[c].recs \in 0 .. MaxLogs /\ using[c].logs \in 0 .. MaxLogs
             /\ rec[c].off \in 0 .. MaxOff /\ rec[c].type \in SUBSET Types
    BY <2>1, Fields
  <2> QED  BY <2>1, <2>2, <2>3, <2>4, <2>5 DEF TypeOK, TypeInv
<1> QED  BY <1>1, Invariant, PTL

\* When nobody holds the lock, nobody is within an update.
LEMMA Unlocked ==
  ASSUME PlaceInv, lock = Nobody
  PROVE  /\ \A c \in Chans : pc[c] \notin Locked
         /\ ~Covering /\ ~FillingOne /\ \A f \in FileIds : ~Opened(f)
<1>1. \A c \in Chans : pc[c] \notin Locked
  BY Names DEF PlaceInv, PlaceOf
<1> QED  BY <1>1 DEF Locked, Covering, FillingOne, Opened

(* The counters of the base block are what the entries say, whoever opens, *)
(* fills, covers and stops, and whenever the process ends between updates. *)
THEOREM CountsAreExact ==
  ASSUME Exclusive
  PROVE  Spec => []CountsExact
<1>1. IInv => CountsExact
  <2> SUFFICES ASSUME IInv, lock = Nobody, torn = 0
               PROVE  /\ Number(base.full) = Cardinality({f \in FileIds : IsFull(f)})
                      /\ Number(base.used) =
                           Cardinality({f \in FileIds : IsFull(f) \/ InUse(f)})
    BY DEF CountsExact
  <2>1. TypeInv /\ PlaceInv /\ FilesInv /\ CountInv
    BY DEF IInv, WholeInv
  <2>2. Cardinality(FullFiles) = Number(base.full) + 0
    BY <2>1, Unlocked DEF CountInv
  <2>3. Number(base.full) \in Nat
    BY <2>1, Fields, Numbers DEF Number
  <2>4. Number(base.used) \in 0 .. FILES
    BY <2>1, Fields, Numbers DEF Number
  <2>5. \A f \in FileIds : IsFull(f) \/ InUse(f) <=> f < Number(base.used)
    <3>1. \A c \in Chans : pc[c] # "base"
      BY <2>1, Unlocked DEF Locked
    <3> QED  BY <2>1, <3>1 DEF FilesInv, Used
  <2>6. {f \in FileIds : IsFull(f) \/ InUse(f)} = 0 .. Number(base.used) - 1
    <3>1. \A f : f \in FileIds /\ f < Number(base.used) <=> f \in 0 .. Number(base.used) - 1
      BY <2>4, Numbers DEF FileIds
    <3> QED  BY <2>5, <3>1
  <2>7. Cardinality(0 .. Number(base.used) - 1) = Number(base.used)
    BY <2>4, FS_Interval, Numbers
  <2>8. Number(base.full) = Cardinality(FullFiles)
    BY <2>2, <2>3
  <2>9. FullFiles = {f \in FileIds : IsFull(f)}
    BY DEF FullFiles
  <2> QED  BY <2>6, <2>7, <2>8, <2>9
<1> QED  BY <1>1, Invariant, PTL

\* Listing says more than Listed.
LEMMA ListingListed ==
  ASSUME NEW f, NEW recs, NEW logs, Listing(f, recs, logs)
  PROVE  Listed(f, recs, logs)
<1> DEFINE entries == {At(f, i) : i \in 0 .. logs - 1}
<1>1. \A r \in 1 .. recs : \E e \in entries : log[e].seq = r
  BY DEF Listing
<1>2. \/ \E e \in entries : IS_MJPG_TYPE(log[e].type)
      \/ \A d, e \in entries : log[d].seq < log[e].seq => log[d].stop <= log[e].start
  <2>1. CASE \E i \in 0 .. logs - 1 : IS_MJPG_TYPE(log[At(f, i)].type)
    BY <2>1
  <2>2. CASE \A i, j \in 0 .. logs - 1 :
               log[At(f, i)].seq < log[At(f, j)].seq =>
                 log[At(f, i)].stop <= log[At(f, j)].start
    <3>1. ASSUME NEW d \in entries, NEW e \in entries, log[d].seq < log[e].seq
          PROVE  log[d].stop <= log[e].start
      <4>1. PICK i \in 0 .. logs - 1 : d = At(f, i)
        OBVIOUS
      <4>2. PICK j \in 0 .. logs - 1 : e = At(f, j)
        OBVIOUS
      <4> QED  BY <2>2, <3>1, <4>1, <4>2
    <3> QED  BY <3>1
  <2> QED  BY <2>1, <2>2 DEF Listing
<1> QED  BY <1>1, <1>2 DEF Listed

(* Every recording of a file of videos is in its logs, one behind the      *)
(* other, through reopened and covered files.                              *)
THEOREM AllAreListed ==
  ASSUME Exclusive
  PROVE  Spec => []AllListed
<1>1. IInv => AllListed
  <2> SUFFICES ASSUME IInv, torn = 0 PROVE AllListed
    BY DEF AllListed
  <2>1. PlaceInv /\ ListInv
    BY DEF IInv, WholeInv
  <2>2. ASSUME NEW c \in Chans, using[c].id # NONE, ~using[c].mjpg, lock # c
        PROVE  Listed(using[c].id, using[c].recs, using[c].logs)
    <3>1. pc[c] # "using"
      BY <2>1, <2>2 DEF PlaceInv, PlaceOf, Locked
    <3>2. Listing(using[c].id, using[c].recs, using[c].logs)
      BY <2>1, <2>2, <3>1 DEF ListInv, ListOf
    <3> QED  BY <3>2, ListingListed
  <2>3. ASSUME NEW f \in FileIds, IsFull(f), ~full[f].mjpg, lock = Nobody
        PROVE  Listed(f, full[f].recs, full[f].logs)
    <3>1. Listing(f, full[f].recs, full[f].logs)
      BY <2>1, <2>3, Unlocked DEF ListInv
    <3> QED  BY <3>1, ListingListed
  <2> QED  BY <2>2, <2>3 DEF AllListed
<1> QED  BY <1>1, Invariant, PTL

(* A recording is written into the file that the index gives its channel,  *)
(* behind all that the index says was recorded there - whatever crashes.   *)
THEOREM NothingWrittenOver ==
  ASSUME Exclusive
  PROVE  Spec => []AppendOnly
<1>1. IInv => AppendOnly
  <2> SUFFICES ASSUME IInv, NEW c \in Chans, Open(c)
               PROVE  /\ using[c].id = rec[c].file
                      /\ ~using[c].mjpg => \A e \in Counted(c) : log[e].stop <= rec[c].off
    BY DEF AppendOnly
  <2>1. IndexOf(c) /\ OffsetOf(c)
    BY DEF IInv, IndexInv, OffsetInv
  <2>2. using[c].id = rec[c].file
    BY <2>1 DEF IndexOf, Filled, FileOf, Open
  <2>3. ~using[c].mjpg => Behind(using[c].id, using[c].logs, rec[c].off)
    BY <2>1 DEF OffsetOf
  <2> QED  BY <2>2, <2>3 DEF Behind, Counted
<1> QED  BY <1>1, Invariant, PTL

\* Where updates are torn there is one channel.
LEMMA Torn ==
  ASSUME Exclusive, TypeInv, torn # 0
  PROVE  Alone
<1>1. MaxTorn # 0
  BY Numbers DEF TypeInv
<1> QED  BY <1>1 DEF Exclusive

(* No channel gets a file that another one is filling, when channels open  *)
(* files one at a time, do not cover any and crash only between updates.   *)
THEOREM FilesApart ==
  ASSUME Exclusive
  PROVE  Spec => []OneChannelPerFile
<1>1. IInv => OneChannelPerFile
  <2> SUFFICES ASSUME IInv PROVE OneChannelPerFile
    OBVIOUS
  <2>1. CASE torn = 0
    BY <2>1 DEF IInv, WholeInv, FilesInv
  <2>2. CASE torn # 0
    <3>1. Alone
      BY <2>2, Torn DEF IInv
    <3> QED  BY <3>1 DEF Alone, OneChannelPerFile
  <2> QED  BY <2>1, <2>2
<1> QED  BY <1>1, Invariant, PTL

\* A full file that a step gives up is entered anew by an opening that covers it.
LEMMA Given ==
  ASSUME Exclusive, IInv, torn = 0, [Next]_vars, NEW f \in FileIds, GivenUp(f)
  PROVE  OVERWRITE /\ base.used = FILES /\ \A g \in FileIds : IsFull(g) \/ InUse(g)
<1>1. TypeInv /\ PlaceInv /\ FilesInv /\ IsFull(f) /\ full'[f] # full[f]
  BY DEF IInv, WholeInv, GivenUp
<1>2. PICK c \in Chans : Act(c)
  <2>1. ~UNCHANGED vars
    BY <1>1 DEF vars
  <2>2. ~Crash
    BY <1>1 DEF Crash, index
  <2> QED  BY <2>1, <2>2, Steps
<1>3. FilesOf(c) /\ full \in [FileIds -> FullEntry]
  BY <1>1 DEF FilesInv, TypeInv
<1>4. CASE UpdateFull(c)
  <2>1. pc[c] = "fill" /\ f = using[c].id
    BY <1>1, <1>3, <1>4 DEF UpdateFull
  <2> QED  BY <1>1, <1>3, <2>1 DEF FilesOf
<1>5. CASE WriteIndexFull(c)
  <2>1. pc[c] = "full" /\ f = using[c].id
    BY <1>1, <1>3, <1>5 DEF WriteIndexFull
  <2>2. OVERWRITE /\ base.used = FILES
    BY <1>1, <1>3, <2>1 DEF FilesOf
  <2>3. \A g \in FileIds : g < Number(base.used)
    BY <2>2, Names, Numbers DEF Number
  <2> QED  BY <1>1, <2>2, <2>3 DEF FilesInv, Used
<1>6. UpdateFull(c) \/ WriteIndexFull(c)
  BY <1>1, <1>2 DEF Act, Start, AddIndexRecLog, GetDataFile, OpenFails, UpdateFileIndex,
     WriteIndexUsing, WriteIndexBase, Frame, SwitchFile, FullUsing, FullBase, Stop, WriteFails,
     index
<1> QED  BY <1>4, <1>5, <1>6

(* While no update is torn, a recording is given up only when no file is   *)
(* left that was never used: with one channel, or with several that open   *)
(* files one at a time, when none is given up at all.                      *)
THEOREM NoneGivenUpEarly ==
  ASSUME Exclusive
  PROVE  Spec => NoEarlyOverwrite
<1> DEFINE Early == \A f \in FileIds :
              GivenUp(f) /\ torn = 0 => \A g \in FileIds : IsFull(g) \/ InUse(g)
<1>1. IInv /\ [Next]_vars => [Early]_vars
  BY Given
<1>2. Spec => []IInv
  BY Invariant
<1> QED  BY <1>1, <1>2, PTL DEF Spec, NoEarlyOverwrite

(* With overwriting off, no recording is given up by one channel, nor by   *)
(* several that open files one at a time, when no update is torn and no    *)
(* file's logs run out.  Nothing in the code keeps two channels from       *)
(* opening files together: then UpdateFileIndex does give one up.          *)
THEOREM NoneGivenUp ==
  ASSUME Exclusive, MaxTorn = 0
  PROVE  Spec => NeverOverwrites
<1> DEFINE Never == ~OVERWRITE => \A f \in FileIds : ~GivenUp(f)
<1>1. IInv /\ [Next]_vars => [Never]_vars
  <2>1. IInv => torn = 0
    BY Numbers DEF IInv, TypeInv
  <2> QED  BY <2>1, Given
<1>2. Spec => []IInv
  BY Invariant
<1> QED  BY <1>1, <1>2, PTL DEF Spec, NeverOverwrites

\* What the search of the disk computes from the counters.
LEMMA Difference ==
  ASSUME NEW n \in 0 .. NONE, NEW m \in 0 .. NONE
  PROVE  /\ m <= n => Minus(n, m) = n - m
         /\ m > n => Minus(n, m) = n + NONE + 1 - m
<1>1. m <= n => (n + NONE + 1 - m) % (NONE + 1) = n - m
  BY Numbers
<1>2. m > n => (n + NONE + 1 - m) % (NONE + 1) = n + NONE + 1 - m
  BY Numbers
<1> QED  BY <1>1, <1>2 DEF Minus

\* The range that is searched has every full file in it.
LEMMA SearchesFull ==
  ASSUME Exclusive, IInv, lock = Nobody, torn = 0, SearchEnds, NEW c \in Chans, Alone,
         NEW f \in FileIds, IsFull(f)
  PROVE  f \in Searched
<1> DEFINE K == Cardinality(FullFiles)
           u == using[c].id
<1>1. TypeInv /\ PlaceInv /\ GoodBase(base) /\ FilesInv /\ CountInv
  BY DEF IInv, IndexInv, WholeInv
<1>2. K \in 0 .. FILES /\ IsFiniteSet(FullFiles) /\ f \in FullFiles
  BY <1>1, FullCard DEF FullFiles
<1>3. K # 0
  BY <1>2, FS_EmptySet
<1>4. base.full = K
  BY <1>1, <1>2, <1>3, Unlocked, Fields, Numbers DEF CountInv, Number
<1>5. /\ base.used \in (1 .. FILES) \cup {NONE} /\ base.covered \in (1 .. FILES) \cup {NONE}
      /\ u \in FileIds \cup {NONE} /\ base.full # NONE
  BY <1>1, <1>2, <1>4, Fields, Numbers
<1>6. \A g \in FileIds : IsFull(g) \/ u = g <=> g < Number(base.used)
  <2>1. \A d \in Chans : d = c /\ pc[d] # "base"
    BY <1>1, Unlocked DEF Alone, Locked
  <2> QED  BY <1>1, <2>1 DEF FilesInv, Used, InUse
<1>7. u # NONE => ~IsFull(u) /\ Last(u) /\ u \in FileIds
  <2>1. pc[c] \notin Locked /\ FilesOf(c)
    BY <1>1, Unlocked DEF FilesInv
  <2> QED  BY <1>5, <2>1 DEF FilesOf, Locked
<1>8. ReadsFull /\ SearchStart < FILES /\ SearchEnd + 1 < FILES
  BY <1>5 DEF ReadsFull, SearchEnds
<1>9. \A g : g \in FileIds <=> g \in 0 .. FILES - 1
  BY DEF FileIds
<1>10. \A n \in 0 .. FILES : Cardinality(0 .. n - 1) = n
  BY FS_Interval, Numbers
<1> HIDE DEF K, u
<1>11. CASE base.covered = NONE
  <2>1. SearchStart = 0 /\ SearchEnd = K - 1
    <3>1. Minus(K, 1) = K - 1
      BY <1>2, <1>3, Difference, Numbers
    <3> QED  BY <1>4, <1>11, <3>1 DEF SearchStart, SearchEnd
  <2>2. Searched = 0 .. K - 1
    BY <1>2, <1>3, <1>8, <2>1 DEF Searched
  <2>3. CASE u = NONE
    <3>1. Number(base.used) \in 0 .. FILES
      BY <1>5, Numbers DEF Number
    <3>2. FullFiles = 0 .. Number(base.used) - 1
      <4>1. \A g \in FileIds : IsFull(g) <=> g < Number(base.used)
        BY <1>6, <2>3, Names
      <4> QED  BY <1>9, <3>1, <4>1, Numbers DEF FullFiles
    <3>3. K = Number(base.used)
      BY <1>10, <3>1, <3>2 DEF K
    <3> QED  BY <1>2, <2>2, <3>2, <3>3
  <2>4. CASE u # NONE
    <3>1. base.used = u + 1 /\ u \in 0 .. FILES - 1
      BY <1>7, <1>9, <1>11, <2>4 DEF Last
    <3>2. FullFiles = 0 .. u - 1
      <4>1. Number(base.used) = u + 1
        BY <3>1, Numbers DEF Number
      <4>2. \A g \in FileIds : IsFull(g) <=> g < u
        BY <1>6, <1>7, <1>9, <2>4, <3>1, <4>1, Numbers
      <4> QED  BY <1>9, <3>1, <4>2, Numbers DEF FullFiles
    <3>3. K = u
      BY <1>10, <3>1, <3>2, Numbers DEF K
    <3> QED  BY <1>2, <2>2, <3>2, <3>3
  <2> QED  BY <2>3, <2>4
<1>12. CASE base.covered # NONE
  <2> DEFINE v == base.covered
  <2>1. base.used = FILES /\ v \in 1 .. FILES /\ v < FILES /\ SearchStart = v
    BY <1>1, <1>5, <1>8, <1>12 DEF GoodBase, SearchStart
  <2>2. SearchEnd = Minus(K, 1 + FILES - v)
    BY <1>4, <1>12, <2>1, Numbers DEF SearchEnd
  <2>3. \A g \in FileIds : IsFull(g) \/ u = g
    <3>1. Number(base.used) = FILES
      BY <2>1, Numbers DEF Number
    <3> QED  BY <1>6, <3>1, Names
  <2>4. FILES \in 0 .. FILES /\ Cardinality(FileIds) = FILES /\ IsFiniteSet(FileIds)
    <3>1. FileIds = 0 .. FILES - 1
      BY DEF FileIds
    <3> QED  BY <1>10, <3>1, FS_Interval, Numbers
  <2> HIDE DEF v
  <2>5. CASE u = NONE
    <3>1. FullFiles = FileIds
      BY <2>3, <2>5, Names DEF FullFiles
    <3>2. K = FILES
      BY <2>4, <3>1 DEF K
    <3>3. SearchEnd = v - 1
      BY <2>1, <2>2, <3>2, Difference, Numbers
    <3>4. Searched = (v .. FILES - 1) \cup (0 .. v - 1)
      BY <1>8, <2>1, <3>3, Numbers DEF Searched
    <3> QED  BY <1>9, <2>1, <3>4, Numbers
  <2>6. CASE u # NONE
    <3>1. v = u + 1 /\ u \in FileIds /\ ~IsFull(u)
      BY <1>7, <1>12, <2>6 DEF Last, v
    <3>2. FullFiles = FileIds \ {u}
      BY <2>3, <3>1 DEF FullFiles
    <3>3. K = FILES - 1
      BY <2>4, <3>1, <3>2, FS_RemoveElement DEF K
    <3>4. v > 1
      <4> SUFFICES ASSUME v = 1 PROVE FALSE
        BY <2>1, Numbers
      <4>1. SearchEnd = NONE
        BY <2>1, <2>2, <3>3, Difference, Numbers
      <4> QED  BY <1>8, <4>1, Numbers
    <3>5. SearchEnd = v - 2
      BY <2>1, <2>2, <3>3, <3>4, Difference, Numbers
    <3>6. Searched = (v .. FILES - 1) \cup (0 .. v - 2)
      BY <1>8, <2>1, <3>5, Numbers DEF Searched
    <3>7. f # u
      BY <3>1
    <3> QED  BY <1>9, <2>1, <3>1, <3>6, <3>7, Numbers
  <2> QED  BY <2>5, <2>6
<1> QED  BY <1>11, <1>12

\* Who reads all logs of a file finds all its recordings.
LEMMA Finds ==
  ASSUME NEW f \in FileIds, NEW recs, NEW logs \in 0 .. LOGS, Listing(f, recs, logs),
         NEW found,
         \A i \in 0 .. logs - 1 :
           ~IS_MJPG_TYPE(log[At(f, i)].type) => At(f, i) \in found
  PROVE  FoundIn(f, recs, found)
<1> SUFFICES ASSUME NEW r \in 1 .. recs
             PROVE  \E e \in found : e \in f * LOGS .. At(f, LOGS - 1) /\ log[e].seq = r
  BY DEF FoundIn
<1>1. PICK i \in 0 .. logs - 1 : log[At(f, i)].seq = r /\ ~IS_MJPG_TYPE(log[At(f, i)].type)
  BY DEF Listing
<1>2. f * LOGS \in Nat
  BY Names, Numbers
<1>3. At(f, i) \in f * LOGS .. At(f, LOGS - 1)
  BY <1>2, Numbers DEF At
<1> QED  BY <1>1, <1>3

(* One channel's search, when it ends, finds every recording of its files  *)
(* of videos: the range of full files that is computed from the counters   *)
(* and their wrap leaves none out.                                         *)
THEOREM SearchFindsAll ==
  ASSUME Exclusive
  PROVE  Spec => []SearchFinds
<1>1. IInv => SearchFinds
  <2> SUFFICES ASSUME IInv, lock = Nobody, torn = 0, SearchEnds, Cardinality(Chans) = 1,
                      NEW c \in Chans
               PROVE  /\ using[c].id # NONE /\ ~using[c].mjpg
                           => FoundIn(using[c].id, using[c].recs, SearchFile(c))
                      /\ \A f \in FileIds : full[f].chan = c /\ ~full[f].mjpg
                           => FoundIn(f, full[f].recs, SearchFile(c))
    BY DEF SearchFinds
  <2>1. TypeInv /\ PlaceInv /\ ListInv /\ MaxLogs <= LOGS
    BY DEF IInv, WholeInv, Exclusive
  <2>2. Alone
    <3>1. \E x : Chans = {x}
      BY FileAssumption, FS_Singleton
    <3> QED  BY <3>1 DEF Alone
  <2>3. ASSUME using[c].id # NONE, ~using[c].mjpg
        PROVE  FoundIn(using[c].id, using[c].recs, SearchFile(c))
    <3>1. pc[c] # "using"
      BY <2>1, Unlocked DEF Locked
    <3>2. Listing(using[c].id, using[c].recs, using[c].logs)
      BY <2>1, <2>3, <3>1 DEF ListInv, ListOf
    <3>3. using[c].id \in FileIds /\ using[c].logs \in 0 .. LOGS
      BY <2>1, <2>3, Fields, Numbers
    <3>4. \A i \in 0 .. using[c].logs - 1 :
            ~IS_MJPG_TYPE(log[At(using[c].id, i)].type) =>
              At(using[c].id, i) \in SearchFile(c)
      <4>1. \A i \in 0 .. using[c].logs - 1 : At(using[c].id, i) \in Counted(c)
        BY DEF Counted
      <4>2. \A e \in Counted(c) : ~IS_MJPG_TYPE(log[e].type) => e \in SearchFile(c)
        BY <2>3 DEF SearchFile
      <4> QED  BY <4>1, <4>2
    <3> QED  BY <3>2, <3>3, <3>4, Finds
  <2>4. ASSUME NEW f \in FileIds, full[f].chan = c, ~full[f].mjpg
        PROVE  FoundIn(f, full[f].recs, SearchFile(c))
    <3>1. IsFull(f)
      BY <2>4, Names DEF IsFull
    <3>2. Listing(f, full[f].recs, full[f].logs)
      BY <2>1, <2>4, <3>1, Unlocked DEF ListInv
    <3>3. full[f].logs \in 0 .. LOGS
      <4>1. full[f].logs \in 0 .. MaxLogs
        BY <2>1 DEF TypeInv, FullEntry
      <4> QED  BY <2>1, <4>1, Numbers
    <3>4. f \in Searched
      BY <2>2, <3>1, SearchesFull
    <3>5. \A i \in 0 .. full[f].logs - 1 :
            ~IS_MJPG_TYPE(log[At(f, i)].type) => At(f, i) \in SearchFile(c)
      <4>1. \A i \in 0 .. full[f].logs - 1 : At(f, i) \in Logs(f)
        BY DEF Logs
      <4>2. f \in {g \in Searched : full[g].chan = c}
        BY <2>4, <3>4
      <4>3. \A e \in Logs(f) : ~IS_MJPG_TYPE(log[e].type) => e \in SearchFile(c)
        BY <4>2 DEF SearchFile
      <4> QED  BY <4>1, <4>3
    <3> QED  BY <3>2, <3>3, <3>5, Finds
  <2> QED  BY <2>3, <2>4
<1> QED  BY <1>1, Invariant, PTL
=============================================================================

------------------------------- MODULE VbsFs -------------------------------
(***************************************************************************)
(* vbs_fs, the FUSE view of the recordings (vbs_fs/vbs_fs.c), beside the   *)
(* daemon that writes them and the users who queue, clear and remove them. *)
(*                                                                         *)
(* A recording is a directory on each disk that got one of its files.  The *)
(* view keeps a hash table of file indices: which disk holds which file,   *)
(* and how many packets there are.  It learns of a finished recording from *)
(* the configuration beside its files, of a running one from STATEFILE and *)
(* from the names of the files, and never hears of a change.               *)
(*                                                                         *)
(* A call of FUSE is one step, the daemon and the users act between calls. *)
(* vbs_read changes nothing and is an operator; the loads of its child     *)
(* processes are complete ones.                                            *)
(***************************************************************************)
EXTENDS Integers, FiniteSets, Sequences, SequencesExt, FiniteSetsExt

CONSTANTS
  Names,        \* the names that are looked up
  Recorded,     \* those of them that are recorded
  Hash,         \* the sum of the bytes of each name, modulo MaxFiles
  MaxFiles,     \* slots of the table (INITIAL_FILENUM)
  Disks,        \* the numbers of the disks
  FileNos,      \* bound: the numbers of the files of a recording
  MaxQueued,    \* bound: recordings that are made
  MaxStored,    \* bound: files on the disks at a time
  InitialSize,  \* entries of a new file index (DISKINDEX_INITIAL_SIZE)
  PacketSize,   \* bytes of a packet
  FilePackets,  \* packets of a full file
  MbPackets,    \* the packets that filesizemb comes to: FilePackets, or another number when a
                \* recording was made with an offset, so that its files hold shorter packets
  SizeT         \* the values of a size_t

Slots == 0..(MaxFiles - 1)

ASSUME VbsFsAssumption ==
  /\ Recorded \subseteq Names /\ Hash \in [Names -> Slots]
  /\ Disks \subseteq Nat /\ FileNos \subseteq Nat /\ InitialSize \in Nat \ {0}
  /\ PacketSize \in Nat /\ FilePackets \in Nat \ {0} /\ MbPackets \in Nat \ {0}
  /\ SizeT \in Nat \ {0}

FREE == "FREE"             \* the name of a free slot,
NULL == "NULL"             \* and of one that is used but was never given a name
NoDisk == Max(Disks) + 1
Missing == NoDisk          \* an entry of fileid that is -1,
Junk == Max(Disks) + 2     \* and one that was never written

VARIABLES
  schedule,  \* the recordings STATEFILE names
  recs,      \* what is on the disks, and whether a session still writes it
  fis,       \* the table
  mounted,   \* the process of the view runs
  queued,    \* the recordings made so far
  outdated   \* history: the slots whose name was removed or recorded anew since

disks == <<schedule, recs, queued>>
vars == <<disks, fis, mounted, outdated>>

-----------------------------------------------------------------------------
(* The recordings                                                            *)

NoCfg == [cumul |-> -1, last |-> 0]

\* copies: the packets of each file on each disk; cfgs: what the configuration in each directory
\* says of the number of files and the packets of the last; made: the packets that the session
\* which records has put into each file.
NoRec == [copies |-> [k \in FileNos |-> [d \in Disks |-> 0]], cfgs |-> [d \in Disks |-> NoCfg],
          made |-> [k \in FileNos |-> 0], stage |-> "ended"]

DisksOf(n, k) == {d \in Disks : recs[n].copies[k][d] > 0}
DirsOf(n) == UNION {DisksOf(n, k) : k \in FileNos}
FilesOf(n) == {k \in FileNos : DisksOf(n, k) # {}}
Stored == {f \in Recorded \X FileNos \X Disks : recs[f[1]].copies[f[2]][f[3]] > 0}

\* total_packets of a configuration.
TotalPackets(cfg) == IF cfg.cumul = 0 THEN 0 ELSE (cfg.cumul - 1) * FilePackets + cfg.last

\* The view does not notice what happens to n; what it knows of n is out of date.
Outdate(n) == outdated' = outdated \cup {s \in Slots : fis[s].name = n}

\* The session of a recording of n is started: one that was queued now, or one whose entry is
\* still there when the daemon comes back.  What an earlier one has left stays where it is.
StartRecording(n) ==
  /\ recs[n].stage = "ended" /\ queued < MaxQueued /\ queued' = queued + 1
  /\ schedule' = schedule \cup {n} /\ recs' = [recs EXCEPT ![n].stage = "records"]
  /\ Outdate(n) /\ UNCHANGED <<fis, mounted>>

\* common_open_file with init_directory: a disk takes the next file it has a buffer for, in
\* no order with the files of other disks, and has a directory from its first file on.  A
\* directory that is there is used, and a file that is there is written over, not cut off; the
\* last file may be short.
init_directory(n, k, d, packets) ==
  LET made == recs[n].made IN
  /\ recs[n].stage = "records" /\ made[k] = 0
  /\ packets = FilePackets \/ \A j \in FileNos : made[j] > 0 => j < k
  /\ \A j \in FileNos : made[j] \in {0, FilePackets} \/ k < j
  /\ <<n, k, d>> \in Stored \/ Cardinality(Stored) < MaxStored
  /\ recs' = [recs EXCEPT ![n].copies[k][d] = Max({@, packets}), ![n].made[k] = packets]
  /\ UNCHANGED <<schedule, queued, fis, mounted, outdated>>

\* common_writecfg: when all is written, the configuration is put into one directory after
\* the other.
common_writecfg(n, d) ==
  LET files == {k \in FileNos : recs[n].made[k] > 0}
      cumul == IF files = {} THEN 0 ELSE Max(files) + 1
      cfg == [cumul |-> cumul, last |-> IF files = {} THEN 0 ELSE recs[n].made[cumul - 1]]
  IN /\ recs[n].stage # "ended" /\ d \in DirsOf(n)
     /\ recs' = [recs EXCEPT ![n].cfgs[d] = cfg, ![n].stage = "closes"]
     /\ UNCHANGED <<schedule, queued, fis, mounted, outdated>>

\* The session ends, with its configurations or killed without them.
SessionEnds(n) ==
  /\ recs[n].stage # "ended"
  /\ recs' = [recs EXCEPT ![n].stage = "ended", ![n].made = NoRec.made]
  /\ UNCHANGED <<schedule, queued, fis, mounted, outdated>>

\* The entry leaves STATEFILE: by the daemon after the session, by a client at any time.
ClearSchedule(n) ==
  /\ n \in schedule /\ schedule' = schedule \ {n}
  /\ UNCHANGED <<recs, queued, fis, mounted, outdated>>

\* vbs_rm, of a recording that nobody writes: one directory after the other.
vbs_rm(n, d) ==
  /\ recs[n].stage = "ended" /\ n \notin schedule /\ d \in DirsOf(n)
  /\ recs' = [recs EXCEPT ![n] = IF DirsOf(n) = {d} THEN NoRec
                ELSE [@ EXCEPT !.copies = [k \in FileNos |-> [@[k] EXCEPT ![d] = 0]],
                               !.cfgs[d] = NoCfg]]
  /\ Outdate(n) /\ UNCHANGED <<schedule, queued, fis, mounted>>

-----------------------------------------------------------------------------
(* A file index                                                              *)

Free == [name |-> FREE, status |-> {}, filesize |-> 0, n_files |-> 0, n_packets |-> 0,
         allocated |-> 0, fileid |-> [k \in FileNos |-> Junk]]

\* add_file_to_index
add_file_to_index(n) == [Free EXCEPT !.name = n]

\* malloc with memset, or realloc, which leaves what it adds as it is.
Allocate(fi, size) ==
  [fi EXCEPT !.allocated = size,
             !.fileid = [k \in FileNos |-> IF k >= size THEN Junk
                                           ELSE IF fi.allocated = 0 THEN Missing
                                           ELSE fi.fileid[k]]]

\* get_and_update_from_own_cfg, parse_cfg: the recording turns out to be finished.
get_and_update_from_own_cfg(fi, cfg) ==
  [Allocate(fi, cfg.cumul) EXCEPT !.n_files = cfg.cumul, !.n_packets = TotalPackets(cfg),
                                  !.status = @ \ {"NOCFG"}]

\* fi_update_from_files for each of the directories in their order, with what readdir may list
\* first: the files that count, the size of one where none is known, the doubled fileid.  Of
\* two files of a number the one on the later disk stays.
fi_update_from_files(fi) ==
  LET n == fi.name
      live == "NOCFG" \in fi.status
      files == {k \in FilesOf(n) : live \/ k < fi.n_files}
      disk == Min(UNION {DisksOf(n, k) : k \in files})
      needed == IF files = {} THEN 0 ELSE Max(files) + 1
      doubled == {fi.allocated * 2 ^ j : j \in 0..needed}
      found == IF needed > fi.allocated
               THEN Allocate(fi, Min({size \in doubled : size >= needed})) ELSE fi
      sizes == IF fi.filesize = 0 /\ files # {}
               THEN {recs[n].copies[k][disk] : k \in files} \ {0} ELSE {fi.filesize}
  IN {[found EXCEPT !.n_files = IF live THEN Max({@, needed}) ELSE @,
                    !.filesize = size,
                    !.fileid = [k \in FileNos |-> IF k \in files THEN Max(DisksOf(n, k)) ELSE @[k]]] :
        size \in sizes}

\* parse_schedule_for_fi, check_all_dirs_for_cfg
parse_schedule_for_fi(fi) == fi.name \in schedule
check_all_dirs_for_cfg(fi) == {d \in DirsOf(fi.name) : recs[fi.name].cfgs[d] # NoCfg}

\* update_nocfg_index: what the index may become, and whether 0 is returned.  A recording
\* with neither an entry nor a configuration is not one of vlbistreamer's, for good.
update_nocfg_index(fi) ==
  IF ~parse_schedule_for_fi(fi) /\ check_all_dirs_for_cfg(fi) = {}
  THEN {[fi |-> [fi EXCEPT !.status = @ \cup {"NOTVBS"}], ok |-> TRUE]}
  ELSE IF DirsOf(fi.name) = {} THEN {[fi |-> Free, ok |-> FALSE]}
  ELSE LET own == IF parse_schedule_for_fi(fi) THEN fi
                  ELSE LET d == Min(check_all_dirs_for_cfg(fi))
                       IN get_and_update_from_own_cfg(fi, recs[fi.name].cfgs[d])
           sized == IF own.filesize = 0 THEN [own EXCEPT !.filesize = MbPackets] ELSE own
           ready == IF sized.allocated = 0 THEN Allocate(sized, InitialSize) ELSE sized
           Packets(f) == IF "NOCFG" \in f.status THEN f.n_files * f.filesize ELSE f.n_packets
       IN {[fi |-> [f EXCEPT !.n_packets = Packets(f), !.status = @ \cup {"INITIALIZED"}],
            ok |-> TRUE] : f \in fi_update_from_files(ready)}

\* create_single_file_index: the first directory decides.  A slot that lookup gave away
\* while it was free has no name, and no directory.
create_single_file_index(fi) ==
  LET dirs == IF fi.name = NULL THEN {} ELSE DirsOf(fi.name)
  IN IF dirs = {} THEN {[fi |-> [fi EXCEPT !.status = @ \cup {"NOTVBS"}], ok |-> FALSE]}
     ELSE LET cfg == recs[fi.name].cfgs[Min(dirs)] IN
          IF cfg = NoCfg THEN update_nocfg_index([fi EXCEPT !.status = @ \cup {"NOCFG"}])
          ELSE {[fi |-> [f EXCEPT !.status = @ \cup {"INITIALIZED"}], ok |-> TRUE] :
                  f \in fi_update_from_files(get_and_update_from_own_cfg(fi, cfg))}

-----------------------------------------------------------------------------
(* The table                                                                 *)

\* The slots vbs_hashfunction looks at, once to the end and once through.
Probe == [n \in Names |-> [k \in 1..(2 * MaxFiles - Hash[n]) |-> (Hash[n] + k - 1) % MaxFiles]]

\* Where it stops: at a free slot, at the name, and for ever at one without a name.
Stops(t, n) == {k \in DOMAIN Probe[n] : t[Probe[n][k]].name \in {FREE, NULL, n}}

NoSlot == MaxFiles

\* vbs_hashfunction, to get a slot or to set one.  Only when the very first slot is free
\* does a lookup learn that there is no such name.
vbs_hashfunction(t, n, get) ==
  IF Stops(t, n) = {} THEN NoSlot
  ELSE LET k == Min(Stops(t, n)) IN
       IF get /\ k = 1 /\ t[Hash[n]].name = FREE THEN NoSlot ELSE Probe[n][k]

\* strcmp with the name of a slot that has none.
Faults(t, n) ==
  LET s == vbs_hashfunction(t, n, FALSE) IN s # NoSlot /\ t[s].name = NULL

\* quickcheck_index_for_file
quickcheck_index_for_file(n) == DirsOf(n) # {}

\* rebuild_file_index for one name, and whether the process is dead: slot 0 is taken for an error.
Indexed(r, n) ==
  LET s == vbs_hashfunction(r.fis, n, FALSE) IN
  IF r.dead \/ Faults(r.fis, n) THEN {[r EXCEPT !.dead = TRUE]}
  ELSE IF s \in {0, NoSlot} \/ r.fis[s].name # FREE THEN {r}
  ELSE {[r EXCEPT !.fis[s] = c.fi] : c \in create_single_file_index(add_file_to_index(n))}

\* rebuild_file_index: the disks in their order, the names of each as readdir lists them.
Listings == {o \in SetToSeqs({n \in Recorded : DirsOf(n) # {}}) :
               \A i, j \in DOMAIN o : i < j => Min(DirsOf(o[i])) <= Min(DirsOf(o[j]))}

rebuild_file_index(t) ==
  UNION {FoldLeft(LAMBDA rs, n : UNION {Indexed(r, n) : r \in rs}, {[fis |-> t, dead |-> FALSE]}, o) :
           o \in Listings}

-----------------------------------------------------------------------------
(* The calls                                                                 *)

\* The process dies: the mount point stays, without an answer.
Crash == mounted' = FALSE /\ fis' = [s \in Slots |-> Free] /\ outdated' = {}

Put(t) == fis' = t /\ outdated' = {s \in outdated : t[s].name # FREE} /\ UNCHANGED mounted

\* vbs_init
vbs_init ==
  /\ ~mounted /\ mounted' = TRUE
  /\ \E r \in rebuild_file_index([s \in Slots |-> Free]) : fis' = r.fis
  /\ outdated' = {} /\ UNCHANGED disks

\* vbs_readdir
vbs_readdir ==
  /\ mounted
  /\ \E r \in rebuild_file_index(fis) : IF r.dead THEN Crash ELSE Put(r.fis)
  /\ UNCHANGED disks

\* What both calls do with a slot they were given: build its index, or bring it up to date.
Update(s, rest) ==
  LET fi == IF fis[s].name = FREE THEN [Free EXCEPT !.name = NULL] ELSE fis[s] IN
  IF "NOTVBS" \in fi.status THEN Put(fis)
  ELSE IF "INITIALIZED" \notin fi.status
  THEN \E r \in create_single_file_index(fi) : Put([fis EXCEPT ![s] = r.fi])
  ELSE IF "NOCFG" \in fi.status
  THEN \E r \in update_nocfg_index(fi) : Put([fis EXCEPT ![s] = r.fi])
  ELSE Put([fis EXCEPT ![s] = rest])

\* vbs_getattr: a name that has no slot is looked for on the disks.  A finished recording
\* is answered from its index, whatever became of it.
vbs_getattr(n) ==
  LET s == vbs_hashfunction(fis, n, TRUE)
      new == vbs_hashfunction(fis, n, FALSE)
  IN /\ mounted
     /\ \/ s # NoSlot /\ Faults(fis, n) /\ Crash
        \/ s # NoSlot /\ ~Faults(fis, n) /\ Update(s, fis[s])
        \/ /\ s = NoSlot /\ quickcheck_index_for_file(n)
           /\ IF new = NoSlot THEN Crash
              ELSE \E r \in create_single_file_index(add_file_to_index(n)) :
                     Put([fis EXCEPT ![new] = r.fi])
     /\ UNCHANGED disks

\* vbs_open: nothing but an index is looked at; that of a finished recording is dropped
\* when no disk has its directory any more.
vbs_open(n) ==
  LET s == vbs_hashfunction(fis, n, TRUE) IN
  /\ mounted /\ s # NoSlot
  /\ IF Faults(fis, n) THEN Crash
     ELSE Update(s, IF fis[s].name = n /\ DirsOf(n) = {} THEN Free ELSE fis[s])
  /\ UNCHANGED disks

-----------------------------------------------------------------------------
(* vbs_read, with o bytes left out of each packet (the -f option)            *)

Data(o) == PacketSize - o

convert_from_woffset_to_truelength(o, amount) ==
  LET remainder == amount % Data(o)
  IN (amount \div Data(o)) * PacketSize + (IF remainder > 0 THEN o + remainder ELSE 0)

convert_from_truelength_to_woffset(o, amount) == (amount \div PacketSize) * Data(o)

size_of_rec(fi, o) == fi.n_packets * Data(o)
effective_filesize(fi, o) == convert_from_truelength_to_woffset(o, fi.filesize * PacketSize)

\* One chunk of do_operation: the bytes up to the end of a packet, less what is left out at
\* its start, as long as the file has any.  got collects which byte of which file went where
\* in the buffer.
Chunk(ro, o) ==
  LET from_boundary == ro.offset % PacketSize
      skip == IF from_boundary < o THEN o - from_boundary ELSE 0
      n == Min({ro.size - skip, PacketSize - from_boundary - skip})
  IN IF ro.size <= o \/ ro.offset >= ro.end THEN ro
     ELSE [ro EXCEPT !.got = @ \cup {<<ro.buf + j, ro.file, ro.offset + skip + j>> : j \in 0..(n - 1)},
                     !.buf = @ + n, !.offset = @ + skip + n, !.size = @ - (skip + n)]

\* do_operation: the child splices the file into a pipe, the parent empties it.
do_operation(ro, o) ==
  FoldLeft(LAMBDA r, i : Chunk(r, o), ro, [i \in 1..(ro.size \div PacketSize + 2) |-> i]).got

\* Mutant: each file is read from where the first one was.
KeepsPartialOff(p) == p.partial_off

\* Where the loop of vbs_read goes on in the next file.
NextPartialOff(p) == 0

\* One round of that loop.  A file known to be missing is passed over and uses up nothing; one
\* that cannot be opened, as at an entry that was never written, makes the read fail.  What is
\* left is a size_t: less than nothing is very much.
Piece(p, fi, o, i) ==
  LET amount == IF (p.partial_off + p.size) % SizeT > effective_filesize(fi, o)
                THEN effective_filesize(fi, o) - p.partial_off ELSE p.size
      true_len == IF o > 0 THEN convert_from_woffset_to_truelength(o, amount) ELSE amount
      packets == IF fi.fileid[i] \in Disks THEN recs[fi.name].copies[i][fi.fileid[i]] ELSE 0
      ro == [file |-> i, buf |-> p.buf, size |-> true_len, got |-> p.got,
             offset |-> convert_from_woffset_to_truelength(o, p.partial_off),
             end |-> packets * PacketSize]
  IN IF fi.fileid[i] = Missing THEN p
     ELSE [buf |-> p.buf + true_len, size |-> (p.size - true_len) % SizeT,
           partial_off |-> NextPartialOff(p), got |-> do_operation(ro, o),
           retval |-> IF packets = 0 THEN -1 ELSE p.retval]

\* The files that a read of size bytes goes through: those it has bytes of, and the one after
\* them when it ends where a file ends.
n_files_open(fi, o, offset, size) ==
  LET filesize == effective_filesize(fi, o)
      whole == size \div filesize
  IN whole + 1 + (IF filesize - (offset % filesize) < size - whole * filesize THEN 1 ELSE 0)

\* vbs_read of an index: what is where in the buffer, and what is returned.  A read that reaches
\* the end of the recording is cut there and returns EOF.
EOF == -1
vbs_read(fi, o, offset, size) ==
  LET filesize == effective_filesize(fi, o)
      past == offset + size >= size_of_rec(fi, o)
      asked == IF past THEN size_of_rec(fi, o) - offset ELSE size
      files == [i \in 1..n_files_open(fi, o, offset, asked) |-> offset \div filesize + i - 1]
  IN FoldLeft(LAMBDA p, i : Piece(p, fi, o, i),
              [buf |-> 0, size |-> asked, partial_off |-> offset % filesize, got |-> {},
               retval |-> IF past THEN EOF ELSE size],
              SelectSeq(files, LAMBDA i : i \in FileNos))

-----------------------------------------------------------------------------
Init ==
  /\ schedule = {} /\ queued = 0 /\ recs = [n \in Names |-> NoRec]
  /\ fis = [s \in Slots |-> Free] /\ mounted = TRUE /\ outdated = {}

Next ==
  \/ \E n \in Recorded : \/ StartRecording(n) \/ SessionEnds(n) \/ ClearSchedule(n)
                         \/ \E d \in Disks : \/ common_writecfg(n, d) \/ vbs_rm(n, d)
                                             \/ \E k \in FileNos, packets \in 1..FilePackets :
                                                  init_directory(n, k, d, packets)
  \/ vbs_init \/ vbs_readdir
  \/ \E n \in Names : vbs_getattr(n) \/ vbs_open(n)

Spec == Init /\ [][Next]_vars

-----------------------------------------------------------------------------
(* Properties                                                                *)

\* Where byte x of a recording is, if nothing is wrong: its file, and its place in it.
FileOf(x, o) == x \div (FilePackets * Data(o))
PlaceOf(x, o) == LET y == x % (FilePackets * Data(o))
                 IN (y \div Data(o)) * PacketSize + o + (y % Data(o))

\* The slots whose index tells of what is on the disks now, and of full files.
Current(s) ==
  /\ s \notin outdated /\ fis[s].filesize = FilePackets
  /\ "INITIALIZED" \in fis[s].status /\ "NOTVBS" \notin fis[s].status

\* Some file of n has byte x.
Exists(n, x, o) ==
  \E d \in Disks : PlaceOf(x, o) < recs[n].copies[FileOf(x, o)][d] * PacketSize

\* The files a read opens.  None of them was recorded twice, on two disks.
Opened(fi, o, from, size) ==
  {FileOf(from, o) + i : i \in 0..(n_files_open(fi, o, from, size) - 1)}
OfOneDisk(fi, k) == k \in FileNos => fi.fileid[k] \in Disks /\ Cardinality(DisksOf(fi.name, k)) <= 1

\* A read gives the bytes it was asked for, from the files that hold them, and nothing else, and
\* returns how many they are: however the recording grew between the calls, whichever name came
\* first to the slot, whatever an earlier recording of the name has left, and across the borders
\* of files.  Short of the end of the recording, that is, and where no file it opens is missing or
\* was recorded twice; and with an offset only whole packets of a part of one file are read right.
ReadGivesTheRange ==
  \A s \in Slots, o \in 0..(PacketSize - 1) : Current(s) =>
    \A from, to \in 0..(size_of_rec(fis[s], o) - 2) :
      /\ from <= to /\ \A x \in from..to : Exists(fis[s].name, x, o)
      /\ \A k \in Opened(fis[s], o, from, to - from + 1) : OfOneDisk(fis[s], k)
      /\ o > 0 => /\ from % Data(o) = 0
                  /\ Cardinality(Opened(fis[s], o, from, to - from + 1)) = 1
      => LET r == vbs_read(fis[s], o, from, to - from + 1) IN
         /\ r.got = {<<x - from, FileOf(x, o), PlaceOf(x, o)>> : x \in from..to}
         /\ r.retval = to - from + 1
=============================================================================

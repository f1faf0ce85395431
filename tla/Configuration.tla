---------------------------- MODULE Configuration ---------------------------
(***************************************************************************)
(* The options of the daemon and of its sessions: where they come from     *)
(* (clear_and_default, the command line, the configuration file, an entry  *)
(* of the schedule, the configuration stored with a recording) and what is *)
(* computed from them (src/src/confighelper.c, streamer.c, server.c).      *)
(*                                                                         *)
(* struct opt_s is a record of its optbits (the set of flags that are on), *)
(* its numbers, and its strings, which are addresses in memory: NULL or an *)
(* index of heap.  A configuration is the sequence of settings libconfig   *)
(* finds in a file.  Sizes are in the units the constants give them.       *)
(***************************************************************************)
EXTENDS Integers, FiniteSets, Sequences, SequencesExt

CONSTANTS
  Meg, Gig, BlockAlign, RingAlign,  \* MEG, GIG, BLOCK_ALIGN, and 16
  Drives,                           \* how many recording points there are
  CommandLines,                     \* what argv may be, one after the other
  Files,                            \* what CFGFILE may hold
  Entries,                          \* what an entry of the schedule may hold
  MaxSessions                       \* bound on the sessions of a behaviour

ASSUME ConfigurationAssumption ==
  {Meg, Gig, BlockAlign, RingAlign, Drives, MaxSessions} \subseteq Nat \ {0}

\* A command line, and what a file and an entry hold, are sequences.
ASSUME SettingsAssumption ==
  /\ \A c \in DOMAIN CommandLines :
       Len(CommandLines[c]) \in Nat /\ DOMAIN CommandLines[c] = 1..Len(CommandLines[c])
  /\ \A f \in DOMAIN Files : Len(Files[f]) \in Nat /\ DOMAIN Files[f] = 1..Len(Files[f])
  /\ \A e \in DOMAIN Entries :
       Len(Entries[e]) \in Nat /\ DOMAIN Entries[e] = 1..Len(Entries[e])

NULL == 0
Disks == 1..Drives

-----------------------------------------------------------------------------
(* The options                                                               *)

LOCKER_WRITER == {"WRITER_DUMMY", "BUFFER_SIMPLE"}
LOCKER_REC == {"REC_AIO", "REC_DUMMY", "REC_DEF", "REC_SPLICER", "REC_WRITEV", "REC_SENDFILE"}
LOCKER_CAPTURE ==
  {"CAPTURE_W_FANOUT", "CAPTURE_W_UDPSTREAM", "CAPTURE_W_DISK2FILE", "CAPTURE_W_DUMMY",
   "CAPTURE_W_TCPSTREAM", "CAPTURE_W_TCPSPLICE", "CAPTURE_W_MULTISTREAM"}
LOCKER_DATATYPE ==
  {"DATATYPE_UNKNOWN", "DATATYPE_VDIF", "DATATYPE_MARK5B", "DATATYPE_UDPMON",
   "DATATYPE_MARK5BNET"}

\* The settings set_from_root handles by a macro, and the flag of a boolean.
Int64Settings ==
  {"cumul", "last_packet", "time", "minmem", "maxmem", "do_w_stuff_every", "packet_size",
   "total_packets"}
IntSettings ==
  {"port", "stream_multiply", "n_threads", "n_drives", "offset", "rate", "wait_nanoseconds",
   "buf_num_elems", "buf_division"}
StringSettings == {"filename", "address_to_bind_to", "disk2fileoutput", "hostname"}
BooleanSettings ==
  [use_largest_transac |-> "USE_LARGEST_TRANSAC", use_hugepage |-> "USE_HUGEPAGE",
   use_rx_ring |-> "USE_RX_RING", verbose |-> "VERBOSE",
   wait_start_on_metadata |-> "WAIT_START_ON_METADATA",
   force_socket_reacquire |-> "FORCE_SOCKET_REACQUIRE", use_tcp_socket |-> "USE_TCP_SOCKET",
   connect_before_sending |-> "CONNECT_BEFORE_SENDING",
   write_to_single_file |-> "WRITE_TO_SINGLE_FILE"]

Numbers == Int64Settings \cup IntSettings \cup {"filesize", "starting_time"}
Strings == StringSettings \cup {"cfgfile"}

\* WRITEND_USES_DIRECTIO, and CALC_BUFSIZE_FROM_OPT for a number of packets.
UsesDirectio(opt) == opt.optbits \cap {"REC_AIO", "REC_DEF"} # {}
BufSize(opt, elems) == elems * (opt.num["packet_size"] - opt.num["offset"])

\* The defaults of clear_and_default, on cleared memory.
clear_and_default ==
  [optbits |-> {"CAPTURE_W_UDPSTREAM", "DATATYPE_UNKNOWN", "BUFFER_SIMPLE", "REC_DEF",
                "SIMPLE_BUFFER"},
   num |-> [n \in Numbers |->
              CASE n \in {"n_drives", "stream_multiply"} -> 1
                [] n = "packet_size" -> 2 * RingAlign
                [] n = "maxmem" -> 2
                [] OTHER -> 0],
   str |-> [s \in Strings |-> NULL]]

\* Mutant: clear_pointers without its line for the host name.
ClearPointersButHostname(opt) ==
  [opt EXCEPT !.str = [s \in Strings |-> IF s = "hostname" THEN opt.str[s] ELSE NULL]]

\* clear_pointers: a copy of the defaults may share no string with them.
clear_pointers(opt) == [opt EXCEPT !.str = [s \in Strings |-> NULL]]

-----------------------------------------------------------------------------
(* set_from_root: read a configuration into opt, compare it with opt, or     *)
(* write opt into it.  The state of a pass is the opt, the heap, the cfg,    *)
(* the deprecated filesize, and whether the pass came to -1 or to a fault.   *)

Failed(pass) == [pass EXCEPT !.result = "error"]
Flags(pass, off, on) == [pass EXCEPT !.opt.optbits = (@ \ off) \cup on]

\* config_setting_set_*: the value of setting i of the configuration.
Written(pass, i, value) == [pass EXCEPT !.cfg[i].value = value]

\* CFG_FULL_UINT64 and CFG_FULL_INT.
FullNumber(pass, i, mode, field, type) ==
  LET s == pass.cfg[i] IN
  CASE s.type # type -> Failed(pass)
    [] mode = "check" -> IF s.value # pass.opt.num[field] THEN Failed(pass) ELSE pass
    [] mode = "write" -> Written(pass, i, pass.opt.num[field])
    [] OTHER -> [pass EXCEPT !.opt.num[field] = s.value]

\* CFG_FULL_BOOLEAN.  The check fails when the setting agrees with the flag.
FullBoolean(pass, i, mode, flag) ==
  LET s == pass.cfg[i]  on == flag \in pass.opt.optbits IN
  CASE s.type # "int" -> Failed(pass)
    [] mode = "check" ->
         IF s.value = IF on THEN 1 ELSE 0 THEN Failed(pass) ELSE pass
    [] mode = "write" -> Written(pass, i, IF on THEN 1 ELSE 0)
    [] OTHER -> IF s.value = 1 THEN Flags(pass, {}, {flag}) ELSE Flags(pass, {flag}, {})

\* CFG_FULL_STR: strdup where there is no string, else strcpy over the old one.
FullString(pass, i, mode, field) ==
  LET s == pass.cfg[i]  at == pass.opt.str[field] IN
  CASE s.type # "string" -> Failed(pass)
    [] mode = "check" /\ at = NULL -> [pass EXCEPT !.result = "fault"]
    [] mode = "check" -> IF s.value # pass.heap[at] THEN Failed(pass) ELSE pass
    [] mode = "write" -> Written(pass, i, IF at = NULL THEN "" ELSE pass.heap[at])
    [] at = NULL -> [pass EXCEPT !.heap = Append(@, s.value),
                                 !.opt.str[field] = Len(pass.heap) + 1]
    [] OTHER -> [pass EXCEPT !.heap[at] = s.value]

\* A flag of a group by its name: what it switches off besides its group, and on.
WriterFlags ==
  [def |-> <<{"ASYNC_WRITE"}, {"REC_DEF"}>>, aio |-> <<{}, {"REC_AIO", "ASYNC_WRITE"}>>,
   splice |-> <<{"ASYNC_WRITE"}, {"REC_SPLICER", "CAN_STRIP_BYTES"}>>,
   dummy |-> <<{"ASYNC_WRITE"}, {"REC_DUMMY", "WRITER_DUMMY"}>>,
   writev |-> <<{"ASYNC_WRITE"}, {"REC_WRITEV", "CAN_STRIP_BYTES"}>>,
   sendfile |-> <<{"ASYNC_WRITE"}, {"REC_SENDFILE"}>>]
CaptureFlags ==
  [fanout |-> <<{}, {"CAPTURE_W_FANOUT"}>>, udpstream |-> <<{}, {"CAPTURE_W_UDPSTREAM"}>>,
   disk2file |-> <<{}, {"CAPTURE_W_DISK2FILE", "READMODE"}>>,
   dummy |-> <<{}, {"CAPTURE_W_DUMMY"}>>, tcpstream |-> <<{}, {"CAPTURE_W_TCPSTREAM"}>>,
   multistream |-> <<{}, {"CAPTURE_W_MULTISTREAM"}>>,
   tcpsplice |-> <<{}, {"CAPTURE_W_TCPSPLICE"}>>]
DatatypeFlags ==
  [unknown |-> <<{}, {"DATATYPE_UNKNOWN"}>>, vdif |-> <<{}, {"DATATYPE_VDIF"}>>,
   mark5b |-> <<{}, {"DATATYPE_MARK5B"}>>, udpmon |-> <<{}, {"DATATYPE_UDPMON"}>>,
   mark5bnet |-> <<{}, {"DATATYPE_MARK5BNET"}>>]

\* A string setting that selects one flag of a group.  A check does nothing; an
\* unknown name fails after the group was cleared.
Choice(pass, i, mode, locker, flags) ==
  LET s == pass.cfg[i]
      chosen == pass.opt.optbits \cap locker
      names == {n \in DOMAIN flags : flags[n][2] \cap locker = chosen}
  IN CASE s.type # "string" -> Failed(pass)
       [] mode = "check" -> pass
       [] mode = "write" ->
            IF names = {} THEN Failed(pass) ELSE Written(pass, i, CHOOSE n \in names : TRUE)
       [] s.value \in DOMAIN flags ->
            Flags(pass, locker \cup flags[s.value][1], flags[s.value][2])
       [] OTHER -> Failed(Flags(pass, locker, {}))

Writer(pass, i, mode) == Choice(pass, i, mode, LOCKER_REC, WriterFlags)
Capture(pass, i, mode) == Choice(pass, i, mode, LOCKER_CAPTURE, CaptureFlags)
Datatype(pass, i, mode) == Choice(pass, i, mode, LOCKER_DATATYPE, DatatypeFlags)

\* "logfile": log_to_file, which fails on a path it cannot open.
LogFile(pass, i) ==
  LET s == pass.cfg[i] IN
  IF s.type # "string" \/ s.value = "unwritable" THEN Failed(pass) ELSE pass

\* "filesize" is deprecated.  Its check fails whatever the value is.
FileSize(pass, i, mode) ==
  LET s == pass.cfg[i]
      size == pass.opt.num["packet_size"] * pass.opt.num["buf_num_elems"]
  IN CASE s.type # "int64" \/ mode = "check" -> Failed(pass)
       [] mode = "write" -> Written(pass, i, size)
       [] OTHER -> [pass EXCEPT !.filesize = s.value]

\* "filesizemb" has no check: a check reads it.
FileSizeMb(pass, i, mode) ==
  LET s == pass.cfg[i] IN
  CASE s.type # "int" -> Failed(pass)
    [] mode = "write" ->
         Written(pass, i,
                 (pass.opt.num["packet_size"] * pass.opt.num["buf_num_elems"]) \div Meg)
    [] OTHER -> [pass EXCEPT !.opt.num["filesize"] = s.value * Meg]

\* "record" is 1 when READMODE is off.
Record(pass, i, mode) ==
  LET s == pass.cfg[i]  reads == "READMODE" \in pass.opt.optbits IN
  CASE s.type # "int" -> Failed(pass)
    [] mode = "check" -> IF (s.value # 0) = reads THEN Failed(pass) ELSE pass
    [] mode = "write" -> Written(pass, i, IF reads THEN 0 ELSE 1)
    [] OTHER ->
         IF s.value = 1 THEN Flags(pass, {"READMODE"}, {}) ELSE Flags(pass, {}, {"READMODE"})

\* "starting_time" has no check either.
StartingTime(pass, i, mode) ==
  FullNumber(pass, i, IF mode = "check" THEN "read" ELSE mode, "starting_time", "int64")

\* "optbits" holds all the flags at once.
Optbits(pass, i, mode) ==
  LET s == pass.cfg[i] IN
  CASE s.type # "int64" -> Failed(pass)
    [] mode = "check" -> IF s.value # pass.opt.optbits THEN Failed(pass) ELSE pass
    [] mode = "write" -> Written(pass, i, pass.opt.optbits)
    [] OTHER -> [pass EXCEPT !.opt.optbits = s.value]

\* One turn of the loop; the first error ends it.  An unknown name is skipped.
OneSetting(pass, i, mode) ==
  LET name == pass.cfg[i].name IN
  CASE pass.result # "ok" -> pass
    [] name = "logfile" -> LogFile(pass, i)
    [] name = "filesize" -> FileSize(pass, i, mode)
    [] name = "filesizemb" -> FileSizeMb(pass, i, mode)
    [] name = "buf_elem_size" -> FullNumber(pass, i, mode, "packet_size", "int64")
    [] name = "record" -> Record(pass, i, mode)
    [] name = "starting_time" -> StartingTime(pass, i, mode)
    [] name = "writer" -> Writer(pass, i, mode)
    [] name = "capture" -> Capture(pass, i, mode)
    [] name = "datatype" -> Datatype(pass, i, mode)
    [] name = "optbits" -> Optbits(pass, i, mode)
    [] name \in DOMAIN BooleanSettings -> FullBoolean(pass, i, mode, BooleanSettings[name])
    [] name \in StringSettings -> FullString(pass, i, mode, name)
    [] name \in Int64Settings -> FullNumber(pass, i, mode, name, "int64")
    [] name \in IntSettings -> FullNumber(pass, i, mode, name, "int")
    [] OTHER -> pass

\* The deprecated filesize needs the packet_size, and a buf_division nothing sets.
UseFileSize(pass) ==
  LET num == pass.opt.num IN
  CASE pass.result # "ok" \/ pass.filesize < 0 -> pass
    [] num["packet_size"] = 0 \/ num["buf_division"] = 0 -> [pass EXCEPT !.result = "fault"]
    [] OTHER ->
         [pass EXCEPT !.opt.num["buf_num_elems"] = pass.filesize \div num["packet_size"],
                      !.opt.num["do_w_stuff_every"] = pass.filesize \div num["buf_division"]]

set_from_root(theOpt, theHeap, theCfg, mode) ==
  LET start == [opt |-> theOpt, heap |-> theHeap, cfg |-> theCfg, filesize |-> -1,
                result |-> "ok"]
  IN UseFileSize(FoldLeftDomain(LAMBDA pass, i : OneSetting(pass, i, mode), start, theCfg))

-----------------------------------------------------------------------------
(* The start of the daemon                                                   *)

VARIABLES
  phase,      \* of main: "parse", "nonlogicals", "file", "parse_again", "size", "running",
              \* or its end: "exited", "fault"
  argv,       \* the command line
  optind,     \* the next argument getopt looks at
  cfgfile,    \* what CFGFILE holds
  default,    \* sched->default_opt
  heap,       \* the strings
  sessions,   \* the events of the schedule: [opt, state]
  indexed,    \* the packet_size of the recording's entry in active_file_index
  stored,     \* the configuration of the recording on each disk; <<>> is none
  dirs,       \* the disks that have its directory
  recorded    \* the sizes every finished recording had

startup == <<phase, argv, optind, cfgfile, default>>
archive == <<stored, dirs, recorded>>
vars == <<startup, heap, sessions, indexed, archive>>

Init ==
  /\ phase = "parse" /\ optind = 1
  /\ \E c \in DOMAIN CommandLines : argv = CommandLines[c]
  /\ \E f \in DOMAIN Files : cfgfile = Files[f]
  /\ default = clear_and_default /\ heap = <<>>
  /\ sessions = <<>> /\ indexed = 0
  /\ stored = [d \in Disks |-> <<>>] /\ dirs = {} /\ recorded = {}

\* What an option of the command line assigns.
NumberOption ==
  [I |-> "minmem", A |-> "maxmem", r |-> "rate", s |-> "port", p |-> "packet_size",
   d |-> "n_drives"]
FlagOption ==
  [v |-> "VERBOSE", x |-> "USE_RX_RING", V |-> "MOUNTPOINT_VERBOSE", u |-> "USE_HUGEPAGE"]
StringOption == [i |-> "address_to_bind_to", n |-> "hostname"]

\* The options that select a flag: the group, and the names with their flags.
ChoiceOption ==
  [t |-> <<LOCKER_CAPTURE, [fanout |-> <<{}, {"CAPTURE_W_FANOUT"}>>,
                            udpstream |-> <<{}, {"CAPTURE_W_UDPSTREAM"}>>,
                            dummy |-> <<{}, {"CAPTURE_W_DUMMY"}>>]>>,
   q |-> <<LOCKER_DATATYPE, [vdif |-> <<{}, {"DATATYPE_VDIF"}>>,
                             mark5b |-> <<{}, {"DATATYPE_MARK5B"}>>,
                             udpmon |-> <<{}, {"DATATYPE_UDPMON"}>>,
                             none |-> <<{}, {"DATATYPE_UNKNOWN"}>>]>>,
   m |-> <<{}, [r |-> <<{"READMODE"}, {}>>, s |-> <<{}, {"READMODE"}>>]>>,
   w |-> <<LOCKER_REC, [def |-> <<{"ASYNC_WRITE"}, {"REC_DEF"}>>,
                        aio |-> <<{}, {"REC_AIO", "ASYNC_WRITE"}>>,
                        splice |-> <<{"ASYNC_WRITE"}, {"REC_SPLICER"}>>,
                        dummy |-> <<LOCKER_WRITER \cup {"ASYNC_WRITE"},
                                    {"REC_DUMMY", "WRITER_DUMMY"}>>]>>]

\* One turn of getopt's loop in parse_options.  -c allocates the name of a file
\* and reads the file without storing the name: no file is found.
OneOption(pass, arg) ==
  LET o == arg.option  v == arg.value IN
  CASE o \in DOMAIN NumberOption -> [pass EXCEPT !.opt.num[NumberOption[o]] = v]
    [] o = "W" -> [pass EXCEPT !.opt.num["do_w_stuff_every"] = v * Meg]
    [] o = "a" -> [pass EXCEPT !.opt.num["wait_nanoseconds"] = v * 1000]
    [] o \in DOMAIN FlagOption -> Flags(pass, {}, {FlagOption[o]})
    [] o \in DOMAIN StringOption ->
         [pass EXCEPT !.heap = Append(@, v), !.opt.str[StringOption[o]] = Len(pass.heap) + 1]
    [] o \in DOMAIN ChoiceOption ->
         LET locker == ChoiceOption[o][1]  flags == ChoiceOption[o][2] IN
         IF v \in DOMAIN flags THEN Flags(pass, locker \cup flags[v][1], flags[v][2])
         ELSE IF o = "q" THEN Flags(pass, locker, {"DATATYPE_UNKNOWN"})
         ELSE Failed(Flags(pass, locker, {}))
    [] o = "f" -> IF v = "unwritable" THEN Failed(pass) ELSE pass
    [] OTHER -> Failed(pass)

\* parse_options, one option at a time.  main calls it twice, the second time to
\* give the command line the last word; optind is at the end of argv by then.
ParseOption ==
  /\ phase \in {"parse", "parse_again"} /\ optind <= Len(argv)
  /\ LET pass == OneOption([opt |-> default, heap |-> heap, result |-> "ok"], argv[optind]) IN
       /\ default' = pass.opt /\ heap' = pass.heap
       /\ phase' = IF pass.result = "ok" THEN phase ELSE "exited"
  /\ optind' = optind + 1
  /\ UNCHANGED <<argv, cfgfile, sessions, indexed, archive>>

\* The end of the arguments.  getrlimit's limit of minmem, which nothing but messages
\* reads, is left out.
Parsed ==
  /\ phase \in {"parse", "parse_again"} /\ optind > Len(argv)
  /\ phase' = IF phase = "parse" THEN "nonlogicals" ELSE "size"
  /\ UNCHANGED <<argv, optind, cfgfile, default, heap, sessions, indexed, archive>>

\* check_default_options_for_nonlogicals, on what the command line says.
CheckNonlogicals ==
  /\ phase = "nonlogicals"
  /\ phase' = IF "WRITE_TO_SINGLE_FILE" \in default.optbits /\ UsesDirectio(default)
              THEN "exited" ELSE "file"
  /\ UNCHANGED <<argv, optind, cfgfile, default, heap, sessions, indexed, archive>>

\* read_full_cfg of CFGFILE.
ReadFullCfg ==
  /\ phase = "file"
  /\ LET pass == set_from_root(default, Append(heap, "CFGFILE"), cfgfile, "read") IN
       /\ default' = [pass.opt EXCEPT !.str["cfgfile"] = Len(heap) + 1]
       /\ heap' = pass.heap
       /\ phase' = CASE pass.result = "ok" -> "parse_again"
                     [] pass.result = "error" -> "exited"
                     [] OTHER -> "fault"
  /\ UNCHANGED <<argv, optind, cfgfile, sessions, indexed, archive>>

\* rxring_packetadjustment: the packet grows to a multiple of 16.
rxring_packetadjustment(opt) ==
  LET size == opt.num["packet_size"] IN
  [opt EXCEPT !.num["packet_size"] = ((size + RingAlign - 1) \div RingAlign) * RingAlign]

\* calculate_buffer_sizes_singlefilesize, at the start of init_rbufs: a division
\* by zero when no size of a file or of a packet was given.
CalculateBufferSizes ==
  /\ phase = "size"
  /\ LET opt == IF "USE_RX_RING" \in default.optbits
                THEN rxring_packetadjustment(default) ELSE default
         size == opt.num["filesize"]
     IN IF opt.num["packet_size"] = 0 \/ size = 0
        THEN default' = opt /\ phase' = "fault"
        ELSE /\ default' = [opt EXCEPT
                  !.num["buf_num_elems"] = size \div opt.num["packet_size"],
                  !.num["n_threads"] = (opt.num["maxmem"] * Gig) \div size]
             /\ phase' = "running"
  /\ UNCHANGED <<argv, optind, cfgfile, heap, sessions, indexed, archive>>

-----------------------------------------------------------------------------
(* The options of a session                                                  *)

\* The sessions that hold the entry of the index, and those of them that record.
Running == {s \in DOMAIN sessions : sessions[s].state = "running"}
Live == {s \in Running : "READMODE" \notin sessions[s].opt.optbits}

\* add_recording: the defaults without their strings, then the entry over them.
\* disk2fileoutput is allocated, and freed again when it has no use.
AddRecording ==
  /\ phase = "running" /\ Len(sessions) < MaxSessions
  /\ \E e \in DOMAIN Entries :
       LET names == Len(heap) + 1
           mine == [clear_pointers(default) EXCEPT
                      !.str["filename"] = names, !.str["disk2fileoutput"] = names + 1]
           pass == set_from_root(mine, heap \o <<"", "">>, Entries[e], "read")
           opt == IF "CAPTURE_W_DISK2FILE" \in pass.opt.optbits THEN pass.opt
                  ELSE [pass.opt EXCEPT !.str["disk2fileoutput"] = NULL]
       IN /\ heap' = pass.heap
          /\ sessions' = Append(sessions,
               IF pass.result = "ok" THEN [opt |-> opt, state |-> "scheduled"]
               ELSE [opt |-> pass.opt, state |-> "broken"])
  /\ UNCHANGED <<startup, indexed, archive>>

\* The first n_drives disks, and those of them a configuration of the recording is found
\* on.  No configuration stored with a recording says n_drives.
Points(opt) == {d \in Disks : d <= opt.num["n_drives"]}
Found(opt) == {d \in Points(opt) : stored[d] # <<>>}

\* The first of them is read, the others are compared with it, and a difference is only
\* logged.
Look(pass, d) ==
  CASE d \notin Found(pass.opt) -> pass
    [] d \in Found(pass.opt) /\ \A e \in Found(pass.opt) : e >= d ->
         LET read == set_from_root(pass.opt, heap, stored[d], "read").opt IN
         [pass EXCEPT !.opt =
            [read EXCEPT !.num["buf_num_elems"] = read.num["filesize"] \div read.num["packet_size"]]]
    [] OTHER -> [pass EXCEPT !.opt = set_from_root(pass.opt, heap, stored[d], "check").opt]

\* init_cfg of a playback.  Where no disk has a configuration, an entry of the index will
\* do: that of a recording going on, or of another playback, which says no packet_size.
FindRecording(opt) ==
  LET start == [opt |-> opt, result |-> "ok"] IN
  IF Found(opt) # {} THEN FoldLeft(Look, start, [d \in Disks |-> d])
  ELSE IF Running # {} THEN [start EXCEPT !.opt.num["packet_size"] = indexed]
  ELSE Failed(start)

\* init_cfg of a recording: afi_add refuses a name that is being recorded.
ClaimName(opt) ==
  [opt |-> opt, result |-> IF Live # {} THEN "error" ELSE "ok"]

\* init_cfg, its end: buffers of a single file shrink until whole blocks fit.  Packets of
\* no size are a division by zero, here or in start_event.
Aligned(pass) ==
  LET opt == pass.opt
      most == opt.num["filesize"] \div (opt.num["packet_size"] - opt.num["offset"])
      fits == {n \in 1..most : BufSize(opt, n) % BlockAlign = 0}
  IN IF fits = {} THEN Failed(pass)
     ELSE [pass EXCEPT !.opt.num["buf_num_elems"] = CHOOSE n \in fits : \A m \in fits : m <= n]

SingleFile(opt) == "WRITE_TO_SINGLE_FILE" \in opt.optbits /\ UsesDirectio(opt)

\* Mutant: the size of the file is left as it was, "shouldn't be used after this".
AlignElemsOnly(pass) ==
  IF ~SingleFile(pass.opt) THEN pass
  ELSE IF pass.opt.num["packet_size"] = 0 THEN [pass EXCEPT !.result = "fault"]
  ELSE Aligned(pass)

AlignSingleFile(pass) ==
  IF ~SingleFile(pass.opt) THEN pass
  ELSE IF pass.opt.num["packet_size"] = 0 THEN [pass EXCEPT !.result = "fault"]
  ELSE LET aligned == Aligned(pass) IN
       IF aligned.result # "ok" THEN aligned
       ELSE [aligned EXCEPT !.opt.num["filesize"] =
               BufSize(aligned.opt, aligned.opt.num["buf_num_elems"])]

init_cfg(opt) ==
  AlignSingleFile(IF "READMODE" \in opt.optbits THEN FindRecording(opt) ELSE ClaimName(opt))

\* afi_add: the first session of a name makes its entry, and only a recording says the
\* packet_size; the entry is there until the last session of the name is over.
Indexed(opt) ==
  IF Running # {} THEN indexed
  ELSE IF "READMODE" \in opt.optbits THEN 0 ELSE opt.num["packet_size"]

\* start_event, up to the creation of the session's thread: packets of no size end the
\* daemon by a division.  offset_onwrite is stored with a recording, but nothing reads it
\* back.  What becomes of a session that was refused is the schedule's affair (Daemon).
StartEvent ==
  /\ phase = "running"
  /\ \E s \in DOMAIN sessions :
       /\ sessions[s].state = "scheduled"
       /\ LET opt == sessions[s].opt
              pass == init_cfg(opt)
              num == pass.opt.num
          IN \/ /\ pass.result = "error"
                /\ sessions' = [sessions EXCEPT ![s] = [opt |-> pass.opt, state |-> "refused"]]
                /\ UNCHANGED <<phase, indexed>>
             \/ /\ pass.result = "ok" /\ num["packet_size"] # 0
                /\ sessions' = [sessions EXCEPT ![s] =
                     [opt |-> [pass.opt EXCEPT !.num["buf_num_elems"] =
                                 num["filesize"] \div num["packet_size"]],
                      state |-> "running"]]
                /\ indexed' = Indexed(opt)
                /\ UNCHANGED phase
             \/ /\ pass.result = "fault" \/ (pass.result = "ok" /\ num["packet_size"] = 0)
                /\ phase' = "fault"
                /\ UNCHANGED <<sessions, indexed>>
  /\ UNCHANGED <<argv, optind, cfgfile, default, heap, archive>>

-----------------------------------------------------------------------------
(* The configuration stored with a recording                                 *)

RecSetting(name, type, value) == [name |-> name, type |-> type, value |-> value]

\* Mutant: the size of the packets as they arrived.
StubRecCfgUnstripped(opt) ==
  <<RecSetting("packet_size", "int64", opt.num["packet_size"]),
    RecSetting("cumul", "int64", opt.num["cumul"]),
    RecSetting("total_packets", "int64", opt.num["total_packets"]),
    RecSetting("buf_division", "int", opt.num["buf_division"])>>

\* stub_rec_cfg: stripped packets are stored by the size that is left of them.
stub_rec_cfg(opt) ==
  LET strips == "CAN_STRIP_BYTES" \in opt.optbits
      size == opt.num["packet_size"] - (IF strips THEN opt.num["offset"] ELSE 0)
  IN <<RecSetting("packet_size", "int64", size)>>
       \o (IF strips THEN <<RecSetting("offset_onwrite", "int", opt.num["offset"])>> ELSE <<>>)
       \o <<RecSetting("cumul", "int64", opt.num["cumul"]),
            RecSetting("total_packets", "int64", opt.num["total_packets"]),
            RecSetting("buf_division", "int", opt.num["buf_division"])>>

\* A recording has written its files to some disks (which gives them its directory)
\* and ends: close_streamer_opts writes its configuration to every disk that has
\* the directory.  A write may fail before it began, or leave an unreadable file.
FinishRecording ==
  /\ phase = "running"
  /\ \E s \in Live, more \in SUBSET Points(default), files \in 1..2 :
       LET counted == [sessions[s].opt EXCEPT !.num["total_packets"] = 2 * files,
                                              !.num["cumul"] = files]
           opt == set_from_root(counted, heap, <<>>, "write").opt
           new == stub_rec_cfg(opt)
           size == opt.num["packet_size"]
                     - (IF "CAN_STRIP_BYTES" \in opt.optbits THEN opt.num["offset"] ELSE 0)
       IN /\ sessions' = [sessions EXCEPT ![s] = [opt |-> opt, state |-> "finished"]]
          /\ dirs' = dirs \cup more
          /\ \E write \in [Disks -> {"done", "refused", "broken"}] :
               stored' = [d \in Disks |->
                            CASE d \notin dirs' \/ write[d] = "refused" -> stored[d]
                              [] write[d] = "done" -> new
                              [] OTHER -> <<>>]
          /\ recorded' = recorded \cup {<<size, 2 * files, files>>}
  /\ UNCHANGED <<startup, heap, indexed>>

Next ==
  \/ ParseOption \/ Parsed \/ CheckNonlogicals \/ ReadFullCfg \/ CalculateBufferSizes
  \/ AddRecording \/ StartEvent \/ FinishRecording

Spec == Init /\ [][Next]_vars

-----------------------------------------------------------------------------
(* Properties                                                                *)

\* Strings are shared by copying struct opt_s and overwritten in place by strcpy:
\* no two of the default options and the sessions' own may hold the same one, or an
\* entry of the schedule would change the options of another session.
PrivateStrings ==
  LET opts == <<default>> \o [s \in DOMAIN sessions |-> sessions[s].opt]
      at == {x \in (DOMAIN opts) \X Strings : opts[x[1]].str[x[2]] # NULL}
  IN \A x, y \in at : x # y => opts[x[1]].str[x[2]] # opts[y[1]].str[y[2]]

\* A playback that found its recording on some disk takes all three sizes of one
\* finished recording, though its disks may hold the configurations of different
\* recordings, none, or broken ones, and all of them are read or compared.
PlaybackMatchesRecording ==
  \A s \in DOMAIN sessions :
    LET num == sessions[s].opt.num IN
    /\ sessions[s].state = "running"
    /\ "READMODE" \in sessions[s].opt.optbits
    /\ num["total_packets"] # 0
    => <<num["packet_size"], num["total_packets"], num["cumul"]>> \in recorded

\* The buffers were allocated for the default options.  A session's packets fit in
\* one of them, whatever its entry or its recording says of packets; and buffers
\* that go to one file with direct writes are whole blocks, so that no padding ends
\* up between them, although start_event computes their packets anew.
BuffersFit ==
  \A s \in DOMAIN sessions :
    LET opt == sessions[s].opt
        size == opt.num["buf_num_elems"] * opt.num["packet_size"]
    IN sessions[s].state = "running" =>
         /\ size <= default.num["filesize"]
         /\ "WRITE_TO_SINGLE_FILE" \in opt.optbits /\ UsesDirectio(opt)
              /\ opt.num["offset"] = 0 => size % BlockAlign = 0

\* "command line arguments override config file" (src/src/server.c:647).
CommandLineOverrides ==
  phase = "running" =>
    \A i \in DOMAIN argv :
      argv[i].option \in DOMAIN NumberOption =>
        default.num[NumberOption[argv[i].option]] = argv[i].value
=============================================================================

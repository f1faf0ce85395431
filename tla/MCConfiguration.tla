-------------------------- MODULE MCConfiguration ---------------------------
(* Packets of 3 to 5, files of 20, blocks of 4, two disks: packets that divide    *)
(* neither a file nor a block, every way the daemon may start, and a playback that *)
(* looks on the first disk only.                                                  *)
EXTENDS Configuration

Set(name, type, value) == [name |-> name, type |-> type, value |-> value]
Arg(option, value) == [option |-> option, value |-> value]

MCCommandLines ==
  <<<<>>,
    <<Arg("p", 5), Arg("i", "eth0"), Arg("n", "first"), Arg("w", "dummy"), Arg("q", "other"),
      Arg("m", "r")>>,
    <<Arg("x", ""), Arg("W", 3), Arg("d", 2)>>,
    <<Arg("A", 1), Arg("t", "wrong")>>, <<Arg("v", ""), Arg("c", "own.conf")>>>>

Size == Set("filesizemb", "int", 10)
MCFiles ==
  <<<<Set("port", "int64", 3)>>, <<Set("port", "int", 3)>>,
    <<Size, Set("filesize", "int64", 12)>>,
    <<Set("logfile", "string", "log"), Set("packet_size", "int64", 3), Size,
      Set("hostname", "string", "default"), Set("n_drives", "int", 2)>>,
    <<Size, Set("writer", "string", "aio"), Set("write_to_single_file", "int", 1)>>,
    <<Size, Set("writer", "string", "writev"), Set("offset", "int", 1), Set("n_drives", "int", 2),
      Set("buf_division", "int", 2), Set("filesize", "int64", 12),
      Set("address_to_bind_to", "string", "eth1")>>>>

Entry(record) == <<Set("record", "int", record), Set("filename", "string", "rec")>>
MCEntries ==
  <<Entry(1) \o <<Set("packet_size", "int64", 5), Set("hostname", "string", "relay")>>,
    Entry(1) \o <<Set("buf_elem_size", "int64", 3), Set("write_to_single_file", "int", 1),
                  Set("starting_time", "int64", 9)>>,
    Entry(1) \o <<Set("capture", "string", "wrong")>>,
    Entry(0) \o <<Set("hostname", "string", "there"), Set("datatype", "string", "vdif")>>,
    Entry(0) \o <<Set("capture", "string", "disk2file"),
                  Set("disk2fileoutput", "string", "out"), Set("n_drives", "int", 1)>>>>
=============================================================================

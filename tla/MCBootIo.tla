------------------------------ MODULE MCBootIo -------------------------------
(***************************************************************************)
(* A file system with directories and files of every format, and paths     *)
(* that lead to a file, end in a missing name, go through a file and go    *)
(* through a missing directory.                                            *)
(***************************************************************************)
EXTENDS BootIoProps

Ino(k, f, e) == [kind |-> k, format |-> f, linked |-> TRUE, entries |-> e]
NoEntries == [x \in {} |-> 0]

MCInodes == [n \in 1 .. 6 |->
  CASE n = 1 -> Ino("dir", "manyextents", [stand |-> 2, unix |-> 3, dev |-> 6])
    [] n = 2 -> Ino("dir", "btree", [sash |-> 4, unix |-> 5])
    [] n = 3 -> Ino("reg", "manyextents", NoEntries)
    [] n = 4 -> Ino("reg", "longlocal", NoEntries)
    [] n = 5 -> Ino("reg", "btree", NoEntries)
    [] n = 6 -> Ino("dir", "local", [unix |-> 3])]

MCPaths ==
  { <<"unix">>, <<"stand", "unix">>, <<"stand", "sash">>,
    <<"unix", "sash">>, <<"stand", "nosuch">>, <<"nosuch", "unix">>,
    <<"dev", "unix">>, <<"dev", "nosuch">> }
=============================================================================

---------------------------- MODULE MCFtdiStream ----------------------------
(***************************************************************************)
(* Small instances of FtdiStream.  The layouts give the constants that are *)
(* functions; everything else is in the .cfg files.                        *)
(***************************************************************************)
EXTENDS FtdiStream

OneReadFd == [s \in Streams |-> "read_fd"]
OneWriteFd == [s \in Streams |-> "write_fd"]
AllStartEnabled == [s \in Streams |-> TRUE]
NoneStartEnabled == [s \in Streams |-> FALSE]

\* One stream, one read transfer and one write transfer.
PairStream == [t \in Transfers |-> CHOOSE s \in Streams : TRUE]
PairReading == [t \in Transfers |-> t = 1]

\* One stream, read transfers only.
OnlyReading == [t \in Transfers |-> TRUE]
=============================================================================

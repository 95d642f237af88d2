------------------------------ MODULE MCFiles ------------------------------
(* What the program does with its files: two parts in one run, one or the   *)
(* other and never together.  Processes use the directory, or the streams   *)
(* of Streams are written and read.                                         *)
EXTENDS MCDataDirectory, Streams

VARIABLE part

MCText == {<<1>>, <<2, 3>>}
MCMarks == {<<2, 3>>, <<3, 2, 1>>}

FilesInit ==
    /\ part \in {"directory", "streams"}
    /\ Init /\ StreamInit
    /\ part = "directory" => class = "file"

FilesNext ==
    /\ UNCHANGED part
    /\ \/ part = "directory" /\ Next /\ UNCHANGED streamsVars
       \/ part = "streams" /\ StreamNext /\ UNCHANGED vars

FilesSpec == FilesInit /\ [][FilesNext]_<<part, streamsVars, vars>>
=============================================================================

-------------------------------- MODULE Aio --------------------------------
(***************************************************************************)
(* The files of the scripts (aio.lua): a save copies the file to a backup   *)
(* before it writes the file, a load that cannot use the file uses the       *)
(* backup and puts it back.  The program may die between any two steps, and  *)
(* a write may fail without a word: write_file looks at no result of         *)
(* file:write.                                                               *)
(***************************************************************************)
EXTENDS Naturals

VARIABLES
    file,   \* what is on the disk under the path
    tmp,    \* and under path .. '.tmp'
    step,   \* where the save or load in progress is, "idle" for none
    failed  \* history: a write or an open has failed

aio == <<file, tmp, step, failed>>

Absent  == [kind |-> "absent"]
Empty   == [kind |-> "empty"]   \* opened for writing, nothing in it yet
Torn    == [kind |-> "torn"]    \* a part of what was to be written
Full(s) == [kind |-> "full", contents |-> s]

Readable(f) == f.kind \in {"torn", "full"}  \* read_file without post_load
Loads(f)    == f.kind = "full"              \* and with json_loader

AioInit ==
    /\ file = Absent /\ tmp = Absent
    /\ step = "idle" /\ failed = FALSE

\* What load_file finds, `none' when there is nothing it can use.
Stored(none) == IF Loads(file) THEN file.contents
                ELSE IF Loads(tmp) THEN tmp.contents ELSE none

\* Fault: no backup.
NoBackup ==
    /\ step = "save" /\ step' = "write"
    /\ UNCHANGED <<file, tmp, failed>>

\* save_file: back up what can be read, whatever it is.
SaveBackup ==
    /\ step = "save"
    /\ UNCHANGED <<file, failed>>
    /\ IF Readable(file)
       THEN tmp' \in {Empty, Torn} /\ step' = "backup"
       ELSE tmp' = tmp /\ step' = "write"

\* The backup is complete, or has failed: save_file does not ask.
SaveBackupDone ==
    /\ step = "backup"
    /\ step' = "write"
    /\ \/ tmp' = file /\ failed' = failed
       \/ tmp' = tmp /\ failed' = TRUE
    /\ UNCHANGED file

\* write_file on the path itself; an open that fails is the one error reported.
SaveWrite ==
    /\ step = "write"
    /\ \/ file' \in {Empty, Torn} /\ step' = "writing" /\ failed' = failed
       \/ file' = file /\ step' = "error" /\ failed' = TRUE
    /\ UNCHANGED tmp

\* The contents are there, or not; the caller is told they are.
SaveDone(contents) ==
    /\ step = "writing"
    /\ step' = "saved"
    /\ \/ file' = Full(contents) /\ failed' = failed
       \/ file' = file /\ failed' = TRUE
    /\ UNCHANGED tmp

\* load_file had to use the backup: it is copied to the file.
RepairWrite ==
    /\ step = "load"
    /\ IF ~Loads(file) /\ Loads(tmp)
       THEN file' \in {Empty, Torn} /\ step' = "repair"
       ELSE file' = file /\ step' = "idle"
    /\ UNCHANGED <<tmp, failed>>

RepairDone ==
    /\ step = "repair"
    /\ step' = "idle"
    /\ \/ file' = tmp /\ failed' = failed
       \/ file' = file /\ failed' = TRUE
    /\ UNCHANGED tmp
============================================================================

------------------------------ MODULE MCDaemon ------------------------------
(***************************************************************************)
(* Instances of Daemon for TLC.                                            *)
(***************************************************************************)
EXTENDS Daemon

\* The services of the example expect no minimum; services made after it may.
Expected == [r \in Routines |-> IF r = "fast" THEN 0 ELSE 2]

\* Of the reports that have to come once a second one would be seen.
Reports == [s \in Statuses |-> IF s \in {"STARTED", "STOPPED"} THEN 2 ELSE 1]
=============================================================================

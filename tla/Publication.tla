---------------------------- MODULE Publication ----------------------------
(***************************************************************************)
(* What the publication of a report promises: under its name a reader      *)
(* finds nothing, the whole report, or a file that somebody else put there *)
(* first and that stays as it is.  A loss of power may take the name away  *)
(* again; it never leaves part of a report behind.                         *)
(***************************************************************************)
VARIABLE file     \* "absent", "whole" or "other"

Published == file = "absent" /\ file' = "whole"
Occupied  == file = "absent" /\ file' = "other"
Lost      == file = "whole" /\ file' = "absent"

Change == Published \/ Occupied \/ Lost

\* The name is free at first, or taken and then left alone.
Before == file \in {"absent", "other"}

Promise == Before /\ [][Change]_file
=============================================================================

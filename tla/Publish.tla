------------------------------ MODULE Publish ------------------------------
(***************************************************************************)
(* Publishing a report without overwriting anything (replay/persist.go):   *)
(* the data is written to a temporary file, synced, closed, linked to its  *)
(* name, and the temporary name is removed.  Every call may fail, another  *)
(* process may take the name, the process may be killed, and the power may *)
(* go, which leaves any part of what was not synced.                       *)
(***************************************************************************)
EXTENDS Naturals

VARIABLES
  step,     \* the next call of publish; "done" when it has returned, "dead" when killed
  content,  \* of the new file: "none", "part" or "whole" of the data
  synced,   \* the content has reached the disk
  temp,     \* the temporary name is there
  target,   \* what the name leads to: "absent", "ours" (the new file) or "other"
  err       \* what publish returns: "none", "failed", or "cleanup" when published

publishing == <<step, content, synced, temp, target, err>>

Steps == {"create", "write", "sync", "close", "link", "remove", "done", "dead"}

PublishInit ==
  /\ step = "create" /\ content = "none" /\ synced = FALSE
  /\ temp = FALSE /\ target \in {"absent", "other"} /\ err = "none"

\* The deferred call removes the temporary name, whatever has failed.
Fail == step' = "remove" /\ err' = "failed"

Go(next) == step' = next /\ UNCHANGED err

\* Data over the limit is refused here as well, before anything is created.
Create ==
  /\ step = "create"
  /\ \/ Go("write") /\ temp' = TRUE
     \/ step' = "done" /\ err' = "failed" /\ UNCHANGED temp
  /\ UNCHANGED <<content, synced, target>>

\* Faulty variant: the name is given before the content is synced.
WriteThenLink ==
  /\ step = "write"
  /\ \/ Go("link") /\ content' = "whole"
     \/ Fail /\ content' \in {"none", "part"}
  /\ UNCHANGED <<synced, temp, target>>

\* A short write is a failure even without an error.
Write ==
  /\ step = "write"
  /\ \/ Go("sync") /\ content' = "whole"
     \/ Fail /\ content' \in {"none", "part"}
  /\ UNCHANGED <<synced, temp, target>>

Sync ==
  /\ step = "sync"
  /\ \/ Go("close") /\ synced' = TRUE
     \/ Fail /\ UNCHANGED synced
  /\ UNCHANGED <<content, temp, target>>

Close ==
  /\ step = "close"
  /\ (Go("link") \/ Fail)
  /\ UNCHANGED <<content, synced, temp, target>>

\* A name that exists already is never replaced.
Link ==
  /\ step = "link"
  /\ \/ target = "absent" /\ Go("remove") /\ target' = "ours"
     \/ Fail /\ UNCHANGED target
  /\ UNCHANGED <<content, synced, temp>>

\* A removal that fails is reported unless something failed before.
Remove ==
  /\ step = "remove" /\ step' = "done"
  /\ \/ temp' = FALSE /\ UNCHANGED err
     \/ err' = (IF err = "none" THEN "cleanup" ELSE err) /\ UNCHANGED temp
  /\ UNCHANGED <<content, synced, target>>

Running == step \notin {"done", "dead"}

OtherCreates ==
  /\ target = "absent" /\ target' = "other"
  /\ UNCHANGED <<step, content, synced, temp, err>>

Killed == Running /\ step' = "dead" /\ UNCHANGED <<content, synced, temp, target, err>>

\* What the disk may hold after the power has gone.
Surviving == IF synced THEN {content} ELSE {"none", "part", content}

PowerLoss ==
  /\ step # "dead" /\ step' = "dead"
  /\ content' \in Surviving
  /\ temp' \in {temp, FALSE}
  /\ target' \in (IF target = "ours" THEN {"ours", "absent"} ELSE {target})
  /\ UNCHANGED <<synced, err>>

PublishCall == Create \/ Write \/ Sync \/ Close \/ Link \/ Remove

PublishNext == PublishCall \/ OtherCreates \/ Killed \/ PowerLoss

PublishSpec == PublishInit /\ [][PublishNext]_publishing

-----------------------------------------------------------------------------
\* What a reader finds under the name.
Read == IF target = "ours" THEN content ELSE target

P == INSTANCE Publication WITH file <- Read

(***************************************************************************)
(* Publishing keeps the promise of Publication through every failure, kill *)
(* and power loss (replay/persist.go publish; WriteFile's comment).        *)
(***************************************************************************)
KeepsPromise == P!Promise

\* A report is under the name only whole and on the disk (replay/persist.go publish).
OursIsWhole == target = "ours" => content = "whole" /\ synced
=============================================================================

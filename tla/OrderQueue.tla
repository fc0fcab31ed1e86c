----------------------------- MODULE OrderQueue -----------------------------
(***************************************************************************)
(* What the book of live orders promises: a queue in the order of          *)
(* acceptance.  An order joins at the end and leaves from anywhere, and    *)
(* nothing else ever changes the queue - not a fill that failed half way,  *)
(* not a save and a restore.                                               *)
(***************************************************************************)
EXTENDS SequencesExt

CONSTANT ID
VARIABLE queue

Queued(id) == \E n \in DOMAIN queue : queue[n] = id

Init == queue \in Seq(ID)

Join(id) == ~Queued(id) /\ queue' = Append(queue, id)

Leave(id) == \E n \in DOMAIN queue : queue[n] = id /\ queue' = RemoveAt(queue, n)

Next == \E id \in ID : Join(id) \/ Leave(id)

Spec == Init /\ [][Next]_queue
=============================================================================

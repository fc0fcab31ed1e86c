---------------------------- MODULE QueryBatch ----------------------------
(***************************************************************************)
(* One kind of query of a client: rows arrive on the library's thread and   *)
(* are handed over complete or not at all                                   *)
(* (src/cmd/oracle/ctp/query_batch.go, query_result.go).                    *)
(***************************************************************************)
EXTENDS Integers, Sequences

CONSTANT Nothing

\* An error outside the stages of a handshake.
Trouble(kind) == [stage |-> "none", kind |-> kind]

NewBatch == [id |-> 0, active |-> FALSE, complete |-> FALSE, rows |-> <<>>, err |-> Nothing]

Begin(id) == [id |-> id, active |-> TRUE, complete |-> FALSE, rows |-> <<>>, err |-> Nothing]

\* Rows are told apart by their request.
Receiving(b, id) == b.active /\ ~b.complete /\ id = b.id

\* The first error is kept; a row that comes with an error is not.
Receive(b, id, row, err, last) ==
  IF ~Receiving(b, id) THEN b
  ELSE [b EXCEPT !.err = IF @ = Nothing THEN err ELSE @,
                 !.rows = IF row # Nothing /\ err = Nothing THEN Append(@, row) ELSE @,
                 !.complete = last]

AbortBatch(b) ==
  IF ~b.active THEN b
  ELSE [b EXCEPT !.err = IF @ = Nothing THEN Trouble("closed") ELSE @, !.rows = <<>>, !.complete = TRUE]

\* Faulty variant: what has arrived when the timer fires is the answer.
TakeErrorIfAny(b) == b.err

TakeError(b) == IF b.err = Nothing /\ ~b.complete THEN Trouble("timeout") ELSE b.err

Taken(b) == [b EXCEPT !.active = FALSE, !.rows = <<>>]

\* A question about one thing has exactly one row for an answer.
UniqueError(rows) == IF Len(rows) = 1 THEN Nothing ELSE Trouble("not-one")

=============================================================================

----------------------------- MODULE Handshake -----------------------------
(***************************************************************************)
(* The collector of one handshake with the front of a counter              *)
(* (src/cmd/oracle/ctp/handshake.go).  Each operator is one region held     *)
(* under the collector's lock; who calls it, and in which order, is said by *)
(* module Session.  A deadline that has passed is the argument late.        *)
(***************************************************************************)
EXTENDS Integers

CONSTANT Nothing    \* no error, no answer

NewHandshake ==
  [stage |-> "setup", id |-> 0, active |-> FALSE, complete |-> FALSE, stopped |-> FALSE,
   result |-> Nothing, err |-> Nothing, abortErr |-> Nothing]

Failure(h, kind) == [stage |-> h.stage, kind |-> kind]

\* A stopped collector is left as it is; the others remember what was tried.
Asked(h, stage, id) == IF h.stopped THEN h ELSE [h EXCEPT !.stage = stage, !.id = id]

PrepareError(h, stage, id, late) ==
  CASE h.stopped /\ h.abortErr # Nothing        -> h.abortErr
    [] h.stopped /\ h.abortErr = Nothing        -> Failure(h, "already-finished")
    [] ~h.stopped /\ stage # "front" /\ id <= 0 -> Failure(Asked(h, stage, id), "invalid-request-id")
    [] ~h.stopped /\ (stage = "front" \/ id > 0) /\ late -> Failure(Asked(h, stage, id), "timeout")
    [] OTHER -> Nothing

Prepared(h, stage, id, late) ==
  IF PrepareError(h, stage, id, late) # Nothing THEN Asked(h, stage, id)
  ELSE [Asked(h, stage, id) EXCEPT !.active = TRUE, !.complete = FALSE, !.err = Nothing, !.result = Nothing]

\* The order of the reasons to ignore an answer matters to the log alone.
Listening(h, stage, id, late) ==
  ~h.stopped /\ h.active /\ ~h.complete /\ stage = h.stage /\ id = h.id /\ ~late

\* An error ends the stage at once, a success must carry an answer and be the last.
Reply(h, stage, id, value, code, last, late) ==
  IF ~Listening(h, stage, id, late) \/ (code = 0 /\ ~last) THEN h
  ELSE [h EXCEPT !.complete = TRUE,
                 !.err = IF code # 0 THEN Failure(h, "response-error")
                         ELSE IF value = Nothing THEN Failure(h, "missing-response") ELSE @,
                 !.result = IF code = 0 /\ value # Nothing THEN value ELSE @]

\* Faulty variant: whoever waits is not woken.
AbortedUnheard(h, kind) ==
  IF h.stopped THEN h ELSE [h EXCEPT !.stopped = TRUE, !.abortErr = Failure(h, kind)]

Abort(h, kind) ==
  IF h.stopped THEN h
  ELSE [h EXCEPT !.stopped = TRUE, !.abortErr = Failure(h, kind), !.complete = @ \/ h.active]

\* Waiting is over when the channel is closed or the timer fires.
Woken(h, late) == h.complete \/ late

Waited(h, late) ==
  [h EXCEPT !.active = FALSE,
            !.err = IF h.abortErr = Nothing /\ (~h.complete \/ late) THEN Failure(h, "timeout") ELSE @]

WaitError(h, late) == IF h.abortErr # Nothing THEN h.abortErr ELSE Waited(h, late).err

Seal(h) == [h EXCEPT !.stopped = TRUE, !.active = FALSE]

=============================================================================

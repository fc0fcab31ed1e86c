------------------------------- MODULE Runner -------------------------------
(***************************************************************************)
(* What the experiments of the oracle have in common                        *)
(* (src/cmd/oracle): a script of instructions, carried out one after        *)
(* another by one goroutine, against a counter that accepts, trades and     *)
(* cancels in its own time, seen through a picture that arrives late.       *)
(* An instruction that fails ends the script, after what the script does    *)
(* in that case; deferred instructions follow whatever happened.            *)
(***************************************************************************)
EXTENDS Counter

VARIABLES
  name,       \* the script that runs
  counter,    \* pos (lots of each leg), history, orders
  view,       \* what the client has been told: pos, and status of the last order
  todo,       \* instructions left
  later,      \* what was deferred: sequences of instructions, the last first
  at,         \* ph: phase of the instruction, id: last order, p: a position read, n: rounds, empty: empty answers
  out         \* stage, failed, told: orders the operator was told may still stand
vars == <<name, counter, view, todo, later, at, out>>

Leg(sym, side) == [sym |-> sym, side |-> side]
Long == Leg("a", "Long")
Short == Leg("a", "Short")
OtherLong == Leg("b", "Long")
OtherShort == Leg("b", "Short")
Legs == {Long, Short, OtherLong, OtherShort}

-----------------------------------------------------------------------------
(* Instructions. *)

Plain(do) ==
  [do |-> do, leg |-> Long, legs |-> {}, off |-> "Open", n |-> 1, late |-> "leave", goes |-> {}, warn |-> FALSE,
   else |-> <<>>, after |-> <<>>]

On(do, leg) == [Plain(do) EXCEPT !.leg = leg]
Of(do, legs) == [Plain(do) EXCEPT !.legs = legs]
\* A failure is written down and the script goes on.
Warned(i) == [i EXCEPT !.warn = TRUE]
Else(i, seq) == [i EXCEPT !.else = seq]
Then(i, seq) == [i EXCEPT !.after = seq]
Defer(seq) == Else(Plain("defer"), seq)

\* Calls that may fail and change nothing here: a connection, a quote, a file, a verdict.
Try == Plain("try")
Dump == Try
Judge == Try

-----------------------------------------------------------------------------
(* Carrying out. *)

Now == Head(todo)
Doing(d) == out.stage # "ended" /\ todo # <<>> /\ Now.do = d
Fresh == at.ph = "next"
In(ph) == at.ph = ph

Rest == [at EXCEPT !.ph = "next", !.n = 0, !.empty = 0]
Unmoved == UNCHANGED <<counter, view>>

Goes(ph) == at' = [at EXCEPT !.ph = ph] /\ UNCHANGED <<todo, later, out>>
Becomes(seq) == todo' = seq \o Tail(todo) /\ at' = Rest /\ UNCHANGED <<later, out>>
Done == Becomes(<<>>)

\* The script goes on, and the operator is told of the orders.
Tells(ids) ==
  /\ todo' = Tail(todo) /\ at' = Rest /\ UNCHANGED later
  /\ out' = [out EXCEPT !.told = @ \cup ids]

\* The instruction fails, and the operator is told of the orders.
Fails(ids) ==
  LET ends == out.stage = "main" /\ ~Now.warn
  IN  /\ todo' = CASE ends -> Now.else
                   [] out.stage = "deferred" /\ ~Now.warn -> <<>>
                   [] OTHER -> Tail(todo)
      /\ out' = [out EXCEPT !.told = @ \cup ids, !.failed = TRUE, !.stage = IF ends THEN "else" ELSE @]
      /\ at' = Rest /\ UNCHANGED later

\* An order is sent, in the light of the position p.
Place(leg, off, n, ph, p) ==
  /\ counter' = [counter EXCEPT !.orders = Append(@, NewOrder(leg, off, n))]
  /\ view' = [view EXCEPT !.status = "none"]
  /\ at' = [at EXCEPT !.ph = ph, !.id = Len(counter.orders) + 1, !.p = p]
  /\ UNCHANGED <<todo, later, out>>

Cancels(ids) == counter' = Cancelling(counter, ids) /\ UNCHANGED view

\* The request may not be sent, and nobody asks whether it was.
CancelsOrLoses(ids) == Cancels(ids) \/ Unmoved

Status == view.status
Finished == Over(Status)
Filled == Status = "filled"

TryIt ==
  /\ Doing("try") /\ Fresh /\ Unmoved
  /\ Done \/ Fails({})

\* What was deferred is done, one after another, when the rest is over.
Wind ==
  /\ out.stage # "ended" /\ todo = <<>> /\ Unmoved /\ at' = Rest
  /\ IF later = <<>>
     THEN out' = [out EXCEPT !.stage = "ended"] /\ UNCHANGED <<todo, later>>
     ELSE out' = [out EXCEPT !.stage = "deferred"] /\ todo' = Head(later) /\ later' = Tail(later)

Defers ==
  /\ Doing("defer") /\ Unmoved
  /\ later' = <<Now.else>> \o later
  /\ todo' = Tail(todo) /\ at' = Rest /\ UNCHANGED out

-----------------------------------------------------------------------------
(* The counter, and what is told of it. *)

CounterActs == \E i \in DOMAIN counter.orders :
  /\ counter' \in Outcomes(counter, i)
  /\ UNCHANGED <<name, view, todo, later, at, out>>

\* Lots and orders arrive independently.
LotsArrive ==
  /\ view' = [view EXCEPT !.pos = counter.pos] /\ view' # view
  /\ UNCHANGED <<name, counter, todo, later, at, out>>

OrderArrives ==
  /\ at.id > 0
  /\ view' = [view EXCEPT !.status = Reported(counter, at.id)] /\ view' # view
  /\ UNCHANGED <<name, counter, todo, later, at, out>>

=============================================================================

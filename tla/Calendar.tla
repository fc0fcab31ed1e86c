------------------------------ MODULE Calendar ------------------------------
(***************************************************************************)
(* To which trading day a time belongs (refdata/calendar.go).  Nothing is  *)
(* inferred: days, sessions and nights without trading are declared, and   *)
(* a question the declarations do not answer is Unknown, which is not the  *)
(* same as Outside.                                                        *)
(*                                                                         *)
(* A time is a natural day and a clock, an instant DayLength * day + clock.*)
(* A calendar is                                                           *)
(*   days    the trading days, a set of natural days                       *)
(*   tables  product -> [exchange, Day, Night], sets of [start, end]       *)
(*   nights  set of [exchange, first, last, suspended]: the nights without *)
(*           trading are declared completely for those days                *)
(*   global  the same for every exchange and day, or Undeclared            *)
(***************************************************************************)
EXTENDS Integers, FiniteSetsExt

CONSTANTS DayLength, Undeclared

NaturalDay(t) == t \div DayLength
ClockOf(t)    == t % DayLength

CrossesMidnight(s) == s.end < s.start

\* Closed on the left, open on the right; past midnight in two pieces.
Contains(s, clock) ==
  IF CrossesMidnight(s) THEN clock >= s.start \/ clock < s.end
                        ELSE clock >= s.start /\ clock < s.end

\* Only sessions of one kind are compared.
TableValid(table) ==
  /\ table.Day \cup table.Night # {}
  /\ \A kind \in {"Day", "Night"} : \A a, b \in table[kind] :
       /\ {a.start, a.end} \subseteq 0 .. DayLength - 1 /\ a.start # a.end
       /\ a # b => ~Contains(a, b.start) /\ ~Contains(b, a.start)

NightsValid(c) ==
  \A e \in c.nights :
    /\ e.exchange \in {c.tables[p].exchange : p \in DOMAIN c.tables}
    /\ e.first <= e.last /\ e.first >= Min(c.days) /\ e.last <= Max(c.days)
    /\ e.suspended \subseteq e.first .. e.last
    /\ \A f \in c.nights : f # e /\ f.exchange = e.exchange => f.last < e.first \/ e.last < f.first

CalendarValid(c) ==
  /\ c.days # {} /\ DOMAIN c.tables # {}
  /\ \A p \in DOMAIN c.tables : TableValid(c.tables[p])
  /\ c.global # Undeclared => c.global \subseteq Min(c.days) .. Max(c.days)
  /\ NightsValid(c)

-----------------------------------------------------------------------------
Declared(c, exchange, day) ==
  {e \in c.nights : e.exchange = exchange /\ day \in e.first .. e.last}

NightKnown(c, exchange, day) == Declared(c, exchange, day) # {} \/ c.global # Undeclared

NightSuspended(c, exchange, day) ==
  IF Declared(c, exchange, day) # {} THEN \E e \in Declared(c, exchange, day) : day \in e.suspended
                                     ELSE day \in c.global

Later(c, day) == {d \in c.days : d > day}

\* The trading day after a day, 0 when there is none.
NextDay(c, day) == IF Later(c, day) # {} THEN Min(Later(c, day)) ELSE 0

Unknown == [kind |-> "Unknown"]
Outside == [kind |-> "Outside"]
Span(session, day, night, anchor) ==
  [kind |-> "In", session |-> session, day |-> day, night |-> night, anchor |-> anchor]

DaySession(c, session, natural) ==
  IF CrossesMidnight(session) \/ natural \notin c.days THEN Unknown
  ELSE Span(session, natural, FALSE, natural)

\* Faulty variant: after midnight the night is taken for the next one.
AnchorTonight(session, natural, clock) == natural

\* After midnight a night still belongs to the natural day it began on.
Anchor(session, natural, clock) ==
  IF CrossesMidnight(session) /\ clock < session.end THEN natural - 1 ELSE natural

NightSession(c, exchange, session, natural, clock) ==
  LET anchor == Anchor(session, natural, clock) IN
  IF /\ NightKnown(c, exchange, anchor) /\ ~NightSuspended(c, exchange, anchor)
     /\ anchor \in c.days /\ Later(c, anchor) # {}
  THEN Span(session, Min(Later(c, anchor)), TRUE, anchor)
  ELSE Unknown

\* Sessions of the day are looked at before those of the night.
SessionAt(c, product, t) ==
  IF product \notin DOMAIN c.tables THEN Unknown ELSE
  LET clock == ClockOf(t)
      days   == {s \in c.tables[product].Day : Contains(s, clock)}
      nights == {s \in c.tables[product].Night : Contains(s, clock)}
  IN  CASE days # {}   -> DaySession(c, CHOOSE s \in days : TRUE, NaturalDay(t))
        [] days = {} /\ nights # {} ->
             NightSession(c, c.tables[product].exchange, CHOOSE s \in nights : TRUE, NaturalDay(t), clock)
        [] OTHER       -> Outside

-----------------------------------------------------------------------------
(* The first time of a trading day (refdata/calendar_first_open.go), or Unknown. *)

Before(c, day) == {d \in c.days : d < day}

\* Whether a day begins with the night before it; Unknown is neither.
BeginsAtNight(c, table, day) ==
  table.Night # {} /\ ~NightSuspended(c, table.exchange, Max(Before(c, day)))

FirstOpenKnown(c, product, day) ==
  /\ day \in c.days /\ product \in DOMAIN c.tables
  /\ LET table == c.tables[product] IN
     /\ \A s \in table.Day : ~CrossesMidnight(s)
     /\ table.Night # {} => Before(c, day) # {} /\ NightKnown(c, table.exchange, Max(Before(c, day)))

FirstOpen(c, product, day) ==
  IF ~FirstOpenKnown(c, product, day) THEN Unknown ELSE
  LET table    == c.tables[product]
      night    == BeginsAtNight(c, table, day)
      anchor   == IF night THEN Max(Before(c, day)) ELSE day
      sessions == IF night THEN table.Night ELSE table.Day
  IN  IF sessions = {} THEN Unknown ELSE
      LET opening == DayLength * anchor + Min({s.start : s \in sessions})
          span    == SessionAt(c, product, opening)
      IN  IF span.kind = "In" /\ span.day = day /\ span.night = night /\ span.anchor = anchor
          THEN [kind |-> "Open", at |-> opening] ELSE Unknown
=============================================================================

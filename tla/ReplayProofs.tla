---------------------------- MODULE ReplayProofs ----------------------------
(***************************************************************************)
(* Proofs about Trading and Replay, for every account, calendar, script    *)
(* and choice of the counter.                                              *)
(*                                                                         *)
(* Of Trading: where a bar and a trading day lie, what is carried into a   *)
(* day, what a withheld fact can do.  The first two follow from the        *)
(* calendar alone; the next two need that the instruments of the rules are *)
(* those of the base.                                                      *)
(*                                                                         *)
(* Of Replay: the command ends with 0 only for a published report of a run *)
(* that passed, the file is what publish promises, two reports part where  *)
(* their scripts do, and the deposit a risk report asks for is the least.  *)
(*                                                                         *)
(* Of both, in the second half: the simulator they work with is sound      *)
(* under the rules of every day, and what follows from that about orders,  *)
(* closes, risk reports and the reading of a report.                       *)
(***************************************************************************)
EXTENDS Replay, FiniteSetTheorems, WellFoundedInduction, TLAPS

-----------------------------------------------------------------------------
(* Sessions as stretches of time (refdata/calendar.go). *)

\* No day session of a product overlaps a night session of it.
KindsApart ==
  \A p \in DOMAIN TradingCalendar.tables :
    \A a \in TradingCalendar.tables[p].Day, b \in TradingCalendar.tables[p].Night :
      ~C!Contains(a, b.start) /\ ~C!Contains(b, a.start)

IsSession(s) == s.start \in 0 .. DayLength - 1 /\ s.end \in 0 .. DayLength - 1 /\ s.start # s.end

\* A time is its natural day and its clock (refdata/calendar.go naturalDayOf, clockOf).
LEMMA Clock ==
  ASSUME NEW t \in Nat
  PROVE  /\ C!NaturalDay(t) \in Nat /\ C!ClockOf(t) \in 0 .. DayLength - 1
         /\ t = DayLength * C!NaturalDay(t) + C!ClockOf(t)
BY DaysAssumption DEF C!NaturalDay, C!ClockOf

\* A day is as long as any other.
LEMMA DaysApart ==
  ASSUME NEW m \in Int, NEW n \in Int
  PROVE  /\ m < n => DayLength * m + DayLength <= DayLength * n
         /\ DayLength * (m + 1) = DayLength * m + DayLength
         /\ DayLength * m \in Int
BY DaysAssumption

\* The instant a session begins that is anchored at a day, and the one it ends at.
From(s, a)  == DayLength * a + s.start
Until(s, a) == DayLength * (IF C!CrossesMidnight(s) THEN a + 1 ELSE a) + s.end

\* A session of one anchor is one stretch of time.
LEMMA Stretch ==
  ASSUME NEW s, IsSession(s), NEW t \in Nat, NEW a \in Int
  PROVE  C!Contains(s, C!ClockOf(t)) /\ C!Anchor(s, C!NaturalDay(t), C!ClockOf(t)) = a
           <=> From(s, a) <= t /\ t < Until(s, a)
<1> DEFINE n == C!NaturalDay(t)
           c == C!ClockOf(t)
           L0 == DayLength
           A0 == DayLength * a
           N0 == DayLength * n
<1>1. n \in Nat /\ c \in 0 .. L0 - 1 /\ t = N0 + c /\ L0 \in Nat \ {0}
  BY Clock, DaysAssumption
<1>2. /\ n < a => N0 + L0 <= A0
      /\ a < n => A0 + L0 <= N0
      /\ a + 1 < n => A0 + L0 + L0 <= N0
      /\ A0 \in Int /\ N0 \in Int
      /\ DayLength * (a + 1) = A0 + L0
      /\ n = a + 1 => N0 = A0 + L0
  <2>1. (n < a => N0 + L0 <= A0) /\ (a < n => A0 + L0 <= N0) /\ A0 \in Int /\ N0 \in Int
    BY <1>1, DaysApart
  <2>2. DayLength * (a + 1) = A0 + L0
    BY DaysApart
  <2>3. a + 1 < n => DayLength * (a + 1) + DayLength <= N0
    BY <1>1, DaysApart
  <2>. QED
    BY <2>1, <2>2, <2>3
<1>3. s.start \in Int /\ s.end \in Int /\ s.start >= 0 /\ s.end >= 0 /\ s.start < L0 /\ s.end < L0
  BY <1>1 DEF IsSession
<1>4. n < a \/ n = a \/ n = a + 1 \/ a + 1 < n
  BY <1>1
<1> HIDE DEF n, c, L0, A0, N0
<1>5. CASE C!CrossesMidnight(s)
  BY <1>1, <1>2, <1>3, <1>4, <1>5 DEF From, Until, C!CrossesMidnight, C!Contains, C!Anchor, n, c, A0, N0, L0
<1>6. CASE ~C!CrossesMidnight(s)
  BY <1>1, <1>2, <1>3, <1>4, <1>6 DEF From, Until, C!CrossesMidnight, C!Contains, C!Anchor, n, c, A0, N0, L0
<1>. QED
  BY <1>5, <1>6

\* Two sessions that hold one clock overlap (refdata/calendar.go sessionsOverlap).
LEMMA OnlyOne ==
  ASSUME NEW a, NEW b, IsSession(a), IsSession(b), NEW clock \in 0 .. DayLength - 1,
         C!Contains(a, clock), C!Contains(b, clock)
  PROVE  C!Contains(a, b.start) \/ C!Contains(b, a.start)
BY DaysAssumption DEF C!Contains, C!CrossesMidnight, IsSession

\* The table of a product.
LEMMA TableIs ==
  ASSUME NEW p \in DOMAIN TradingCalendar.tables
  PROVE  LET table == TradingCalendar.tables[p] IN
         /\ \A s \in table.Day \cup table.Night : IsSession(s)
         /\ \A kind \in {"Day", "Night"} : \A a, b \in table[kind] :
              a # b => ~C!Contains(a, b.start) /\ ~C!Contains(b, a.start)
BY CalendarHolds DEF C!CalendarValid, C!TableValid, IsSession

\* What an instant in a session is told of it.
ByDay(p, t, s) ==
  /\ p \in DOMAIN TradingCalendar.tables
  /\ s \in TradingCalendar.tables[p].Day /\ C!Contains(s, C!ClockOf(t))
ByNight(p, t, s) ==
  /\ p \in DOMAIN TradingCalendar.tables
  /\ ~ \E d \in TradingCalendar.tables[p].Day : C!Contains(d, C!ClockOf(t))
  /\ s \in TradingCalendar.tables[p].Night /\ C!Contains(s, C!ClockOf(t))

Told(p, t, s, x) ==
  \/ ByDay(p, t, s) /\ x = C!DaySession(TradingCalendar, s, C!NaturalDay(t))
  \/ /\ ByNight(p, t, s)
     /\ x = C!NightSession(TradingCalendar, TradingCalendar.tables[p].exchange, s,
                           C!NaturalDay(t), C!ClockOf(t))

\* An instant in a session is told of one that holds it (refdata/calendar.go SessionAt).
LEMMA SomeSession ==
  ASSUME NEW p, NEW t, C!SessionAt(TradingCalendar, p, t).kind = "In"
  PROVE  \E s : Told(p, t, s, C!SessionAt(TradingCalendar, p, t))
<1> DEFINE x == C!SessionAt(TradingCalendar, p, t)
           clock == C!ClockOf(t)
           days   == {s \in TradingCalendar.tables[p].Day : C!Contains(s, clock)}
           nights == {s \in TradingCalendar.tables[p].Night : C!Contains(s, clock)}
<1>1. p \in DOMAIN TradingCalendar.tables
  BY DEF C!SessionAt, C!Unknown
<1>2. CASE days # {}
  <2>1. x = C!DaySession(TradingCalendar, CHOOSE s \in days : TRUE, C!NaturalDay(t))
    BY <1>1, <1>2 DEF C!SessionAt
  <2>2. (CHOOSE s \in days : TRUE) \in days
    BY <1>2
  <2>. QED
    BY <1>1, <2>1, <2>2 DEF Told, ByDay
<1>3. CASE days = {} /\ nights # {}
  <2>1. x = C!NightSession(TradingCalendar, TradingCalendar.tables[p].exchange,
                           CHOOSE s \in nights : TRUE, C!NaturalDay(t), clock)
    BY <1>1, <1>3 DEF C!SessionAt
  <2>2. (CHOOSE s \in nights : TRUE) \in nights
    BY <1>3
  <2>. QED
    BY <1>1, <1>3, <2>1, <2>2 DEF Told, ByNight
<1>4. CASE days = {} /\ nights = {}
  BY <1>1, <1>4 DEF C!SessionAt, C!Outside
<1>. QED
  BY <1>2, <1>3, <1>4

\* Where day and night sessions are apart the session of an instant is the only one it can be.
LEMMA ThisSession ==
  ASSUME KindsApart, NEW p, NEW t \in Nat, NEW s, ByDay(p, t, s) \/ ByNight(p, t, s)
  PROVE  Told(p, t, s, C!SessionAt(TradingCalendar, p, t))
<1> DEFINE x == C!SessionAt(TradingCalendar, p, t)
           clock == C!ClockOf(t)
           days   == {d \in TradingCalendar.tables[p].Day : C!Contains(d, clock)}
           nights == {d \in TradingCalendar.tables[p].Night : C!Contains(d, clock)}
<1>0. p \in DOMAIN TradingCalendar.tables /\ clock \in 0 .. DayLength - 1
  BY Clock DEF ByDay, ByNight
<1>1. CASE ByDay(p, t, s)
  <2>1. days = {s}
    BY <1>0, <1>1, TableIs, OnlyOne DEF ByDay
  <2>2. x = C!DaySession(TradingCalendar, CHOOSE d \in days : TRUE, C!NaturalDay(t))
    BY <1>0, <2>1 DEF C!SessionAt
  <2>3. (CHOOSE d \in {s} : TRUE) = s
    OBVIOUS
  <2>. QED
    BY <1>1, <2>1, <2>2, <2>3 DEF Told
<1>2. CASE ByNight(p, t, s)
  <2>1. nights = {s} /\ days = {}
    BY <1>0, <1>2, TableIs, OnlyOne DEF ByNight
  <2>2. x = C!NightSession(TradingCalendar, TradingCalendar.tables[p].exchange,
                           CHOOSE d \in nights : TRUE, C!NaturalDay(t), clock)
    BY <1>0, <2>1 DEF C!SessionAt
  <2>3. (CHOOSE d \in {s} : TRUE) = s
    OBVIOUS
  <2>. QED
    BY <1>2, <2>1, <2>2, <2>3 DEF Told
<1>. QED
  BY <1>1, <1>2

\* What is said of the instant: a session of its own day, or a night anchored at its anchor.
Said(p, t, s, x) ==
  /\ p \in DOMAIN TradingCalendar.tables /\ IsSession(s)
  /\ x.session = s
  /\ x.anchor = C!Anchor(s, C!NaturalDay(t), C!ClockOf(t))
  /\ C!Contains(s, C!ClockOf(t))
  /\ x.anchor \in TradingCalendar.days
  /\ ByDay(p, t, s) => x.day = x.anchor
  /\ ~ByDay(p, t, s) =>
       /\ ByNight(p, t, s)
       /\ C!Later(TradingCalendar, x.anchor) # {}
       /\ x.day = C!Min(C!Later(TradingCalendar, x.anchor))
       /\ ~C!NightSuspended(TradingCalendar, TradingCalendar.tables[p].exchange, x.anchor)

\* What SessionAt says of an instant in a session (refdata/calendar.go SessionAt).
LEMMA ToldIs ==
  ASSUME NEW p, NEW t, NEW s, NEW x, Told(p, t, s, x), x.kind = "In"
  PROVE  Said(p, t, s, x)
<1>1. CASE ByDay(p, t, s)
  <2>1. x = C!DaySession(TradingCalendar, s, C!NaturalDay(t))
    BY <1>1 DEF Told, ByDay, ByNight
  <2>. QED
    BY <1>1, <2>1, TableIs DEF Said, ByDay, C!DaySession, C!Unknown, C!Span, C!Anchor
<1>2. CASE ~ByDay(p, t, s) /\ ByNight(p, t, s)
  <2>1. x = C!NightSession(TradingCalendar, TradingCalendar.tables[p].exchange, s,
                           C!NaturalDay(t), C!ClockOf(t))
    BY <1>2 DEF Told
  <2>2. ByNight(p, t, s) /\ IsSession(s) /\ p \in DOMAIN TradingCalendar.tables /\ C!Contains(s, C!ClockOf(t))
    BY <1>2, TableIs DEF ByNight
  <2>. QED
    BY <1>2, <2>1, <2>2 DEF Said, C!NightSession, C!Unknown, C!Span
<1>. QED
  BY <1>1, <1>2 DEF Told

\* Between two instants of one session and one anchor all are of it (refdata/calendar.go SessionAt).
LEMMA AllOfOneSession ==
  ASSUME KindsApart, NEW p, NEW t1 \in Nat, NEW t2 \in Nat, NEW t \in t1 .. t2, NEW d,
         LET x1 == C!SessionAt(TradingCalendar, p, t1)
             x2 == C!SessionAt(TradingCalendar, p, t2)
         IN  /\ x1.kind = "In" /\ x2.kind = "In" /\ x1.session = x2.session
             /\ x1.anchor = x2.anchor /\ x1.day = d
  PROVE  C!SessionAt(TradingCalendar, p, t).kind = "In" /\ C!SessionAt(TradingCalendar, p, t).day = d
<1> DEFINE x1 == C!SessionAt(TradingCalendar, p, t1)
           x2 == C!SessionAt(TradingCalendar, p, t2)
           x  == C!SessionAt(TradingCalendar, p, t)
           s  == x1.session
           a  == x1.anchor
<1>0. t \in Nat /\ t1 <= t /\ t <= t2
  OBVIOUS
<1>9. x1.kind = "In" /\ x2.kind = "In" /\ x2.session = s /\ x2.anchor = a
  OBVIOUS
<1>1. Told(p, t1, s, x1) /\ Told(p, t2, s, x2) /\ Said(p, t1, s, x1) /\ Said(p, t2, s, x2)
  <2>1. PICK s1 : Told(p, t1, s1, x1)
    BY <1>9, SomeSession
  <2>2. PICK s2 : Told(p, t2, s2, x2)
    BY <1>9, SomeSession
  <2> HIDE DEF x1, x2
  <2>3. Said(p, t1, s1, x1) /\ Said(p, t2, s2, x2)
    BY <1>9, <2>1, <2>2, ToldIs
  <2>4. s1 = s /\ s2 = s
    BY <1>9, <2>3 DEF Said
  <2>. QED
    BY <2>1, <2>2, <2>3, <2>4
<1>2. /\ IsSession(s) /\ p \in DOMAIN TradingCalendar.tables
      /\ C!Contains(s, C!ClockOf(t1)) /\ C!Anchor(s, C!NaturalDay(t1), C!ClockOf(t1)) = a
      /\ C!Contains(s, C!ClockOf(t2)) /\ C!Anchor(s, C!NaturalDay(t2), C!ClockOf(t2)) = a
      /\ a \in Nat
  BY <1>9, <1>1, DaysAssumption DEF Said
<1> HIDE DEF x1, x2, x, s, a
<1>3. From(s, a) <= t1 /\ t2 < Until(s, a)
  BY <1>2, Stretch
<1>4. From(s, a) <= t /\ t < Until(s, a)
  <2>1. From(s, a) \in Int /\ Until(s, a) \in Int
    BY <1>2, DaysApart, DaysAssumption DEF From, Until, IsSession
  <2>. QED
    BY <1>0, <1>3, <2>1
<1>5. C!Contains(s, C!ClockOf(t)) /\ C!Anchor(s, C!NaturalDay(t), C!ClockOf(t)) = a
  BY <1>0, <1>2, <1>4, Stretch
<1>6. CASE s \in TradingCalendar.tables[p].Day
  <2>1. ByDay(p, t, s) /\ ByDay(p, t1, s)
    BY <1>2, <1>5, <1>6 DEF ByDay
  <2>2. Told(p, t, s, x)
    BY <1>0, <2>1, ThisSession DEF x
  <2>3. /\ x = C!DaySession(TradingCalendar, s, C!NaturalDay(t))
        /\ x1 = C!DaySession(TradingCalendar, s, C!NaturalDay(t1))
    BY <1>1, <2>1, <2>2 DEF Told, ByDay, ByNight
  <2>4. x1.kind = "In" /\ x1.day = d
    BY DEF x1
  <2>5. ~C!CrossesMidnight(s)
    BY <2>3, <2>4 DEF C!DaySession, C!Unknown
  <2>6. C!NaturalDay(t) = C!NaturalDay(t1)
    BY <1>2, <1>5, <2>5 DEF C!Anchor
  <2>. QED
    BY <2>3, <2>4, <2>6 DEF x
<1>7. CASE s \notin TradingCalendar.tables[p].Day
  <2>1. ByNight(p, t1, s)
    BY <1>1, <1>7 DEF Told, ByDay
  <2>2. ByNight(p, t, s)
    <3>1. ASSUME NEW b \in TradingCalendar.tables[p].Day, C!Contains(b, C!ClockOf(t)) PROVE FALSE
      <4>1. C!ClockOf(t) \in 0 .. DayLength - 1
        BY <1>0, Clock
      <4>2. IsSession(b) /\ s \in TradingCalendar.tables[p].Night
        BY <1>2, <2>1, TableIs DEF ByNight
      <4>3. C!Contains(b, s.start) \/ C!Contains(s, b.start)
        BY <1>2, <1>5, <3>1, <4>1, <4>2, OnlyOne
      <4>. QED
        BY <1>2, <4>2, <4>3 DEF KindsApart
    <3>. QED
      BY <1>2, <1>5, <2>1, <3>1 DEF ByNight
  <2>3. Told(p, t, s, x)
    BY <1>0, <2>2, ThisSession DEF x
  <2>4. /\ x = C!NightSession(TradingCalendar, TradingCalendar.tables[p].exchange, s,
                           C!NaturalDay(t), C!ClockOf(t))
        /\ x1 = C!NightSession(TradingCalendar, TradingCalendar.tables[p].exchange, s,
                           C!NaturalDay(t1), C!ClockOf(t1))
    BY <1>1, <1>7, <2>3 DEF Told, ByDay
  <2>5. x = x1
    BY <1>2, <1>5, <2>4 DEF C!NightSession
  <2>. QED
    BY <2>5 DEF x, x1
<1>. QED
  BY <1>6, <1>7

\* The two ends of a bar stand for all of it (advance.go barInOneSession).
LEMMA BarsApart == KindsApart => BarsInSession
<1> SUFFICES ASSUME KindsApart, NEW bar \in Bars, BarAccepted(sim, bar), NEW t \in bar.start .. bar.end - 1
             PROVE  SpanAt(bar.inst, t).kind = "In" /\ SpanAt(bar.inst, t).day = day
  BY DEF BarsInSession
<1>1. bar.start \in Nat /\ bar.end \in Nat /\ bar.end - 1 \in Nat
  BY DaysAssumption DEF BarAccepted
<1>. QED
  BY <1>1, AllOfOneSession DEF BarAccepted, InOneSession, SpanAt

(***************************************************************************)
(* BarsInSession, for every calendar whose day and night sessions do not   *)
(* overlap, which SessionTable.Validate does not ask for: every instant of *)
(* an accepted bar is in a session of the day, whether the session crosses *)
(* midnight or not (advance.go barInOneSession).                           *)
(***************************************************************************)
THEOREM BarsStayInSession ==
  ASSUME KindsApart
  PROVE  Spec => []BarsInSession
<1>1. BarsInSession
  BY BarsApart
<1>. QED
  BY <1>1, PTL

-----------------------------------------------------------------------------
(* The first opening (refdata/calendar_first_open.go). *)

\* A set of days that is not empty has a first one.
LEMMA FirstOf ==
  ASSUME NEW D \in SUBSET Nat, D # {}
  PROVE  C!Min(D) \in D /\ \A d \in D : C!Min(D) <= d
<1>1. \E m \in D : \A d \in D : m <= d
  <2> DEFINE less == OpToRel(<, Nat)
  <2>1. IsWellFoundedOn(less, Nat)
    BY NatLessThanWellFounded
  <2>2. PICK m \in D : \A d \in D : ~(<<d, m>> \in less)
    BY <2>1, WFMin
  <2>3. \A d \in D : d \in Nat /\ ~(d < m)
    BY <2>2 DEF OpToRel
  <2>4. m \in Nat
    OBVIOUS
  <2>. QED
    BY <2>3, <2>4
<1>. QED
  BY <1>1 DEF C!Min

\* A bounded set of days that is not empty has a last one.
LEMMA LastOf ==
  ASSUME NEW D \in SUBSET Nat, D # {}, NEW top \in Nat, \A d \in D : d <= top
  PROVE  C!Max(D) \in D /\ \A d \in D : d <= C!Max(D)
<1> DEFINE E == {top - d : d \in D}
<1>1. E \in SUBSET Nat /\ E # {}
  <2>1. \A d \in D : top - d \in Nat
    OBVIOUS
  <2>. QED
    BY <2>1
<1>2. PICK e \in E : \A f \in E : e <= f
  <2>1. C!Min(E) \in E /\ \A d \in E : C!Min(E) <= d
    BY <1>1, FirstOf
  <2>. QED
    BY <2>1
<1>3. PICK m \in D : e = top - m
  BY <1>2
<1>4. \A d \in D : m >= d
  BY <1>2, <1>3
<1>. QED
  BY <1>4 DEF C!Max

\* A night that leads to a day is the night after the day before it.
LEMMA NightBefore ==
  ASSUME NEW a \in TradingCalendar.days, C!Later(TradingCalendar, a) # {}, NEW d,
         d = C!Min(C!Later(TradingCalendar, a))
  PROVE  /\ d \in TradingCalendar.days /\ a < d
         /\ C!Before(TradingCalendar, d) # {} /\ a = C!Max(C!Before(TradingCalendar, d))
<1> DEFINE D == TradingCalendar.days
           later == C!Later(TradingCalendar, a)
           before == C!Before(TradingCalendar, d)
<1>1. D \in SUBSET Nat
  BY DaysAssumption
<1>2. later = {x \in D : x > a}
  BY DEF C!Later
<1>3. d \in later /\ \A x \in later : d <= x
  BY <1>1, <1>2, FirstOf
<1>4. before = {x \in D : x < d}
  BY DEF C!Before
<1>5. a \in before /\ before \in SUBSET Nat /\ d \in Nat /\ \A x \in before : x <= d
  BY <1>1, <1>2, <1>3, <1>4
<1>6. C!Max(before) \in before /\ \A x \in before : x <= C!Max(before)
  BY <1>5, LastOf
<1> HIDE DEF before, later
<1>7. C!Max(before) = a
  <2>1. C!Max(before) \in D /\ C!Max(before) < d /\ a <= C!Max(before)
    BY <1>4, <1>5, <1>6
  <2>2. ~(C!Max(before) > a)
    BY <1>1, <1>2, <1>3, <2>1
  <2>. QED
    BY <1>1, <2>1, <2>2
<1>. QED
  BY <1>1, <1>2, <1>3, <1>5, <1>7 DEF before, later

\* What the first opening is, where it is known.
LEMMA OpeningIs ==
  ASSUME NEW p, NEW d, C!FirstOpen(TradingCalendar, p, d).kind = "Open"
  PROVE  LET table    == TradingCalendar.tables[p]
             night    == C!BeginsAtNight(TradingCalendar, table, d)
             anchor   == IF night THEN C!Max(C!Before(TradingCalendar, d)) ELSE d
             sessions == IF night THEN table.Night ELSE table.Day
         IN  /\ d \in TradingCalendar.days /\ p \in DOMAIN TradingCalendar.tables
             /\ sessions # {}
             /\ night => C!Before(TradingCalendar, d) # {}
             /\ C!FirstOpen(TradingCalendar, p, d).at
                  = DayLength * anchor + C!Min({s.start : s \in sessions})
<1>1. C!FirstOpenKnown(TradingCalendar, p, d)
  BY DEF C!FirstOpen, C!Unknown
<1>. QED
  BY <1>1 DEF C!FirstOpen, C!FirstOpenKnown, C!Unknown, C!BeginsAtNight

\* No instant of the day comes before its first opening (refdata/calendar_first_open.go FirstOpen).
LEMMA NothingBefore ==
  ASSUME NEW p, NEW d, NEW t \in Nat,
         C!FirstOpen(TradingCalendar, p, d).kind = "Open",
         C!SessionAt(TradingCalendar, p, t).kind = "In", C!SessionAt(TradingCalendar, p, t).day = d
  PROVE  t >= C!FirstOpen(TradingCalendar, p, d).at
<1> DEFINE x == C!SessionAt(TradingCalendar, p, t)
           table    == TradingCalendar.tables[p]
           night    == C!BeginsAtNight(TradingCalendar, table, d)
           before   == C!Max(C!Before(TradingCalendar, d))
           anchor   == IF night THEN before ELSE d
           sessions == IF night THEN table.Night ELSE table.Day
           starts   == {s.start : s \in sessions}
           at == C!FirstOpen(TradingCalendar, p, d).at
<1>1. /\ d \in TradingCalendar.days /\ p \in DOMAIN TradingCalendar.tables /\ sessions # {}
      /\ night => C!Before(TradingCalendar, d) # {}
      /\ at = DayLength * anchor + C!Min(starts)
  BY OpeningIs
<1>2. \A s \in table.Day \cup table.Night : IsSession(s)
  BY <1>1, TableIs
<1>3. /\ starts \in SUBSET Nat /\ starts # {}
      /\ C!Min(starts) \in starts /\ \A s \in sessions : C!Min(starts) <= s.start
  <2>1. \A s \in sessions : IsSession(s)
    BY <1>2
  <2>2. starts \in SUBSET Nat /\ starts # {}
    BY <1>1, <2>1 DEF IsSession
  <2>3. C!Min(starts) \in starts /\ \A v \in starts : C!Min(starts) <= v
    BY <2>2, FirstOf
  <2>. QED
    BY <2>2, <2>3
<1>4. C!Min(starts) \in 0 .. DayLength - 1
  <2>1. PICK s \in sessions : C!Min(starts) = s.start
    BY <1>3
  <2>. QED
    BY <1>2, <2>1 DEF IsSession
<1>5. PICK s : Told(p, t, s, x)
  BY SomeSession
<1>6. /\ IsSession(s) /\ C!Contains(s, C!ClockOf(t))
      /\ x.anchor = C!Anchor(s, C!NaturalDay(t), C!ClockOf(t)) /\ x.anchor \in TradingCalendar.days
      /\ ByDay(p, t, s) => d = x.anchor
      /\ ~ByDay(p, t, s) =>
           /\ ByNight(p, t, s)
           /\ C!Later(TradingCalendar, x.anchor) # {}
           /\ d = C!Min(C!Later(TradingCalendar, x.anchor))
           /\ ~C!NightSuspended(TradingCalendar, TradingCalendar.tables[p].exchange, x.anchor)
  <2>1. x.kind = "In" /\ x.day = d
    OBVIOUS
  <2>. HIDE DEF x
  <2>. QED
    <3>1. Said(p, t, s, x)
      BY <1>5, <2>1, ToldIs
    <3>. QED
      BY <2>1, <3>1 DEF Said
<1>7. x.anchor \in Nat /\ d \in Nat
  BY <1>1, <1>6, DaysAssumption
<1>8. From(s, x.anchor) <= t
  BY <1>6, <1>7, Stretch
<1> HIDE DEF x, at, starts
<1>9. CASE ByDay(p, t, s)
  <2>1. s \in table.Day /\ d = x.anchor
    BY <1>6, <1>9 DEF ByDay
  <2>2. CASE night
    <3>1. /\ C!Before(TradingCalendar, d) # {}
          /\ at = DayLength * before + C!Min(starts)
      BY <1>1, <2>2
    <3>2. C!Before(TradingCalendar, d) \in SUBSET Nat /\ \A b \in C!Before(TradingCalendar, d) : b < d
      BY <1>7, DaysAssumption DEF C!Before
    <3>3. before \in Nat /\ before < d
      <4>1. \A b \in C!Before(TradingCalendar, d) : b <= d
        BY <1>7, <3>2
      <4>. QED
        BY <1>7, <3>1, <3>2, <4>1, LastOf
    <3> HIDE DEF before
    <3>4. DayLength * before + DayLength <= DayLength * d /\ DayLength * before \in Int /\ DayLength * d \in Int
      BY <1>7, <3>3, DaysApart
    <3>5. s.start \in Nat /\ DayLength \in Nat
      BY <1>6, DaysAssumption DEF IsSession
    <3>6. DayLength * d + s.start <= t
      BY <1>8, <2>1 DEF From
    <3> DEFINE D0 == DayLength * d
               B0 == DayLength * before
               low == C!Min(starts)
    <3>7. /\ D0 \in Int /\ B0 \in Int /\ B0 + DayLength <= D0 /\ D0 + s.start <= t /\ at = B0 + low
          /\ low \in 0 .. DayLength - 1
      BY <1>4, <3>1, <3>4, <3>6
    <3> HIDE DEF D0, B0, low
    <3>. QED
      BY <3>5, <3>7 DEF at
  <2>3. CASE ~night
    <3>1. C!Min(starts) <= s.start /\ at = DayLength * d + C!Min(starts)
      BY <1>1, <1>3, <2>1, <2>3
    <3>2. s.start \in Int /\ C!Min(starts) \in Int /\ DayLength * d \in Int
      BY <1>4, <1>6, <1>7, DaysApart, DaysAssumption DEF IsSession
    <3>3. DayLength * d + s.start <= t
      BY <1>8, <2>1 DEF From
    <3>. QED
      BY <3>1, <3>2, <3>3 DEF at
  <2>. QED
    BY <2>2, <2>3
<1>10. CASE ~ByDay(p, t, s)
  <2>1. ByNight(p, t, s) /\ d = C!Min(C!Later(TradingCalendar, x.anchor))
    BY <1>6, <1>10
  <2>2. x.anchor = before
    BY <1>6, <1>10, <2>1, NightBefore
  <2>3. night
    <3>1. table.Night # {}
      BY <2>1 DEF ByNight
    <3>2. ~C!NightSuspended(TradingCalendar, table.exchange, before)
      BY <1>6, <1>10, <2>2
    <3>. QED
      BY <3>1, <3>2 DEF C!BeginsAtNight
  <2>4. C!Min(starts) <= s.start /\ at = DayLength * before + C!Min(starts)
    BY <1>1, <1>3, <2>1, <2>3 DEF ByNight
  <2>5. s.start \in Int /\ C!Min(starts) \in Int /\ DayLength * before \in Int
    BY <1>4, <1>6, <1>7, <2>2, DaysApart, DaysAssumption DEF IsSession
  <2>6. DayLength * before + s.start <= t
    BY <1>8, <2>2 DEF From
  <2>. QED
    BY <2>4, <2>5, <2>6 DEF at
<1>. QED
  BY <1>9, <1>10 DEF at

\* It is so for the products of the rules in force (refdata/calendar_first_open.go FirstOpen).
LEMMA DayBegins == DayBeginsAtFirstOpen
<1> SUFFICES ASSUME NEW i \in Instruments,
                    C!FirstOpen(TradingCalendar, rules.contracts[i].product, day).kind = "Open",
                    NEW t \in 0 .. DayLength * (day + 1) - 1, SpanAt(i, t).kind = "In" /\ SpanAt(i, t).day = day
             PROVE  t >= C!FirstOpen(TradingCalendar, rules.contracts[i].product, day).at
  BY DEF DayBeginsAtFirstOpen
<1>1. t \in Nat
  <2>1. day \in Nat
    BY OpeningIs, DaysAssumption
  <2>2. DayLength * (day + 1) \in Int
    BY <2>1, DaysApart
  <2>. QED
    BY <2>2
<1>. QED
  BY <1>1, NothingBefore DEF SpanAt

(***************************************************************************)
(* DayBeginsAtFirstOpen, for every calendar and every product: no instant  *)
(* of the day comes before the opening that is given for it                *)
(* (refdata/calendar_first_open.go FirstOpen).                             *)
(***************************************************************************)
THEOREM FirstOpenIsFirst == Spec => []DayBeginsAtFirstOpen
<1>. QED
  BY DayBegins, PTL

-----------------------------------------------------------------------------
(* The change of days (lifecycle.go). *)

\* The day in force is never anything but a settlement's next one.
LEMMA OnlySettling ==
  ASSUME Next, day' # day
  PROVE  \E price \in [Instruments -> Prices], next \in TradingCalendar.days, version \in DOMAIN Schedules :
           SettleWithRules(price, next, version)
<1>1. ASSUME NEW s, Becomes(s) PROVE FALSE
  BY <1>1 DEF Becomes
<1>2. ASSUME NEW id \in ID, Fill(id) PROVE FALSE
  BY <1>1, <1>2, Zenon DEF Fill
<1>3. ASSUME NEW inst, NEW pre, MarkPre(inst, pre) PROVE FALSE
  BY <1>1, <1>3 DEF MarkPre
<1>. QED
  BY <1>1, <1>2, <1>3, Zenon DEF Next, Submit, Place, Cancel, ApplyTrade, Advance

\* The rules are always of the instruments of the account's base.
SameInstruments == account \in DOMAIN Accounts /\ Instruments = DOMAIN Base.contracts

\* The first rules have the instruments of the base (lifecycle/rules.go NewDailyRules).
LEMMA InitSame == Init => SameInstruments
BY DEF Init, SameInstruments, Instruments, NextRules, L!DailyRules

\* So have the rules of every later day (lifecycle/rules.go NewDailyRules).
LEMMA NextSame == SameInstruments /\ [Next]_vars => SameInstruments'
<1> SUFFICES ASSUME SameInstruments, [Next]_vars PROVE SameInstruments'
  OBVIOUS
<1>1. CASE \E price \in [Instruments -> Prices], next \in TradingCalendar.days, version \in DOMAIN Schedules :
             SettleWithRules(price, next, version)
  BY <1>1 DEF SettleWithRules, SameInstruments, Instruments, NextRules, L!DailyRules, Base
<1>2. CASE UNCHANGED <<account, rules>>
  BY <1>2 DEF SameInstruments, Instruments, Base
<1>. QED
  BY <1>1, <1>2, Zenon DEF Next, Submit, Place, Cancel, Fill, ApplyTrade, MarkPre, Advance, Becomes, vars

\* An evening that the account does not refuse ends in the next morning (settle.go Settle).
LEMMA MorningComes ==
  ASSUME NEW s, NEW price, S(rules)!AccountSettles(s, price)
  PROVE  LET morning == S(rules)!Settled(s, price) IN
         /\ morning.positions = S(rules)!Rolled(s, price) /\ morning.book = s.book
         /\ morning.broken = FALSE /\ {"positions", "book", "broken"} \subseteq DOMAIN morning
<1>1. S(rules)!Settled(s, price) = S(rules)!NextMorning(s, price)
  BY DEF S!Settled
<1>. QED
  BY <1>1 DEF S!NextMorning, S!NewSimulator

\* A flat side is flat after the evening (position/position.go Settle).
LEMMA NothingToSettle ==
  ASSUME NEW price
  PROVE  S(rules)!SettleAll(<<>>, price) = <<>>
<1> DEFINE settled == S(rules)!SettleAll(<<>>, price)
<1>1. DOMAIN settled = 1 .. 0
  BY DEF S!SettleAll
<1>2. settled = [k \in 1 .. 0 |-> [<<>>[k] EXCEPT !.basis = price, !.settled = TRUE]]
  BY DEF S!SettleAll
<1>3. settled \in Seq({})
  <2> HIDE DEF settled
  <2>1. \A k \in 1 .. 0 : [<<>>[k] EXCEPT !.basis = price, !.settled = TRUE] \in {}
    OBVIOUS
  <2>. QED
    BY <1>2, <2>1
<1> HIDE DEF settled
<1>4. Len(settled) = 0
  BY <1>1, <1>3
<1>. QED
  BY <1>3, <1>4 DEF settled

(***************************************************************************)
(* NothingHeldTooLong: Assess is asked with what is held in the evening,   *)
(* and that is what is held in the morning, of the same instruments        *)
(* (lifecycle/rules.go Assess, settle.go).                                 *)
(***************************************************************************)
THEOREM NothingCarriedTooFar == Spec => NothingHeldTooLong
<1>1. ASSUME SameInstruments, Next, day' # day, NEW i \in S(rules')!Held(sim'.positions)
      PROVE  day' <= rules'.terms[i].lastHolding
  <2>1. PICK price \in [Instruments -> Prices], next \in TradingCalendar.days, version \in DOMAIN Schedules :
          SettleWithRules(price, next, version)
    BY <1>1, OnlySettling
  <2> DEFINE new == NextRules(next, version)
  <2>2. L!Blocking(new, HeldNow(sim)) = {} /\ S(rules)!AccountSettles(sim, price)
    BY <2>1 DEF SettleWithRules, CanSettleWith, MayChange
  <2>3. new.day = next /\ DOMAIN new.contracts = Instruments /\ new.terms = Schedules[version].contracts
    BY <1>1 DEF NextRules, L!DailyRules, SameInstruments
  <2>4. day' = next /\ rules' = new /\ sim' = SettledUnder(sim, price, new)
    BY <2>1 DEF SettleWithRules
  <2>5. i \in Instruments /\ sim'.positions[i] # S(rules')!FlatSides
    BY <2>3, <2>4 DEF S!Held
  <2>6. sim'.positions = S(rules)!Rolled(sim, price)
    BY <2>2, <2>4, MorningComes DEF SettledUnder
  <2>7. i \in HeldNow(sim)
    <3>1. ASSUME sim.positions[i] = S(rules)!FlatSides PROVE FALSE
      <4>1. \A dir \in {"Buy", "Sell"} : sim.positions[i][dir] = <<>>
        BY <3>1 DEF S!FlatSides, S!Directions
      <4>2. \A dir \in {"Buy", "Sell"} : S(rules)!SettleAll(sim.positions[i][dir], price[i]) = <<>>
        BY <4>1, NothingToSettle
      <4>3. sim'.positions[i] = [dir \in {"Buy", "Sell"} |-> S(rules)!SettleAll(sim.positions[i][dir], price[i])]
        BY <2>5, <2>6 DEF S!Rolled, S!Directions, Instruments
      <4>4. sim'.positions[i] = [dir \in {"Buy", "Sell"} |-> <<>>]
        BY <4>2, <4>3
      <4>. QED
        BY <2>5, <4>4 DEF S!FlatSides, S!Directions
    <3>. QED
      BY <2>5, <3>1 DEF HeldNow, S!Held, Instruments
  <2>8. ~(next > new.terms[i].lastHolding)
    BY <2>2, <2>3, <2>7 DEF L!Blocking, L!CloseOnly
  <2>9. next \in Nat /\ new.terms[i].lastHolding \in Nat
    <3>1. DOMAIN Schedules[version].contracts = DOMAIN Base.contracts
      BY <2>1 DEF SettleWithRules, L!CanBind
    <3>2. i \in DOMAIN Schedules[version].contracts /\ account \in DOMAIN Accounts
      BY <1>1, <2>5, <3>1 DEF SameInstruments
    <3>. QED
      BY <2>3, <3>2, DaysAssumption, TermsAssumption DEF Schedules
  <2>. QED
    BY <2>4, <2>8, <2>9
<1>2. SameInstruments /\ [Next]_vars =>
        [day' # day => \A i \in S(rules')!Held(sim'.positions) : day' <= rules'.terms[i].lastHolding]_vars
  BY <1>1
<1>. QED
  BY <1>2, InitSame, NextSame, PTL DEF Spec, NothingHeldTooLong

-----------------------------------------------------------------------------
(* Withheld facts (order/order.go). *)

Fields == {"rule", "pre", "rounding", "position", "frozen", "available", "need", "limit", "session"}

\* Two sets of facts agree but for one of them, which the second withholds.
Withheld(f, g, name) ==
  /\ name \in Names
  /\ \/ name = "rule" /\ g.rule = Missing
     \/ name # "rule" /\ g.rule = f.rule
  /\ \/ name = "pre" /\ g.pre = Missing
     \/ name # "pre" /\ g.pre = f.pre
  /\ \/ name = "rounding" /\ g.rounding = Missing
     \/ name # "rounding" /\ g.rounding = f.rounding
  /\ \/ name = "position" /\ g.position = Missing
     \/ name # "position" /\ g.position = f.position
  /\ \/ name = "available" /\ g.available = Missing
     \/ name # "available" /\ g.available = f.available
  /\ \/ name = "limit" /\ g.limit = Missing
     \/ name # "limit" /\ g.limit = f.limit
  /\ \/ name = "session" /\ g.session = Missing
     \/ name # "session" /\ g.session = f.session
  /\ g.frozen = f.frozen /\ g.need = f.need

\* A check that cannot be made does not refuse (order/order.go Validate).
LEMMA NotMade ==
  ASSUME NEW req, NEW f, NEW c \in Checks, ~Checkable(req, f)[c]
  PROVE  Passes(req, f)[c]
<1>1. ~Checkable(req, f)["Tradable"] => Passes(req, f)["Tradable"]
  BY Zenon DEF Passes, Checkable
<1>2. ~Checkable(req, f)["Closable"] => Passes(req, f)["Closable"]
  BY Zenon DEF Passes, Checkable
<1>3. ~Checkable(req, f)["Session"] => Passes(req, f)["Session"]
  BY Zenon DEF Passes, Checkable
<1>4. ~Checkable(req, f)["PriceTick"] => Passes(req, f)["PriceTick"]
  BY Zenon DEF Passes, Checkable
<1>5. ~Checkable(req, f)["PriceLimit"] => Passes(req, f)["PriceLimit"]
  BY Zenon DEF Passes, Checkable
<1>6. ~Checkable(req, f)["VolumeRange"] => Passes(req, f)["VolumeRange"]
  BY Zenon DEF Passes, Checkable
<1>7. ~Checkable(req, f)["Funds"] => Passes(req, f)["Funds"]
  BY Zenon DEF Passes, Checkable
<1>8. ~Checkable(req, f)["PositionLimit"] => Passes(req, f)["PositionLimit"]
  BY Zenon DEF Passes, Checkable
<1>. QED
  BY <1>1, <1>2, <1>3, <1>4, <1>5, <1>6, <1>7, <1>8, Zenon DEF Checks

\* A check made with less is made with more and says the same (order/order.go Validate).
LEMMA SameCheck ==
  ASSUME NEW req, NEW f, NEW g, NEW name, Withheld(f, g, name), NEW c \in Checks, Checkable(req, g)[c]
  PROVE  /\ Checkable(req, f)[c]
         /\ Passes(req, g)[c] <=> Passes(req, f)[c]
<1>1. CASE c = "Tradable"
  <2>1. name # "rule" /\ g.rule = f.rule
    BY <1>1, Zenon DEF Withheld, Checkable
  <2>2. Checkable(req, g)["Tradable"] = Checkable(req, f)["Tradable"] /\ Passes(req, g)["Tradable"] = Passes(req, f)["Tradable"]
    BY <2>1, Zenon DEF Checkable, Passes
  <2>. QED
    BY <1>1, <2>2, Zenon
<1>2. CASE c = "Closable"
  <2>1. CASE req.offset = "Open"
    <3>1. Checkable(req, f)["Closable"] /\ Passes(req, f)["Closable"] /\ Passes(req, g)["Closable"]
      BY <2>1, Zenon DEF Checkable, Passes
    <3>. QED
      BY <1>2, <3>1, Zenon
  <2>2. CASE req.offset # "Open"
    <3>1. g.position = f.position /\ g.frozen = f.frozen
      BY <1>2, <2>2, Zenon DEF Withheld, Checkable
    <3>2. Checkable(req, g)["Closable"] = Checkable(req, f)["Closable"] /\ Passes(req, g)["Closable"] = Passes(req, f)["Closable"]
      BY <3>1, Zenon DEF Checkable, Passes
    <3>. QED
      BY <1>2, <3>2, Zenon
  <2>. QED
    BY <2>1, <2>2
<1>3. CASE c = "Session"
  <2>1. g.session = f.session
    BY <1>3, Zenon DEF Withheld, Checkable
  <2>2. Checkable(req, g)["Session"] = Checkable(req, f)["Session"] /\ Passes(req, g)["Session"] = Passes(req, f)["Session"]
    BY <2>1, Zenon DEF Checkable, Passes
  <2>. QED
    BY <1>3, <2>2, Zenon
<1>4. CASE c = "PriceTick"
  <2>1. g.rule = f.rule
    BY <1>4, Zenon DEF Withheld, Checkable
  <2>2. Checkable(req, g)["PriceTick"] = Checkable(req, f)["PriceTick"] /\ Passes(req, g)["PriceTick"] = Passes(req, f)["PriceTick"]
    BY <2>1, Zenon DEF Checkable, Passes
  <2>. QED
    BY <1>4, <2>2, Zenon
<1>5. CASE c = "PriceLimit"
  <2>1. g.rule = f.rule /\ g.pre = f.pre /\ g.rounding = f.rounding
    <3>1. LimitsKnown(g.rule, g.pre, g.rounding)
      BY <1>5, Zenon DEF Checkable
    <3>. QED
      BY <3>1, Zenon DEF Withheld, LimitsKnown
  <2>2. Checkable(req, g)["PriceLimit"] = Checkable(req, f)["PriceLimit"] /\ Passes(req, g)["PriceLimit"] = Passes(req, f)["PriceLimit"]
    BY <2>1, Zenon DEF Checkable, Passes
  <2>. QED
    BY <1>5, <2>2, Zenon
<1>6. CASE c = "VolumeRange"
  <2>1. g.rule = f.rule
    BY <1>6, Zenon DEF Withheld, Checkable
  <2>2. Checkable(req, g)["VolumeRange"] = Checkable(req, f)["VolumeRange"] /\ Passes(req, g)["VolumeRange"] = Passes(req, f)["VolumeRange"]
    BY <2>1, Zenon DEF Checkable, Passes
  <2>. QED
    BY <1>6, <2>2, Zenon
<1>7. CASE c = "Funds"
  <2>1. g.available = f.available /\ g.need = f.need
    BY <1>7, Zenon DEF Withheld, Checkable
  <2>2. Checkable(req, g)["Funds"] = Checkable(req, f)["Funds"] /\ Passes(req, g)["Funds"] = Passes(req, f)["Funds"]
    BY <2>1, Zenon DEF Checkable, Passes
  <2>. QED
    BY <1>7, <2>2, Zenon
<1>8. CASE c = "PositionLimit"
  <2>1. g.limit = f.limit /\ g.position = f.position
    BY <1>8, Zenon DEF Withheld, Checkable
  <2>2. Checkable(req, g)["PositionLimit"] = Checkable(req, f)["PositionLimit"] /\ Passes(req, g)["PositionLimit"] = Passes(req, f)["PositionLimit"]
    BY <2>1, Zenon DEF Checkable, Passes
  <2>. QED
    BY <1>8, <2>2, Zenon
<1>. QED
  BY <1>1, <1>2, <1>3, <1>4, <1>5, <1>6, <1>7, <1>8, Zenon DEF Checks

\* Less known, fewer refusals (order/order.go Validate).
LEMMA FewerReject ==
  ASSUME NEW req, NEW f, NEW g, NEW name, Withheld(f, g, name)
  PROVE  /\ Rejecting(req, g) \subseteq Rejecting(req, f)
         /\ \A c \in Checks : Checkable(req, g)[c] /\ c \notin Rejecting(req, g) => c \notin Rejecting(req, f)
<1>1. \A c \in Checks : Checkable(req, g)[c] => (Passes(req, g)[c] <=> Passes(req, f)[c])
  BY SameCheck, Zenon
<1>2. \A c \in Checks : ~Checkable(req, g)[c] => Passes(req, g)[c]
  BY NotMade, Zenon
<1>. QED
  BY <1>1, <1>2, Zenon DEF Rejecting

\* The refusal reported is the first (order/order.go Validate).
LEMMA FirstIs ==
  ASSUME NEW rejecting \in SUBSET Checks, rejecting # {}
  PROVE  /\ First(rejecting) \in rejecting
         /\ \A d \in rejecting : Rank[First(rejecting)] <= Rank[d]
<1> DEFINE ranks == {Rank[c] : c \in rejecting}
<1>1. \A c \in Checks : Rank[c] \in Nat
  BY DEF Rank, Checks
<1>2. ranks \in SUBSET Nat /\ ranks # {}
  BY <1>1
<1>3. PICK m \in ranks : \A r \in ranks : m <= r
  BY <1>2, FirstOf
<1>4. \E c \in rejecting : \A d \in rejecting : Rank[c] <= Rank[d]
  BY <1>3
<1>. QED
  BY <1>4, Zenon DEF First

\* What a caller gets for a withheld fact (order/order.go Validate).
LEMMA WithholdingHides ==
  ASSUME NEW req, NEW f, NEW g, NEW name, Withheld(f, g, name)
  PROVE  /\ OK(req, g) => Rejected(req, f) = "None"
         /\ Rejected(req, g) # "None" =>
              Rejected(req, f) # "None" /\ Rank[Rejected(req, f)] <= Rank[Rejected(req, g)]
<1>1. \A c \in Checks : c # "None"
  BY DEF Checks
<1>2. CASE req.volume <= 0
  BY <1>2 DEF OK, Rejected, Rank
<1>3. CASE ~(req.volume <= 0)
  <2>1. Rejecting(req, f) \in SUBSET Checks /\ Rejecting(req, g) \in SUBSET Checks
    BY Zenon DEF Rejecting
  <2>2. /\ Rejected(req, f) = IF Rejecting(req, f) = {} THEN "None" ELSE First(Rejecting(req, f))
        /\ Rejected(req, g) = IF Rejecting(req, g) = {} THEN "None" ELSE First(Rejecting(req, g))
    BY <1>3, Zenon DEF Rejected
  <2>3. ASSUME OK(req, g) PROVE Rejecting(req, f) = {}
    <3>1. Rejecting(req, g) = {}
      BY <2>1, <2>2, <2>3, <1>1, FirstIs, Zenon DEF OK
    <3>2. \A c \in Checks : Checkable(req, g)[c]
      BY <1>3, <2>3, Zenon DEF OK, Unchecked
    <3>. QED
      BY <2>1, <3>1, <3>2, FewerReject, Zenon
  <2>4. ASSUME Rejecting(req, g) # {}
        PROVE  /\ Rejecting(req, f) # {}
               /\ Rank[First(Rejecting(req, f))] <= Rank[First(Rejecting(req, g))]
               /\ First(Rejecting(req, f)) # "None"
    <3>1. Rejecting(req, g) \subseteq Rejecting(req, f)
      BY FewerReject, Zenon
    <3>2. First(Rejecting(req, g)) \in Rejecting(req, g)
      BY <2>1, <2>4, FirstIs
    <3>. QED
      BY <1>1, <2>1, <3>1, <3>2, FirstIs
  <2>. QED
    BY <2>2, <2>3, <2>4
<1>. QED
  BY <1>2, <1>3

\* It is so for the facts of any request (submit.go validate).
LEMMA NeverHelps == WithholdingNeverHelps
<1> SUFFICES ASSUME NEW request \in Requests, NEW at \in Times, request.inst \in Instruments, NEW name \in Names
             PROVE  LET req   == Effective(sim, request)
                        facts == Facts(sim, at, req, request.price)
                        fewer == [facts EXCEPT ![name] = Missing]
                    IN  /\ OK(req, fewer) => Rejected(req, facts) = "None"
                        /\ Rejected(req, fewer) # "None" =>
                             /\ Rejected(req, facts) # "None"
                             /\ Rank[Rejected(req, facts)] <= Rank[Rejected(req, fewer)]
  BY DEF WithholdingNeverHelps
<1> DEFINE req   == Effective(sim, request)
           facts == Facts(sim, at, req, request.price)
           fewer == [facts EXCEPT ![name] = Missing]
<1>1. DOMAIN facts = Fields
  BY DEF Facts, Fields
<1> HIDE DEF facts, req
<1>2. \A x \in Fields : fewer[x] = IF x = name THEN Missing ELSE facts[x]
  BY <1>1
<1>3. Withheld(facts, fewer, name)
  <2> HIDE DEF fewer
  <2>. QED
    BY <1>2, Zenon DEF Withheld, Fields, Names
<1> HIDE DEF fewer
<1>. QED
  BY <1>3, WithholdingHides, Zenon DEF fewer, facts, req

(***************************************************************************)
(* WithholdingNeverHelps, for all facts and requests: a check that can be  *)
(* made with less is made with all of them and says the same, so the       *)
(* refusals with less are among those with all (order/order.go Validate).  *)
(***************************************************************************)
THEOREM WithholdingIsSafe == Spec => []WithholdingNeverHelps
<1>. QED
  BY NeverHelps, PTL

-----------------------------------------------------------------------------
(* Publish alone, for runs of any length.  Its inductive invariant says    *)
(* how far the content has come at each call: from the close on it is      *)
(* whole and on the disk, and our name exists only then.                   *)

Typed ==
  /\ step \in Steps
  /\ content \in {"none", "part", "whole"}
  /\ synced \in BOOLEAN /\ temp \in BOOLEAN
  /\ target \in {"absent", "ours", "other"}
  /\ err \in {"none", "failed", "cleanup"}

\* Before it is linked the name is not ours; whatever reads whole has been synced.
Ordered ==
  /\ step \in {"create", "write", "sync", "close", "link"} => target # "ours"
  /\ step = "sync" => content = "whole"
  /\ step \in {"close", "link"} => content = "whole" /\ synced
  /\ step = "create" => content = "none"

Inv == Typed /\ Ordered /\ OursIsWhole

\* The invariant holds when the call begins (replay/persist.go publish).
LEMMA InitInv == PublishInit => Inv
  BY DEF PublishInit, Inv, Typed, Ordered, OursIsWhole, Steps

\* Every call, kill and power loss keeps the invariant (replay/persist.go publish).
LEMMA NextInv == Inv /\ [PublishNext]_publishing => Inv'
<1> SUFFICES ASSUME Inv, [PublishNext]_publishing PROVE Inv'
  OBVIOUS
<1> USE DEF Inv, Typed, Ordered, OursIsWhole, Steps, Go, Fail
<1>1. CASE Create
  BY <1>1 DEF Create
<1>2. CASE Write
  BY <1>2 DEF Write
<1>3. CASE Sync
  BY <1>3 DEF Sync
<1>4. CASE Close
  BY <1>4 DEF Close
<1>5. CASE Link
  BY <1>5 DEF Link
<1>6. CASE Remove
  BY <1>6 DEF Remove
<1>7. CASE OtherCreates
  BY <1>7 DEF OtherCreates
<1>8. CASE Killed
  BY <1>8 DEF Killed, Running
<1>9. CASE PowerLoss
  BY <1>9 DEF PowerLoss, Surviving
<1>10. CASE UNCHANGED publishing
  BY <1>10 DEF publishing
<1>. QED
  BY <1>1, <1>2, <1>3, <1>4, <1>5, <1>6, <1>7, <1>8, <1>9, <1>10 DEF PublishNext, PublishCall

\* A step of publish is a step of the promise, or changes nothing a reader sees.
LEMMA StepPromised == Inv /\ [PublishNext]_publishing => [P!Change]_Read
<1> SUFFICES ASSUME Inv, [PublishNext]_publishing PROVE P!Change \/ Read' = Read
  OBVIOUS
<1> USE DEF Inv, Typed, Ordered, OursIsWhole, Steps, Go, Fail, Read
<1>1. CASE Create \/ Sync \/ Close \/ Remove \/ Killed \/ UNCHANGED publishing
  BY <1>1 DEF Create, Sync, Close, Remove, Killed, publishing
<1>2. CASE Write
  BY <1>2 DEF Write
<1>3. CASE Link
  BY <1>3 DEF Link, P!Change, P!Published
<1>4. CASE OtherCreates
  BY <1>4 DEF OtherCreates, P!Change, P!Occupied
<1>5. CASE PowerLoss
  BY <1>5 DEF PowerLoss, Surviving, P!Change, P!Lost
<1>. QED
  BY <1>1, <1>2, <1>3, <1>4, <1>5 DEF PublishNext, PublishCall

(***************************************************************************)
(* Our name leads to a file that is whole and on the disk                  *)
(* (replay/persist.go publish).                                            *)
(***************************************************************************)
THEOREM OursAlwaysWhole == PublishSpec => []OursIsWhole
<1>1. Inv => OursIsWhole
  BY DEF Inv
<1>. QED
  BY InitInv, NextInv, <1>1, PTL DEF PublishSpec

(***************************************************************************)
(* Publishing implements the promise of Publication: a reader never sees   *)
(* part of a report, nor somebody else's file replaced                     *)
(* (replay/persist.go publish and the comment of WriteFile).               *)
(***************************************************************************)
THEOREM PublishingKeepsPromise == PublishSpec => KeepsPromise
<1>1. PublishInit => P!Before
  BY DEF PublishInit, P!Before, Read
<1>. QED
  BY InitInv, NextInv, StepPromised, <1>1, PTL DEF PublishSpec, KeepsPromise, P!Promise

-----------------------------------------------------------------------------
(***************************************************************************)
(* The command around it.                                                  *)
(***************************************************************************)

replaying == <<vars, running, publishing>>

\* Nothing is published before the run has ended, and a report that was
\* published without an error is under the name, its temporary name gone.
Published ==
  /\ stage \in {"run", "publish", "exited"} /\ exit \in {Pending, 0, 1}
  /\ stage = "run" => step = "create"
  /\ step = "remove" /\ err = "none" => target = "ours"
  /\ step = "done" /\ err = "none" => target = "ours" /\ ~temp

\* A replay begins with nothing published (cmd/replay/main.go).
LEMMA InitPublished == ReplayInit => Inv /\ Published
BY InitInv DEF ReplayInit, Published, PublishInit, Pending

\* The command publishes by the calls of publish, or not at all.
LEMMA ReplayPublishes == [ReplayNext]_replaying => [PublishNext]_publishing
BY DEF ReplayNext, Refuse, Pass, Keep, FailAt, Exit, PublishReport, Environment, PublishNext,
       replaying, publishing

\* Every call of publish keeps what is published whole (replay/persist.go publish).
LEMMA CallPublished ==
  ASSUME Inv, Published, PublishCall, UNCHANGED <<stage, exit>>, stage # "run"
  PROVE  Published'
<1> USE DEF Inv, Typed, Published, Steps, Go, Fail
<1>1. CASE Create
  BY <1>1 DEF Create
<1>2. CASE Write \/ Sync \/ Close
  BY <1>2 DEF Write, Sync, Close
<1>3. CASE Link
  BY <1>3 DEF Link
<1>4. CASE Remove
  BY <1>4 DEF Remove
<1>. QED
  BY <1>1, <1>2, <1>3, <1>4 DEF PublishCall

\* Every step of the command and of its environment does (cmd/replay/main.go).
LEMMA NextPublished == Inv /\ Published /\ [ReplayNext]_replaying => Inv' /\ Published'
<1> SUFFICES ASSUME Inv, Published, [ReplayNext]_replaying PROVE Published'
  BY NextInv, ReplayPublishes
<1>1. CASE Refuse \/ Pass \/ (\E e \in Events : Keep(e) \/ FailAt(e)) \/ UNCHANGED replaying
  BY <1>1 DEF Refuse, Pass, Keep, FailAt, Published, publishing, replaying, running
<1>2. CASE Exit
  BY <1>2 DEF Exit, ExitCode, Published, publishing
<1>3. CASE PublishReport
  BY <1>3, CallPublished DEF PublishReport, running
<1>4. CASE Environment
  BY <1>4 DEF Environment, OtherCreates, Killed, Running, PowerLoss, Published, running, Inv, Typed
<1>. QED
  BY <1>1, <1>2, <1>3, <1>4 DEF ReplayNext

(***************************************************************************)
(* ZeroMeansPublished: the process ends with 0 only when the whole report  *)
(* of a run that passed is under the name and its temporary name is gone,  *)
(* whatever the environment did meanwhile (cmd/replay/main.go).            *)
(***************************************************************************)
THEOREM ZeroOnlyWhenPublished == ReplaySpec => ZeroMeansPublished
<1>1. ASSUME Inv, Published, [ReplayNext]_replaying
      PROVE  [exit' = 0 /\ exit # 0 =>
                target = "ours" /\ content = "whole" /\ ~temp /\ report.status = "passed"]_exit
  <2>1. SUFFICES ASSUME exit' = 0, exit # 0
        PROVE target = "ours" /\ content = "whole" /\ ~temp /\ report.status = "passed"
    OBVIOUS
  <2>2. Exit
    BY <1>1, <2>1 DEF ReplayNext, Refuse, Pass, Keep, FailAt, PublishReport, Environment, running, replaying
  <2>. QED
    BY <1>1, <2>1, <2>2 DEF Exit, ExitCode, Published, Inv, OursIsWhole
<1>. QED
  BY InitPublished, NextPublished, <1>1, PTL DEF ReplaySpec, ZeroMeansPublished, replaying

(***************************************************************************)
(* KeepsPromise: seen from the file, the command is the writer of          *)
(* Publication and nothing more; publish is entered after the run and by   *)
(* nothing else (cmd/replay/main.go, replay/persist.go).                   *)
(***************************************************************************)
THEOREM ReplayKeepsPromise == ReplaySpec => KeepsPromise
<1>1. ReplayInit => P!Before
  BY DEF ReplayInit, PublishInit, P!Before, Read
<1>. QED
  BY InitPublished, NextPublished, ReplayPublishes, StepPromised, <1>1, PTL
     DEF ReplaySpec, KeepsPromise, P!Promise, replaying

-----------------------------------------------------------------------------
(* The first difference of two reports. *)

\* A report of a run that goes on is a record, its frames a sequence.
Reporting ==
  stage = "run" =>
    /\ DOMAIN report = {"status", "initial", "frames", "failedAt", "final"}
    /\ \E X : report.frames \in Seq(X)

\* The report begins without a frame (replay/engine.go Run).
LEMMA InitReporting == ReplayInit => Reporting
<1> SUFFICES ASSUME ReplayInit PROVE Reporting
  OBVIOUS
<1>1. <<>> \in Seq({})
  OBVIOUS
<1>. QED
  BY <1>1 DEF ReplayInit, Reporting

\* An event that is kept adds its frame at the end (replay/engine.go Run).
LEMMA NextReporting == Reporting /\ [ReplayNext]_replaying => Reporting'
<1> SUFFICES ASSUME Reporting, [ReplayNext]_replaying, stage' = "run"
             PROVE  /\ DOMAIN report' = {"status", "initial", "frames", "failedAt", "final"}
                    /\ \E X : report'.frames \in Seq(X)
  BY DEF Reporting
<1>1. CASE \E e \in Events : Keep(e)
  <2>1. PICK e, after : report' = Kept(e, after) /\ stage = "run"
    BY <1>1 DEF Keep
  <2>2. PICK X : report.frames \in Seq(X)
    BY <2>1 DEF Reporting
  <2> DEFINE frame == FrameOf(e, Moment, after)
  <2>3. report'.frames = Append(report.frames, frame) /\ DOMAIN report' = DOMAIN report
    BY <2>1 DEF Reporting, Kept
  <2> HIDE DEF frame
  <2>4. report.frames \in Seq(X \cup {frame})
    BY <2>2
  <2>5. Append(report.frames, frame) \in Seq(X \cup {frame})
    BY <2>4
  <2>. QED
    BY <2>1, <2>3, <2>5 DEF Reporting
<1>2. CASE UNCHANGED report /\ stage = "run"
  BY <1>2 DEF Reporting
<1>. QED
  BY <1>1, <1>2 DEF ReplayNext, Refuse, Pass, FailAt, Exit, PublishReport, Environment, replaying, running

\* What an event leads to is a moment, its rules the same unless the event switches them.
LEMMA AfterShape ==
  ASSUME NEW e, NEW after \in After(e), WellLoaded(e)
  PROVE  \E x, y, z : after = [day |-> x, rules |-> y, sim |-> z] /\ (~Switches(e) => y = rules)
<1> USE DEF With, WithAccount, Trial, Moment
<1>1. CASE \E s : after \in With(s)
  BY <1>1
<1>2. CASE e.kind = "settle"
  <2>1. after \in AfterSettle(e.load.settlement)
    BY <1>2 DEF After
  <2>. QED
    BY <1>2, <2>1 DEF AfterSettle, Switches
<1>3. CASE e.kind = "risk"
  <2>1. after = Moment
    BY <1>3 DEF After
  <2>. QED
    BY <2>1
<1>4. CASE e.kind = "fill"
  <2>1. after \in AfterFill(e.load.ref)
    BY <1>4 DEF After
  <2>. QED
    BY <1>1, <2>1, Zenon DEF AfterFill
<1>5. CASE e.kind \in {"mark", "trade", "accept", "cancel", "deposit", "withdraw"}
  <2>1. \E s : after \in With(s)
    BY <1>5, Zenon DEF After
  <2>. QED
    BY <1>1, <2>1
<1>. QED
  BY <1>2, <1>3, <1>4, <1>5 DEF WellLoaded, LoadOf

\* Reports that agree but for their last frame part at it, or agree (replay/diff.go Compare).
LEMMA LastDiffers ==
  ASSUME NEW X, NEW frames \in Seq(X), NEW f, NEW g, NEW a, NEW b,
         a.frames = Append(frames, f), b.frames = Append(frames, g),
         a.initial = b.initial, a.status = b.status
  PROVE  Compare(a, b) = IF FramesAgree(f, g) THEN Equal ELSE Differ(Len(frames))
<1> DEFINE n == Len(frames)
           common == Min({Len(a.frames), Len(b.frames)})
           differing == {k \in 1 .. common : ~FramesAgree(a.frames[k], b.frames[k])}
<1>1. n \in Nat
  OBVIOUS
<1>2. Len(a.frames) = n + 1 /\ Len(b.frames) = n + 1 /\ a.frames[n + 1] = f /\ b.frames[n + 1] = g
  <2>1. frames \in Seq(X \cup {f, g})
    OBVIOUS
  <2>. QED
    BY <2>1
<1>3. \A k \in 1 .. n : a.frames[k] = b.frames[k]
  <2>1. frames \in Seq(X \cup {f, g})
    OBVIOUS
  <2>. QED
    BY <2>1
<1>4. common = n + 1
  BY <1>1, <1>2 DEF Min
<1>5. differing = IF FramesAgree(f, g) THEN {} ELSE {n + 1}
  <2>1. \A k \in 1 .. n : FramesAgree(a.frames[k], b.frames[k])
    BY <1>3 DEF FramesAgree
  <2>. QED
    BY <1>1, <1>2, <1>4, <2>1
<1>6. FramesAgree(f, g) \in BOOLEAN
  BY DEF FramesAgree
<1>7. Min({n + 1}) - 1 = n
  BY <1>1 DEF Min
<1>8. Compare(a, b) = IF differing # {} THEN Differ(Min(differing) - 1) ELSE Equal
  BY <1>2 DEF Compare
<1> HIDE DEF n, common, differing
<1>. QED
  BY <1>5, <1>6, <1>7, <1>8 DEF n

(***************************************************************************)
(* DifferenceIsTheFirst: two runs that part at one event compare equal     *)
(* only when the reports are equal, and else the step named is the step of *)
(* that event; what a frame says of an event determines everything Compare *)
(* does not look at, the rules of the last moment among it (replay/diff.go *)
(* Compare).                                                               *)
(***************************************************************************)
THEOREM DifferenceFound == ReplaySpec => []DifferenceIsTheFirst
<1>1. Reporting => DifferenceIsTheFirst
  <2> SUFFICES ASSUME Reporting, stage = "run", Fits,
                      NEW e1 \in Events, NEW x1 \in After(e1), Accepted(e1, x1),
                      NEW e2 \in Events, NEW x2 \in After(e2), Accepted(e2, x2)
               PROVE  LET a == Kept(e1, x1)
                          b == Kept(e2, x2)
                      IN  Compare(a, b) = IF a = b THEN Equal ELSE Differ(Len(report.frames))
    BY DEF DifferenceIsTheFirst
  <2> DEFINE a == Kept(e1, x1)
             b == Kept(e2, x2)
             f == FrameOf(e1, Moment, x1)
             g == FrameOf(e2, Moment, x2)
  <2>1. PICK X : report.frames \in Seq(X)
    BY DEF Reporting
  <2>2. /\ a = [report EXCEPT !.frames = Append(@, f), !.final = x1]
        /\ b = [report EXCEPT !.frames = Append(@, g), !.final = x2]
    BY DEF Kept
  <2>3. FramesAgree(f, g) => f = g /\ x1 = x2
    <3> SUFFICES ASSUME FramesAgree(f, g) PROVE f = g /\ x1 = x2
      OBVIOUS
    <3>1. f = g
      BY DEF FramesAgree, FrameOf
    <3>2. PICK u1, v1, w1 : x1 = [day |-> u1, rules |-> v1, sim |-> w1] /\ (~Switches(e1) => v1 = rules)
      BY AfterShape DEF Accepted
    <3>3. PICK u2, v2, w2 : x2 = [day |-> u2, rules |-> v2, sim |-> w2] /\ (~Switches(e2) => v2 = rules)
      BY AfterShape DEF Accepted
    <3>4. e1 = e2 /\ u1 = u2 /\ w1 = w2
      BY <3>1, <3>2, <3>3 DEF FrameOf
    <3>5. Switches(e1) => v1 = v2
      BY <3>1, <3>2, <3>3, <3>4 DEF FrameOf
    <3>. QED
      BY <3>1, <3>2, <3>3, <3>4, <3>5
  <2>4. FramesAgree(f, f)
    BY DEF FramesAgree
  <2> HIDE DEF f, g
  <2>5. a.frames = Append(report.frames, f) /\ b.frames = Append(report.frames, g)
        /\ a.initial = b.initial /\ a.status = b.status
    BY <2>2 DEF Reporting
  <2> HIDE DEF a, b
  <2>6. a = b => f = g
    <3>1. report.frames \in Seq(X \cup {f, g})
      BY <2>1
    <3>2. Append(report.frames, f)[Len(report.frames) + 1] = f /\ Append(report.frames, g)[Len(report.frames) + 1] = g
      BY <3>1
    <3>. QED
      BY <2>5, <3>2
  <2>7. FramesAgree(f, g) <=> a = b
    BY <2>2, <2>3, <2>4, <2>6
  <2>8. Compare(a, b) = IF FramesAgree(f, g) THEN Equal ELSE Differ(Len(report.frames))
    BY <2>1, <2>5, LastDiffers
  <2>. QED
    BY <2>7, <2>8 DEF a, b
<1>. QED
  BY InitReporting, NextReporting, <1>1, PTL DEF ReplaySpec, replaying

-----------------------------------------------------------------------------
(* The deposit a risk report asks for. *)

\* What the integer division of the ratio returns.
LEMMA Division ==
  ASSUME NEW x \in Int, NEW d \in Nat \ {0}
  PROVE  /\ x \div d \in Int
         /\ d * (x \div d) <= x
         /\ x < d * (x \div d) + d
OBVIOUS

\* The division that rounds up leaves less than the divisor over (risk/policy.go).
LEMMA DivUpIs ==
  ASSUME NEW x \in Int, NEW d \in Nat \ {0}
  PROVE  /\ R!DivUp(x, d) \in Int
         /\ x <= d * R!DivUp(x, d)
         /\ d * R!DivUp(x, d) < x + d
<1>1. x + d - 1 \in Int
  OBVIOUS
<1> DEFINE n == (x + d - 1) \div d
<1>2. n \in Int /\ d * n <= x + d - 1 /\ x + d - 1 < d * n + d
  BY <1>1, Division
<1>3. R!DivUp(x, d) = n
  BY DEF R!DivUp
<1> HIDE DEF n
<1>4. d * n \in Int
  BY <1>2
<1>. QED
  BY <1>2, <1>3, <1>4

\* The largest of four numbers is one of them and none is larger.
LEMMA LargestOfFour ==
  ASSUME NEW V \in SUBSET Int, NEW x \in V, NEW y \in V, NEW z \in V, NEW w \in V, V = {x, y, z, w}
  PROVE  Max(V) \in V /\ \A v \in V : v <= Max(V)
<1>1. \E m \in {x, y, z, w} : \A v \in {x, y, z, w} : m >= v
  <2>1. \E m \in {x, y} : m >= x /\ m >= y
    OBVIOUS
  <2>2. \E m \in {z, w} : m >= z /\ m >= w
    OBVIOUS
  <2>. QED
    BY <2>1, <2>2
<1>. QED
  BY <1>1 DEF Max

\* The policies of whole numbers; CanAssess asks for positive ones.
Policies == [ratio : Int, equity : Int, available : Int]

\* The thresholds that x more leaves an account beyond.
Short(acc, policy, x) == R!Beyond(A!Deposited(acc, x), policy)

\* A deposit moves balance and available funds by itself, and the gap by its share (account/account.go).
LEMMA ShortIs ==
  ASSUME NEW acc \in A!ArchiveType, NEW policy \in Policies, NEW x \in Int
  PROVE  /\ A!Balance(acc) \in Int /\ A!Available(acc) \in Int /\ R!Gap(acc, policy) \in Int
         /\ Short(acc, policy, x) =
              {t \in {"Ratio", "Equity", "Available"} :
                 CASE t = "Ratio"  -> A!Balance(acc) + x > 0 /\ R!Gap(acc, policy) - x * policy.ratio > 0
                   [] t = "Equity" -> A!Balance(acc) + x < policy.equity
                   [] OTHER        -> A!Available(acc) + x < policy.available}
<1> DEFINE more == A!Deposited(acc, x)
<1>1. /\ more.preBalance = acc.preBalance /\ more.deposit = acc.deposit + x /\ more.withdraw = acc.withdraw
      /\ more.closeProfit = acc.closeProfit /\ more.positionProfit = acc.positionProfit
      /\ more.commission = acc.commission /\ more.currMargin = acc.currMargin
      /\ more.frozenMargin = acc.frozenMargin /\ more.frozenCash = acc.frozenCash
      /\ more.frozenCommission = acc.frozenCommission /\ more.algorithm = acc.algorithm
  BY DEF A!Deposited, A!ArchiveType, A!AccountOf
<1>2. /\ acc.preBalance \in Int /\ acc.deposit \in Int /\ acc.withdraw \in Int /\ acc.closeProfit \in Int
      /\ acc.positionProfit \in Int /\ acc.commission \in Int /\ acc.currMargin \in Int
      /\ acc.frozenMargin \in Int /\ acc.frozenCash \in Int /\ acc.frozenCommission \in Int
      /\ policy.ratio \in Int
  BY DEF A!ArchiveType, A!AccountOf, Policies
<1> HIDE DEF more
<1>3. A!Balance(acc) \in Int /\ A!Balance(more) = A!Balance(acc) + x
  BY <1>1, <1>2 DEF A!Balance, A!StaticBalance
<1>4. A!Available(acc) \in Int /\ A!Available(more) = A!Available(acc) + x
  BY <1>1, <1>2, <1>3 DEF A!Available, A!Excluded
<1>5. R!A!Balance(acc) = A!Balance(acc) /\ R!A!Balance(more) = A!Balance(more) /\ R!A!Available(more) = A!Available(more)
  BY DEF R!A!Balance, A!Balance, R!A!StaticBalance, A!StaticBalance, R!A!Available, A!Available, R!A!Excluded, A!Excluded
<1>6. R!Gap(acc, policy) \in Int /\ R!Gap(more, policy) = R!Gap(acc, policy) - x * policy.ratio
  BY <1>1, <1>2, <1>3, <1>5 DEF R!Gap
<1>. QED
  BY <1>3, <1>4, <1>5, <1>6 DEF R!Beyond, R!HasRiskRatio, Short, more

\* The least deposit in arithmetic: g cents fill the gap G to the ratio r, and one less does not.
LEMMA GapFilled ==
  ASSUME NEW G \in Int, G > 0, NEW r \in Nat \ {0}, NEW g \in Int, NEW c \in Nat \ {0},
         G <= (r * c) * g, (r * c) * g < G + r * c,
         NEW x \in Int
  PROVE  /\ c * g <= x => G - x * r <= 0
         /\ x = c * g - c => G - x * r > 0
<1> DEFINE d == c * g
<1>1. d \in Int /\ (r * c) * g = d * r /\ r * c = c * r /\ r * c \in Int
  OBVIOUS
<1>2. ASSUME d <= x PROVE G - x * r <= 0
  <2>1. d * r <= x * r
    BY <1>2, <1>1
  <2>. QED
    BY <1>1, <2>1
<1>3. ASSUME x = d - c PROVE G - x * r > 0
  <2>1. x * r = d * r - c * r
    BY <1>1, <1>3
  <2>2. d * r < G + c * r
    BY <1>1
  <2>3. d * r \in Int /\ c * r \in Int
    BY <1>1
  <2>. QED
    BY <2>1, <2>2, <2>3
<1>. QED
  BY <1>2, <1>3

(***************************************************************************)
(* The arithmetic behind DepositIsLeast, for every account and every       *)
(* policy Assess takes: with the deposit it asks for, none of the three    *)
(* thresholds is passed, and with a cent less at least one is              *)
(* (risk/policy.go Assess).                                                *)
(***************************************************************************)
THEOREM LeastDeposit ==
  ASSUME NEW acc \in A!ArchiveType, NEW policy \in Policies, R!CanAssess(acc, policy)
  PROVE  LET deposit == R!Assess(acc, policy).deposit
         IN  /\ Short(acc, policy, deposit) = {}
             /\ deposit >= Cent => Short(acc, policy, deposit - Cent) # {}
<1> DEFINE c  == Cent
           r  == policy.ratio
           bal == A!Balance(acc)
           avail == A!Available(acc)
           G  == R!Gap(acc, policy)
           g  == R!DivUp(G, r * c)
           byEquity == policy.equity - bal
           byAvailable == policy.available - avail
           wants == {0, byEquity, byAvailable} \cup IF G > 0 THEN {g * c} ELSE {}
           needed == Max(wants)
           u == R!DivUp(needed, c)
           deposit == R!Assess(acc, policy).deposit
<1>1. /\ c \in Nat \ {0} /\ r \in Nat \ {0} /\ policy.equity \in Int /\ policy.equity > 0
      /\ policy.available \in Int
  BY CentAssumption DEF Policies, R!CanAssess, R!PolicyValid
<1>2. bal \in Int /\ avail \in Int /\ G \in Int
  BY ShortIs
<1>3. r * c \in Nat \ {0}
  BY <1>1
<1>4. g \in Int /\ G <= (r * c) * g /\ (r * c) * g < G + r * c
  BY <1>2, <1>3, DivUpIs
<1>5. R!A!Balance(acc) = bal /\ R!A!Available(acc) = avail
  BY DEF R!A!Balance, A!Balance, R!A!StaticBalance, A!StaticBalance, R!A!Available, A!Available,
         R!A!Excluded, A!Excluded
<1>6. deposit = u * c
  BY <1>5 DEF R!Assess, R!RequiredDeposit, R!GapDeposit, R!Max, Max
<1> HIDE DEF c, r, bal, avail, G, g, u, deposit
<1>7. /\ needed \in wants /\ wants \subseteq Int
      /\ needed >= 0 /\ needed >= byEquity /\ needed >= byAvailable
      /\ G > 0 => needed >= g * c
  <2>1. g * c \in Int
    BY <1>1, <1>4
  <2>2. PICK w \in Int : w = (IF G > 0 THEN g * c ELSE 0) /\ wants = {0, byEquity, byAvailable, w}
    BY <2>1
  <2>3. byEquity \in Int /\ byAvailable \in Int
    BY <1>1, <1>2
  <2> HIDE DEF byEquity, byAvailable, wants
  <2>4. needed \in wants /\ \A v \in wants : v <= needed
    <3>1. wants \in SUBSET Int /\ 0 \in wants /\ byEquity \in wants /\ byAvailable \in wants /\ w \in wants
      BY <2>2, <2>3
    <3>2. Max(wants) \in wants /\ \A v \in wants : v <= Max(wants)
      BY <2>2, <3>1, LargestOfFour
    <3>. QED
      BY <3>2
  <2>. QED
    BY <2>2, <2>3, <2>4
<1>8. u \in Int /\ needed <= c * u /\ c * u < needed + c
  BY <1>1, <1>7, DivUpIs DEF u
<1> HIDE DEF needed, wants
<1>9. deposit \in Int /\ deposit = c * u
  BY <1>1, <1>6, <1>8
<1>10. ASSUME NEW x \in Int
       PROVE Short(acc, policy, x) =
               {t \in {"Ratio", "Equity", "Available"} :
                 CASE t = "Ratio"  -> bal + x > 0 /\ G - x * r > 0
                   [] t = "Equity" -> bal + x < policy.equity
                   [] OTHER        -> avail + x < policy.available}
  BY ShortIs DEF bal, avail, G, r
<1>11. Short(acc, policy, deposit) = {}
  <2>1. ~(bal + deposit < policy.equity) /\ ~(avail + deposit < policy.available)
    BY <1>1, <1>2, <1>7, <1>8, <1>9
  <2>2. ~(G - deposit * r > 0)
    <3>1. CASE G > 0
      <4>1. g * c = c * g /\ c * g \in Int /\ c * g <= deposit
        BY <1>1, <1>4, <1>7, <1>8, <1>9, <3>1
      <4>2. G - deposit * r <= 0
        BY <1>1, <1>2, <1>4, <1>9, <3>1, <4>1, GapFilled
      <4>. QED
        BY <1>1, <1>2, <1>9, <4>2
    <3>2. CASE ~(G > 0)
      <4>1. deposit >= 0
        BY <1>1, <1>7, <1>8, <1>9
      <4>2. deposit * r >= 0 /\ deposit * r \in Int
        BY <1>1, <1>9, <4>1
      <4>. QED
        BY <1>2, <3>2, <4>2
    <3>. QED
      BY <3>1, <3>2
  <2>. QED
    BY <1>9, <1>10, <2>1, <2>2
<1>12. ASSUME deposit >= c PROVE Short(acc, policy, deposit - c) # {}
  <2> DEFINE x == deposit - c
  <2>1. x \in Int /\ x < needed /\ x >= 0 /\ needed \in Int
    BY <1>1, <1>7, <1>8, <1>9, <1>12
  <2>2. CASE needed = byEquity
    <3>1. bal + x < policy.equity
      BY <1>1, <1>2, <2>1, <2>2
    <3>. QED
      BY <1>10, <2>1, <3>1
  <2>3. CASE needed = byAvailable
    <3>1. avail + x < policy.available
      BY <1>1, <1>2, <2>1, <2>3
    <3>2. "Available" \in Short(acc, policy, x)
      BY <1>10, <2>1, <3>1
    <3>. QED
      BY <3>2
  <2>4. CASE G > 0 /\ needed = g * c
    <3>1. g * c = c * g /\ c * g \in Int
      BY <1>1, <1>4
    <3>2. u = g
      <4>1. c * u - c * g = c * (u - g)
        BY <1>1, <1>4, <1>8
      <4>2. 0 <= c * (u - g) /\ c * (u - g) < c
        BY <1>1, <1>4, <1>8, <2>4, <3>1, <4>1
      <4>3. u - g \in Int
        BY <1>4, <1>8
      <4>4. u - g = 0
        BY <1>1, <4>2, <4>3
      <4>. QED
        BY <1>4, <1>8, <4>4
    <3>3. x = c * g - c
      BY <1>9, <3>2
    <3>4. G - x * r > 0
      BY <1>1, <1>2, <1>4, <2>1, <2>4, <3>3, GapFilled
    <3>5. CASE bal + x > 0
      <4>1. "Ratio" \in Short(acc, policy, x)
        BY <1>10, <2>1, <3>4, <3>5
      <4>. QED
        BY <4>1
    <3>6. CASE ~(bal + x > 0)
      <4>1. bal + x < policy.equity
        BY <1>1, <1>2, <2>1, <3>6
      <4>. QED
        BY <1>10, <2>1, <4>1
    <3>. QED
      BY <3>5, <3>6
  <2>5. needed \in {byEquity, byAvailable} \/ (G > 0 /\ needed = g * c)
    BY <1>7, <2>1 DEF wants
  <2>. QED
    BY <2>2, <2>3, <2>4, <2>5
<1>. QED
  BY <1>11, <1>12 DEF deposit, c

-----------------------------------------------------------------------------
(***************************************************************************)
(* The facade under the rules of the day.                                  *)
(*                                                                         *)
(* Trading reaches the facade as S(rules), an instance whose contracts are *)
(* a state: the lemmas of FacadeProofs are about O, the instance whose     *)
(* contracts are constants.  Each of the lemmas named Same says of some    *)
(* operators that the two are one and the same expression, so that what is *)
(* proved of O holds under the rules of whatever day it is.                *)
(***************************************************************************)
O == INSTANCE FacadeProofs WITH Instruments <- DOMAIN rules.contracts, Contract <- rules.contracts

\* Folds over finite sets.
LEMMA SameFolds ==
  /\ \A f : S(rules)!SumFunction(f) = O!SumFunction(f)
  /\ \A x : S(rules)!Max(x) = O!Max(x) /\ S(rules)!Min(x) = O!Min(x)
  /\ \A x : S(rules)!IsFiniteSet(x) = O!IsFiniteSet(x)
  /\ \A f, x : S(rules)!B!Restrict(f, x) = O!B!Restrict(f, x)
BY DEF S!SumFunction, O!SumFunction, S!SumFunctionOnSet, O!SumFunctionOnSet, S!FoldFunctionOnSet, O!FoldFunctionOnSet,
   S!MapThenFoldSet, O!MapThenFoldSet, S!Max, O!Max, S!Min, O!Min, S!IsFiniteSet, O!IsFiniteSet, S!B!Restrict, O!B!Restrict

\* The account (account/account.go).
LEMMA SameAlgorithms ==
  /\ \A company, exchange : S(rules)!A!CanSetMargin(company, exchange) = O!A!CanSetMargin(company, exchange)
  /\ \A x, y : S(rules)!A!Distance(x, y) = O!A!Distance(x, y)
  /\ \A a, profit : S(rules)!A!WithPositionProfit(a, profit) = O!A!WithPositionProfit(a, profit)
  /\ \A a, company, exchange : S(rules)!A!WithMargin(a, company, exchange) = O!A!WithMargin(a, company, exchange)
  /\ \A a, profit : S(rules)!A!WithCloseProfit(a, profit) = O!A!WithCloseProfit(a, profit)
  /\ \A a, fee, atSettle : S(rules)!A!Charged(a, fee, atSettle) = O!A!Charged(a, fee, atSettle)
  /\ \A a, margin, commission : S(rules)!A!WithFrozen(a, margin, commission) = O!A!WithFrozen(a, margin, commission)
  /\ \A a : S(rules)!A!StaticBalance(a) = O!A!StaticBalance(a)
  /\ \A a : S(rules)!A!Excluded(a) = O!A!Excluded(a)
  /\ \A a, margin, commission : S(rules)!A!WithoutFrozen(a, margin, commission)
         = O!A!WithoutFrozen(a, margin, commission)
  /\ \A a, margin, commission : S(rules)!A!CanUnfreeze(a, margin, commission) = O!A!CanUnfreeze(a, margin, commission)
  /\ \A preBalance, algorithm : S(rules)!A!NewAccount(preBalance, algorithm) = O!A!NewAccount(preBalance, algorithm)
  /\ \A a : S(rules)!A!CanSettleAccount(a) = O!A!CanSettleAccount(a)
  /\ S(rules)!A!Algorithms = O!A!Algorithms
BY DEF S!A!CanSetMargin, O!A!CanSetMargin, S!A!Distance, O!A!Distance, S!A!WithPositionProfit,
   O!A!WithPositionProfit, S!A!WithMargin, O!A!WithMargin, S!A!WithCloseProfit, O!A!WithCloseProfit, S!A!Charged,
   O!A!Charged, S!A!WithFrozen, O!A!WithFrozen, S!A!StaticBalance, O!A!StaticBalance, S!A!Excluded, O!A!Excluded,
   S!A!WithoutFrozen, O!A!WithoutFrozen, S!A!CanUnfreeze, O!A!CanUnfreeze, S!A!NewAccount, O!A!NewAccount,
   S!A!CanSettleAccount, O!A!CanSettleAccount, S!A!Algorithms, O!A!Algorithms

LEMMA SameAccountOf ==
  /\ \A a : S(rules)!A!Check(a) = O!A!Check(a)
  /\ \A fee, atSettle : S(rules)!A!CanCharge(fee, atSettle) = O!A!CanCharge(fee, atSettle)
  /\ \A a : S(rules)!A!Balance(a) = O!A!Balance(a)
  /\ \A Amount : S(rules)!A!AccountOf(Amount) = O!A!AccountOf(Amount)
BY SameAlgorithms DEF S!A!Check, O!A!Check, S!A!CanCharge, O!A!CanCharge, S!A!Balance, O!A!Balance, S!A!AccountOf,
   O!A!AccountOf

LEMMA SameArchiveType ==
  /\ \A a : S(rules)!A!Available(a) = O!A!Available(a)
  /\ \A a : S(rules)!A!SettledAccount(a) = O!A!SettledAccount(a)
  /\ S(rules)!A!AccountType = O!A!AccountType
  /\ \A a : S(rules)!A!RestorableParts(a) = O!A!RestorableParts(a)
  /\ S(rules)!A!ArchiveType = O!A!ArchiveType
BY SameAccountOf, SameAlgorithms DEF S!A!Available, O!A!Available, S!A!SettledAccount, O!A!SettledAccount,
   S!A!AccountType, O!A!AccountType, S!A!RestorableParts, O!A!RestorableParts, S!A!ArchiveType, O!A!ArchiveType

LEMMA SameRestorableAccount ==
  /\ \A a, margin, commission : S(rules)!A!CanFreeze(a, margin, commission) = O!A!CanFreeze(a, margin, commission)
  /\ \A a : S(rules)!A!RestorableAccount(a) = O!A!RestorableAccount(a)
BY SameArchiveType DEF S!A!CanFreeze, O!A!CanFreeze, S!A!RestorableAccount, O!A!RestorableAccount

\* The order book (book/book.go).
LEMMA SameRestorableBook ==
  /\ \A book : S(rules)!B!IDs(book) = O!B!IDs(book)
  /\ \A order, sequence : S(rules)!B!Entry(order, sequence) = O!B!Entry(order, sequence)
  /\ \A book, id : S(rules)!B!Sequence(book, id) = O!B!Sequence(book, id)
  /\ S(rules)!B!EmptyBook = O!B!EmptyBook
  /\ \A archive : S(rules)!B!RestorableBook(archive) = O!B!RestorableBook(archive)
BY DEF S!B!IDs, O!B!IDs, S!B!Entry, O!B!Entry, S!B!Sequence, O!B!Sequence, S!B!EmptyBook, O!B!EmptyBook,
   S!B!RestorableBook, O!B!RestorableBook

LEMMA SameArchivedBook ==
  /\ \A book, id, entry : S(rules)!B!InsertAt(book, id, entry) = O!B!InsertAt(book, id, entry)
  /\ \A book, id : S(rules)!B!IDFree(book, id) = O!B!IDFree(book, id)
  /\ \A book, id : S(rules)!B!Remove(book, id) = O!B!Remove(book, id)
  /\ \A book : S(rules)!B!ArchivedBook(book) = O!B!ArchivedBook(book)
BY SameRestorableBook, SameFolds DEF S!B!InsertAt, O!B!InsertAt, S!B!IDFree, O!B!IDFree, S!B!Remove, O!B!Remove,
   S!B!ArchivedBook, O!B!ArchivedBook

LEMMA SameReinsert ==
  /\ \A book, id, order : S(rules)!B!Insert(book, id, order) = O!B!Insert(book, id, order)
  /\ \A book, id : S(rules)!B!CanInsert(book, id) = O!B!CanInsert(book, id)
  /\ \A book, id, sequence : S(rules)!B!CanReinsert(book, id, sequence) = O!B!CanReinsert(book, id, sequence)
  /\ \A book, id, entry : S(rules)!B!Reinsert(book, id, entry) = O!B!Reinsert(book, id, entry)
BY SameArchivedBook, SameRestorableBook DEF S!B!Insert, O!B!Insert, S!B!CanInsert, O!B!CanInsert, S!B!CanReinsert,
   O!B!CanReinsert, S!B!Reinsert, O!B!Reinsert

\* Lots and sides (position/side.go, position/lots.go).
LEMMA SameRestorableSide ==
  /\ \A s : S(rules)!Total(s) = O!Total(s)
  /\ \A dir : S(rules)!Sign(dir) = O!Sign(dir)
  /\ \A openDay, openPrice, volume, basis, settled : S(rules)!Lot(openDay, openPrice, volume, basis, settled)
         = O!Lot(openDay, openPrice, volume, basis, settled)
  /\ \A s, K : S(rules)!Picked(s, K) = O!Picked(s, K)
  /\ \A walked, i : S(rules)!TakeFrom(walked, i) = O!TakeFrom(walked, i)
  /\ \A lots : S(rules)!HistoryLots(lots) = O!HistoryLots(lots)
  /\ \A lots : S(rules)!TodaysLots(lots) = O!TodaysLots(lots)
  /\ \A lots, price : S(rules)!SettleAll(lots, price) = O!SettleAll(lots, price)
  /\ S(rules)!LotSet = O!LotSet
  /\ \A today, lots : S(rules)!RestorableSide(today, lots) = O!RestorableSide(today, lots)
<1>1. \A s : S(rules)!Total(s) = O!Total(s)
  BY DEF S!Total, O!Total
<1>2. \A dir : S(rules)!Sign(dir) = O!Sign(dir)
  BY DEF S!Sign, O!Sign
<1>3. \A openDay, openPrice, volume, basis, settled : S(rules)!Lot(openDay, openPrice, volume, basis, settled)
          = O!Lot(openDay, openPrice, volume, basis, settled)
  BY DEF S!Lot, O!Lot
<1>4. \A s, K : S(rules)!Picked(s, K) = O!Picked(s, K)
  BY DEF S!Picked, O!Picked
<1>5. \A walked, i : S(rules)!TakeFrom(walked, i) = O!TakeFrom(walked, i)
  BY SameFolds DEF S!TakeFrom, O!TakeFrom
<1>6. \A lots : S(rules)!HistoryLots(lots) = O!HistoryLots(lots)
  BY DEF S!HistoryLots, O!HistoryLots
<1>7. \A lots : S(rules)!TodaysLots(lots) = O!TodaysLots(lots)
  BY SameFolds, <1>1, <1>2, <1>3, <1>4, <1>5, <1>6 DEF S!TodaysLots, O!TodaysLots
<1>8. \A lots, price : S(rules)!SettleAll(lots, price) = O!SettleAll(lots, price)
  BY DEF S!SettleAll, O!SettleAll
<1>9. S(rules)!LotSet = O!LotSet
  BY DEF S!LotSet, O!LotSet
<1>10. \A today, lots : S(rules)!RestorableSide(today, lots) = O!RestorableSide(today, lots)
  BY DEF S!RestorableSide, O!RestorableSide
<1>. QED
  BY <1>1, <1>2, <1>3, <1>4, <1>5, <1>6, <1>7, <1>8, <1>9, <1>10

LEMMA SameLotDrift ==
  /\ \A lots, dir, price : S(rules)!ByDate(lots, dir, price) = O!ByDate(lots, dir, price)
  /\ \A lots : S(rules)!DropEmpty(lots) = O!DropEmpty(lots)
  /\ \A lots, offset, order : S(rules)!Walk(lots, offset, order) = O!Walk(lots, offset, order)
  /\ \A lots, K : S(rules)!VolumeWhere(lots, K) = O!VolumeWhere(lots, K)
  /\ \A dir : S(rules)!LotDrift(dir) = O!LotDrift(dir)
BY SameRestorableSide DEF S!ByDate, O!ByDate, S!DropEmpty, O!DropEmpty, S!Walk, O!Walk, S!VolumeWhere,
   O!VolumeWhere, S!LotDrift, O!LotDrift

LEMMA SameConsume ==
  \A lots, walk, volume : S(rules)!Consume(lots, walk, volume) = O!Consume(lots, walk, volume)
BY DEF S!Consume, O!Consume, S!TakeFrom, O!TakeFrom, S!Min, O!Min

LEMMA SameDrifts ==
  /\ \A lots : S(rules)!VolumeHistory(lots) = O!VolumeHistory(lots)
  /\ \A lots : S(rules)!VolumeToday(lots) = O!VolumeToday(lots)
  /\ \A lots : S(rules)!Volume(lots) = O!Volume(lots)
  /\ \A lots, dir : S(rules)!Drifts(lots, dir) = O!Drifts(lots, dir)
BY SameLotDrift, SameRestorableSide DEF S!VolumeHistory, O!VolumeHistory, S!VolumeToday, O!VolumeToday, S!Volume,
   O!Volume, S!Drifts, O!Drifts

LEMMA SameKept ==
  /\ \A walked : S(rules)!Kept(walked) = O!Kept(walked)
BY SameLotDrift DEF S!Kept, O!Kept

LEMMA SameDrift ==
  /\ \A lots, offset, volume, order : S(rules)!CloseLots(lots, offset, volume, order)
         = O!CloseLots(lots, offset, volume, order)
  /\ \A lots, offset, volume : S(rules)!Closable(lots, offset, volume) = O!Closable(lots, offset, volume)
  /\ \A lots, dir : S(rules)!Drift(lots, dir) = O!Drift(lots, dir)
BY SameKept, SameConsume, SameLotDrift, SameDrifts, SameRestorableSide DEF S!CloseLots, O!CloseLots, S!Closable,
   O!Closable, S!Drift, O!Drift

\* Fees and the quota (fee/fee.go).
LEMMA SameQuotaType ==
  /\ \A a, b, today : S(rules)!BothSegments(a, b, today) = O!BothSegments(a, b, today)
  /\ \A x : S(rules)!TruncateToCent(x) = O!TruncateToCent(x)
  /\ \A x : S(rules)!HalfUpToCent(x) = O!HalfUpToCent(x)
  /\ \A rate, price, volume : S(rules)!Money(rate, price, volume) = O!Money(rate, price, volume)
  /\ \A rate, volume : S(rules)!PerLot(rate, volume) = O!PerLot(rate, volume)
  /\ \A price, pre : S(rules)!BasisPrice(price, pre) = O!BasisPrice(price, pre)
  /\ \A volume, left : S(rules)!LotsAtToday(volume, left) = O!LotsAtToday(volume, left)
  /\ S(rules)!NoQuota = O!NoQuota
  /\ S(rules)!QuotaType = O!QuotaType
<1>1. \A a, b, today : S(rules)!BothSegments(a, b, today) = O!BothSegments(a, b, today)
  BY DEF S!BothSegments, O!BothSegments
<1>2. \A x : S(rules)!TruncateToCent(x) = O!TruncateToCent(x)
  BY DEF S!TruncateToCent, O!TruncateToCent
<1>3. \A x : S(rules)!HalfUpToCent(x) = O!HalfUpToCent(x)
  BY DEF S!HalfUpToCent, O!HalfUpToCent
<1>4. \A rate, price, volume : S(rules)!Money(rate, price, volume) = O!Money(rate, price, volume)
  BY SameFolds, <1>1, <1>2, <1>3 DEF S!Money, O!Money
<1>5. \A rate, volume : S(rules)!PerLot(rate, volume) = O!PerLot(rate, volume)
  BY SameFolds, <1>1, <1>2, <1>3, <1>4 DEF S!PerLot, O!PerLot
<1>6. \A price, pre : S(rules)!BasisPrice(price, pre) = O!BasisPrice(price, pre)
  BY <1>4, <1>5 DEF S!BasisPrice, O!BasisPrice
<1>7. \A volume, left : S(rules)!LotsAtToday(volume, left) = O!LotsAtToday(volume, left)
  BY SameFolds DEF S!LotsAtToday, O!LotsAtToday
<1>8. S(rules)!NoQuota = O!NoQuota
  BY SameFolds, <1>1, <1>2, <1>3, <1>4, <1>5, <1>6, <1>7 DEF S!NoQuota, O!NoQuota
<1>9. S(rules)!QuotaType = O!QuotaType
  BY <1>8 DEF S!QuotaType, O!QuotaType
<1>. QED
  BY <1>1, <1>2, <1>3, <1>4, <1>5, <1>6, <1>7, <1>8, <1>9

LEMMA SameTodayTierLots ==
  /\ \A x : S(rules)!Rounded(x) = O!Rounded(x)
  /\ \A quota, volume : S(rules)!TodayTierLots(quota, volume) = O!TodayTierLots(quota, volume)
BY SameQuotaType DEF S!Rounded, O!Rounded, S!TodayTierLots, O!TodayTierLots

LEMMA SameTodayTierKnown ==
  /\ \A rate, price, volume : S(rules)!Segment(rate, price, volume) = O!Segment(rate, price, volume)
  /\ \A quota, volume : S(rules)!TodayTierKnown(quota, volume) = O!TodayTierKnown(quota, volume)
BY SameTodayTierLots, SameQuotaType DEF S!Segment, O!Segment, S!TodayTierKnown, O!TodayTierKnown

LEMMA SameSplit ==
  /\ \A close, closeToday, price, today, rest : S(rules)!Split(close, closeToday, price, today, rest)
         = O!Split(close, closeToday, price, today, rest)
BY SameQuotaType, SameTodayTierKnown DEF S!Split, O!Split

LEMMA SameWhole ==
  /\ \A close, closeToday, price, volume, today :
         S(rules)!UndatedCharge(close, closeToday, price, volume, today) = O!UndatedCharge(close, closeToday, price, volume, today)
  /\ \A close, closeToday, price, today, rest : S(rules)!SameAsWhole(close, closeToday, price, today, rest)
         = O!SameAsWhole(close, closeToday, price, today, rest)
BY SameSplit, SameQuotaType, SameTodayTierLots DEF S!UndatedCharge, O!UndatedCharge, S!SameAsWhole, O!SameAsWhole

LEMMA SameUndatedKnown ==
  /\ \A close, closeToday, measured, price, volume, today : S(rules)!UndatedKnown(close, closeToday, measured, price, volume, today) = O!UndatedKnown(close, closeToday, measured, price, volume, today)
BY SameWhole DEF S!UndatedKnown, O!UndatedKnown

\* Margin of lots (margin/margin.go).
LEMMA SameLotPrice ==
  /\ \A margins : S(rules)!SumMargins(margins) = O!SumMargins(margins)
  /\ \A product, instrument : S(rules)!GroupKey(product, instrument) = O!GroupKey(product, instrument)
  /\ \A long, short : S(rules)!LargerSide(long, short) = O!LargerSide(long, short)
  /\ \A long, short : S(rules)!BothSides(long, short) = O!BothSides(long, short)
  /\ \A rate, price, volume : S(rules)!Exchange(rate, price, volume) = O!Exchange(rate, price, volume)
  /\ \A lot, last, pre : S(rules)!LotPrice(lot, last, pre) = O!LotPrice(lot, last, pre)
BY SameFolds DEF S!SumMargins, O!SumMargins, S!GroupKey, O!GroupKey, S!LargerSide, O!LargerSide, S!BothSides,
   O!BothSides, S!Exchange, O!Exchange, S!LotPrice, O!LotPrice

LEMMA SameCompany ==
  /\ \A long, short, maxMarginSide : S(rules)!GroupMargin(long, short, maxMarginSide)
         = O!GroupMargin(long, short, maxMarginSide)
  /\ \A rate, addOn, price, volume : S(rules)!Company(rate, addOn, price, volume)
         = O!Company(rate, addOn, price, volume)
BY SameLotPrice DEF S!GroupMargin, O!GroupMargin, S!Company, O!Company

LEMMA SameSideMargin ==
  /\ \A rate, addOn, lots, last, pre : S(rules)!SideMargin(rate, addOn, lots, last, pre)
         = O!SideMargin(rate, addOn, lots, last, pre)
BY SameRestorableSide, SameLotPrice, SameCompany DEF S!SideMargin, O!SideMargin

\* What is held, and what it is worth (simulator.go revalue).
LEMMA SameNoPrices ==
  /\ \A s, chargeable, written : S(rules)!Committed(s, chargeable, written) = O!Committed(s, chargeable, written)
  /\ \A acc, margin, profit : S(rules)!WithValuation(acc, margin, profit) = O!WithValuation(acc, margin, profit)
  /\ \A inst : S(rules)!KeyOf(inst) = O!KeyOf(inst)
  /\ S(rules)!Directions = O!Directions
  /\ \A members, dir, positions, prices : S(rules)!SideOf(members, dir, positions, prices)
         = O!SideOf(members, dir, positions, prices)
  /\ \A price : S(rules)!MarkPrice(price) = O!MarkPrice(price)
  /\ \A dir : S(rules)!Opposite(dir) = O!Opposite(dir)
  /\ S(rules)!NoPrices = O!NoPrices
<1>1. \A s, chargeable, written : S(rules)!Committed(s, chargeable, written) = O!Committed(s, chargeable, written)
  BY SameAlgorithms, SameAccountOf DEF S!Committed, O!Committed
<1>2. \A acc, margin, profit : S(rules)!WithValuation(acc, margin, profit) = O!WithValuation(acc, margin, profit)
  BY SameAlgorithms, SameAccountOf DEF S!WithValuation, O!WithValuation
<1>3. \A inst : S(rules)!KeyOf(inst) = O!KeyOf(inst)
  BY SameLotPrice DEF S!KeyOf, O!KeyOf
<1>4. S(rules)!Directions = O!Directions
  BY DEF S!Directions, O!Directions
<1>5. \A members, dir, positions, prices : S(rules)!SideOf(members, dir, positions, prices)
          = O!SideOf(members, dir, positions, prices)
  BY SameLotPrice, SameSideMargin DEF S!SideOf, O!SideOf
<1>6. \A price : S(rules)!MarkPrice(price) = O!MarkPrice(price)
  BY DEF S!MarkPrice, O!MarkPrice
<1>7. \A dir : S(rules)!Opposite(dir) = O!Opposite(dir)
  BY DEF S!Opposite, O!Opposite
<1>8. S(rules)!NoPrices = O!NoPrices
  BY SameAlgorithms, SameAccountOf, SameLotPrice, SameSideMargin, <1>1, <1>2, <1>3, <1>4, <1>5, <1>6, <1>7 DEF
     S!NoPrices, O!NoPrices
<1>. QED
  BY <1>1, <1>2, <1>3, <1>4, <1>5, <1>6, <1>7, <1>8

LEMMA SameSides ==
  /\ S(rules)!FlatSides = O!FlatSides
  /\ S(rules)!Sides = O!Sides
BY SameNoPrices DEF S!FlatSides, O!FlatSides, S!Sides, O!Sides

LEMMA SameHeld ==
  /\ \A positions : S(rules)!Held(positions) = O!Held(positions)
BY SameSides DEF S!Held, O!Held

LEMMA SameProfit ==
  /\ \A positions, prices : S(rules)!Profit(positions, prices) = O!Profit(positions, prices)
BY SameSides, SameLotDrift, SameNoPrices, SameFolds DEF S!Profit, O!Profit

LEMMA SameValued ==
  /\ \A positions, prices : S(rules)!Valued(positions, prices) = O!Valued(positions, prices)
BY SameHeld, SameNoPrices DEF S!Valued, O!Valued

LEMMA SameGroupOf ==
  \A key, positions, prices : S(rules)!GroupOf(key, positions, prices) = O!GroupOf(key, positions, prices)
<1> SUFFICES ASSUME NEW key, NEW positions, NEW prices
             PROVE  S(rules)!GroupOf(key, positions, prices) = O!GroupOf(key, positions, prices)
  OBVIOUS
<1> DEFINE ours == {i \in S(rules)!Held(positions) : S(rules)!KeyOf(i) = key}
           theirs == {i \in O!Held(positions) : O!KeyOf(i) = key}
           Larger(members) == \E i \in members : rules.contracts[i].maxMarginSide
<1>1. ours = theirs
  BY SameHeld, SameNoPrices
<1>2. S(rules)!GroupOf(key, positions, prices)
        = S(rules)!GroupMargin(S(rules)!SideOf(ours, "Buy", positions, prices),
                               S(rules)!SideOf(ours, "Sell", positions, prices), Larger(ours))
  BY DEF S!GroupOf
<1>3. O!GroupOf(key, positions, prices)
        = O!GroupMargin(O!SideOf(theirs, "Buy", positions, prices),
                        O!SideOf(theirs, "Sell", positions, prices), Larger(theirs))
  BY DEF O!GroupOf
<1> HIDE DEF ours, theirs, Larger
<1>. QED
  BY <1>1, <1>2, <1>3, SameNoPrices, SameCompany

LEMMA SameHeldMargin ==
  /\ \A positions, prices : S(rules)!HeldMargin(positions, prices) = O!HeldMargin(positions, prices)
BY SameLotPrice, SameNoPrices, SameHeld, SameGroupOf DEF S!HeldMargin, O!HeldMargin

LEMMA SameRevalued ==
  /\ \A acc, positions, prices : S(rules)!Revalued(acc, positions, prices) = O!Revalued(acc, positions, prices)
BY SameNoPrices, SameHeldMargin, SameProfit DEF S!Revalued, O!Revalued

LEMMA SameCommit ==
  /\ \A s, fee, atSettle, profit : S(rules)!Commit(s, fee, atSettle, profit) = O!Commit(s, fee, atSettle, profit)
BY SameNoPrices, SameAccountOf, SameRevalued, SameAlgorithms DEF S!Commit, O!Commit

\* Quotes (simulator.go Mark).
LEMMA SameMarkedPrices ==
  /\ \A s, inst, quote : S(rules)!MarkedPrices(s, inst, quote) = O!MarkedPrices(s, inst, quote)
BY DEF S!MarkedPrices, O!MarkedPrices

LEMMA SameCanMark ==
  /\ \A s, inst, quote : S(rules)!Marked(s, inst, quote) = O!Marked(s, inst, quote)
  /\ \A s, inst, quote : S(rules)!CanMark(s, inst, quote) = O!CanMark(s, inst, quote)
BY SameCommit, SameMarkedPrices, SameValued DEF S!Marked, O!Marked, S!CanMark, O!CanMark

\* Trades (trade.go).
LEMMA SameRewritten ==
  /\ \A s, tr, todayLots : S(rules)!Booked(s, tr, todayLots) = O!Booked(s, tr, todayLots)
  /\ \A inst, offset : S(rules)!Dated(inst, offset) = O!Dated(inst, offset)
  /\ \A s, req : S(rules)!FeePrice(s, req) = O!FeePrice(s, req)
  /\ \A s, req : S(rules)!QuotaOf(s, req) = O!QuotaOf(s, req)
  /\ \A inst : S(rules)!TiersDiffer(inst) = O!TiersDiffer(inst)
  /\ \A req : S(rules)!Rewritten(req) = O!Rewritten(req)
BY SameNoPrices, SameQuotaType DEF S!Booked, O!Booked, S!Dated, O!Dated, S!FeePrice, O!FeePrice, S!QuotaOf,
   O!QuotaOf, S!TiersDiffer, O!TiersDiffer, S!Rewritten, O!Rewritten

LEMMA SameThenToday ==
  /\ \A first, volume : S(rules)!ThenToday(first, volume) = O!ThenToday(first, volume)
BY SameDrift DEF S!ThenToday, O!ThenToday

LEMMA SameFrozenOf ==
  /\ \A book, inst, held : S(rules)!FrozenOf(book, inst, held) = O!FrozenOf(book, inst, held)
BY SameRestorableBook, SameNoPrices, SameFolds DEF S!FrozenOf, O!FrozenOf

LEMMA SameFeeKnown ==
  /\ \A s, req, today : S(rules)!FeeOf(s, req, today) = O!FeeOf(s, req, today)
  /\ \A s, req : S(rules)!TodayLots(s, req) = O!TodayLots(s, req)
  /\ \A s, inst, held, lots : S(rules)!LeavesFrozen(s, inst, held, lots) = O!LeavesFrozen(s, inst, held, lots)
  /\ \A s, req, today : S(rules)!FeeKnown(s, req, today) = O!FeeKnown(s, req, today)
BY SameWhole, SameRewritten, SameTodayTierKnown, SameTodayTierLots, SameFrozenOf, SameDrifts, SameUndatedKnown DEF
   S!FeeOf, O!FeeOf, S!TodayLots, O!TodayLots, S!LeavesFrozen, O!LeavesFrozen, S!FeeKnown, O!FeeKnown

LEMMA SameToHistory ==
  /\ \A s, inst, held, volume : S(rules)!ToHistory(s, inst, held, volume) = O!ToHistory(s, inst, held, volume)
BY SameDrifts, SameFrozenOf, SameFolds DEF S!ToHistory, O!ToHistory

LEMMA SameDatedTrade ==
  /\ \A tr : S(rules)!DatedTrade(tr) = O!DatedTrade(tr)
BY SameRewritten DEF S!DatedTrade, O!DatedTrade

LEMMA SameChargeKnown ==
  /\ \A s, req : S(rules)!Charge(s, req) = O!Charge(s, req)
  /\ \A s, req : S(rules)!ChargeKnown(s, req) = O!ChargeKnown(s, req)
BY SameFeeKnown, SameRewritten, SameTodayTierKnown DEF S!Charge, O!Charge, S!ChargeKnown, O!ChargeKnown

LEMMA SameHistoryPart ==
  /\ \A s, tr : S(rules)!HistoryPart(s, tr) = O!HistoryPart(s, tr)
BY SameToHistory, SameNoPrices DEF S!HistoryPart, O!HistoryPart

LEMMA SameCanSplit ==
  /\ \A s, inst, held, volume : S(rules)!CanSplit(s, inst, held, volume) = O!CanSplit(s, inst, held, volume)
BY SameToHistory, SameDrifts, SameFrozenOf, SameFolds DEF S!CanSplit, O!CanSplit

LEMMA SameTakenBy ==
  /\ \A s, tr : S(rules)!TakenBy(s, tr) = O!TakenBy(s, tr)
BY SameThenToday, SameDrift, SameNoPrices, SameHistoryPart DEF S!TakenBy, O!TakenBy

LEMMA SameCloseFits ==
  \A s, tr : S(rules)!CloseFits(s, tr) = O!CloseFits(s, tr)
<1> SUFFICES ASSUME NEW s, NEW tr PROVE S(rules)!CloseFits(s, tr) = O!CloseFits(s, tr)
  OBVIOUS
<1> DEFINE held == O!Opposite(tr.dir)
           dated == rules.contracts[tr.inst].dateType = "NoUseHistory"
<1>1. S(rules)!Opposite(tr.dir) = held
  BY SameNoPrices
<1> HIDE DEF held
<1>2. S(rules)!CloseFits(s, tr)
        = IF tr.offset = "Close" THEN dated /\ S(rules)!CanSplit(s, tr.inst, held, tr.volume)
          ELSE S(rules)!Closable(s.positions[tr.inst][held], tr.offset, tr.volume)
  BY <1>1 DEF S!CloseFits
<1>3. O!CloseFits(s, tr)
        = IF tr.offset = "Close" THEN dated /\ O!CanSplit(s, tr.inst, held, tr.volume)
          ELSE O!Closable(s.positions[tr.inst][held], tr.offset, tr.volume)
  BY DEF O!CloseFits, held
<1> HIDE DEF dated
<1>4. S(rules)!CanSplit(s, tr.inst, held, tr.volume) = O!CanSplit(s, tr.inst, held, tr.volume)
  BY SameCanSplit
<1>5. S(rules)!Closable(s.positions[tr.inst][held], tr.offset, tr.volume)
        = O!Closable(s.positions[tr.inst][held], tr.offset, tr.volume)
  BY SameDrift
<1>. QED
  BY <1>2, <1>3, <1>4, <1>5

LEMMA SameTakesFreeLots ==
  /\ \A s, tr : S(rules)!CloseProfit(s, tr) = O!CloseProfit(s, tr)
  /\ \A s, tr : S(rules)!TakesFreeLots(s, tr) = O!TakesFreeLots(s, tr)
BY SameLotDrift, SameTakenBy, SameNoPrices, SameCloseFits, SameFeeKnown DEF S!CloseProfit, O!CloseProfit,
   S!TakesFreeLots, O!TakesFreeLots

LEMMA SamePositionsAfter ==
  \A s, today, tr : S(rules)!PositionsAfter(s, today, tr) = O!PositionsAfter(s, today, tr)
<1> SUFFICES ASSUME NEW s, NEW today, NEW tr
             PROVE  S(rules)!PositionsAfter(s, today, tr) = O!PositionsAfter(s, today, tr)
  OBVIOUS
<1>1. /\ S(rules)!Opposite(tr.dir) = O!Opposite(tr.dir) /\ S(rules)!TakenBy(s, tr) = O!TakenBy(s, tr)
      /\ S(rules)!Lot(today, tr.price, tr.volume, tr.price, FALSE)
           = O!Lot(today, tr.price, tr.volume, tr.price, FALSE)
  BY SameNoPrices, SameTakenBy, SameRestorableSide
<1>. QED
  BY <1>1 DEF S!PositionsAfter, O!PositionsAfter

LEMMA SameRecorded ==
  \A s, today, tr, charge : S(rules)!Recorded(s, today, tr, charge) = O!Recorded(s, today, tr, charge)
<1> SUFFICES ASSUME NEW s, NEW today, NEW tr, NEW charge
             PROVE  S(rules)!Recorded(s, today, tr, charge) = O!Recorded(s, today, tr, charge)
  OBVIOUS
<1>1. /\ S(rules)!PositionsAfter(s, today, tr) = O!PositionsAfter(s, today, tr)
      /\ S(rules)!Booked(s, tr, charge.todayLots) = O!Booked(s, tr, charge.todayLots)
      /\ S(rules)!CloseProfit(s, tr) = O!CloseProfit(s, tr)
  BY SamePositionsAfter, SameRewritten, SameTakesFreeLots
<1> DEFINE moved == [s EXCEPT !.positions = O!PositionsAfter(s, today, tr),
                              !.quotas = O!Booked(s, tr, charge.todayLots)]
<1>2. S(rules)!Recorded(s, today, tr, charge)
        = S(rules)!Commit(moved, charge.fee, charge.atSettle, O!CloseProfit(s, tr))
  BY <1>1 DEF S!Recorded
<1>3. O!Recorded(s, today, tr, charge)
        = O!Commit(moved, charge.fee, charge.atSettle, O!CloseProfit(s, tr))
  BY DEF O!Recorded
<1> HIDE DEF moved
<1>. QED
  BY <1>2, <1>3, SameCommit

LEMMA SameDatedTradeFits ==
  /\ \A s, today, tr : S(rules)!DatedTradeFits(s, today, tr) = O!DatedTradeFits(s, today, tr)
BY SameTakesFreeLots, SameChargeKnown, SameValued, SamePositionsAfter DEF S!DatedTradeFits, O!DatedTradeFits

LEMMA SameTraded ==
  /\ \A s, today, request : S(rules)!Traded(s, today, request) = O!Traded(s, today, request)
BY SameRecorded, SameDatedTrade, SameChargeKnown DEF S!Traded, O!Traded

LEMMA SameCanTrade ==
  /\ \A s, today, request : S(rules)!CanTrade(s, today, request) = O!CanTrade(s, today, request)
BY SameDatedTradeFits, SameDatedTrade DEF S!CanTrade, O!CanTrade

\* Orders (place.go).
LEMMA SameTradeOf ==
  /\ \A request, margin, commission, today, history : S(rules)!OrderFreezing(request, margin, commission, today, history) = O!OrderFreezing(request, margin, commission, today, history)
  /\ \A s, req : S(rules)!FreezePrice(s, req) = O!FreezePrice(s, req)
  /\ \A order : S(rules)!TradeOf(order) = O!TradeOf(order)
BY DEF S!OrderFreezing, O!OrderFreezing, S!FreezePrice, O!FreezePrice, S!TradeOf, O!TradeOf

LEMMA SameWithOrder ==
  /\ \A s, id, order : S(rules)!WithOrder(s, id, order) = O!WithOrder(s, id, order)
BY SameAlgorithms, SameReinsert DEF S!WithOrder, O!WithOrder

LEMMA SameCoverable ==
  /\ \A s, order : S(rules)!Coverable(s, order) = O!Coverable(s, order)
BY SameNoPrices, SameFrozenOf, SameDrifts DEF S!Coverable, O!Coverable

LEMMA SameReleased ==
  /\ \A s, id : S(rules)!Released(s, id) = O!Released(s, id)
BY SameAlgorithms, SameArchivedBook DEF S!Released, O!Released

LEMMA SameCanRelease ==
  /\ \A s, id : S(rules)!CanRelease(s, id) = O!CanRelease(s, id)
BY SameRestorableBook, SameAlgorithms DEF S!CanRelease, O!CanRelease

LEMMA SamePutBack ==
  \A s, id, entry : S(rules)!PutBack(s, id, entry) = O!PutBack(s, id, entry)
<1> SUFFICES ASSUME NEW s, NEW id, NEW entry PROVE S(rules)!PutBack(s, id, entry) = O!PutBack(s, id, entry)
  OBVIOUS
<1> DEFINE acc == O!A!WithFrozen(s.acc, entry.order.margin, entry.order.commission)
           frozen == [s EXCEPT !.acc = acc]
           fits == O!A!CanFreeze(s.acc, entry.order.margin, entry.order.commission)
           back == O!B!CanReinsert(s.book, id, entry.sequence)
           book == O!B!Reinsert(frozen.book, id, entry)
<1>1. /\ S(rules)!A!WithFrozen(s.acc, entry.order.margin, entry.order.commission) = acc
      /\ S(rules)!A!CanFreeze(s.acc, entry.order.margin, entry.order.commission) = fits
      /\ S(rules)!B!CanReinsert(s.book, id, entry.sequence) = back
      /\ S(rules)!B!Reinsert(frozen.book, id, entry) = book
  BY SameAlgorithms, SameRestorableAccount, SameReinsert
<1>2. S(rules)!PutBack(s, id, entry)
        = IF ~fits THEN [s EXCEPT !.broken = TRUE]
          ELSE IF back THEN [frozen EXCEPT !.book = book] ELSE [frozen EXCEPT !.broken = TRUE]
  BY <1>1 DEF S!PutBack
<1>3. O!PutBack(s, id, entry)
        = IF ~fits THEN [s EXCEPT !.broken = TRUE]
          ELSE IF back THEN [frozen EXCEPT !.book = book] ELSE [frozen EXCEPT !.broken = TRUE]
  BY DEF O!PutBack
<1>. QED
  BY <1>2, <1>3

LEMMA SameOrderMargin ==
  /\ \A s, req : S(rules)!OrderMargin(s, req) = O!OrderMargin(s, req)
BY SameCompany, SameTradeOf DEF S!OrderMargin, O!OrderMargin

LEMMA SameCanHold ==
  /\ \A s, order : S(rules)!CanHold(s, order) = O!CanHold(s, order)
BY SameCoverable, SameRestorableAccount DEF S!CanHold, O!CanHold

LEMMA SameCanFreezeOrder ==
  /\ \A s, request : S(rules)!FrozenOrder(s, request) = O!FrozenOrder(s, request)
  /\ \A s, request : S(rules)!CanFreezeOrder(s, request) = O!CanFreezeOrder(s, request)
BY SameDatedTrade, SameTradeOf, SameOrderMargin, SameChargeKnown, SameHistoryPart, SameCanSplit, SameNoPrices DEF
   S!FrozenOrder, O!FrozenOrder, S!CanFreezeOrder, O!CanFreezeOrder

LEMMA SameCanPlace ==
  /\ \A s, id, request : S(rules)!Placed(s, id, request) = O!Placed(s, id, request)
  /\ \A s, id, request : S(rules)!CanPlace(s, id, request) = O!CanPlace(s, id, request)
BY SameWithOrder, SameCanFreezeOrder, SameRewritten, SameCanHold, SameReinsert DEF S!Placed, O!Placed, S!CanPlace,
   O!CanPlace

\* The evening (settle.go).
LEMMA SameNextPrices ==
  /\ \A s, price : S(rules)!SettlementPrices(s, price) = O!SettlementPrices(s, price)
  /\ \A s, price : S(rules)!NextPrices(s, price) = O!NextPrices(s, price)
BY SameHeld, SameNoPrices DEF S!SettlementPrices, O!SettlementPrices, S!NextPrices, O!NextPrices

LEMMA SameNewSimulator ==
  /\ \A preBalance : S(rules)!NewSimulator(preBalance) = O!NewSimulator(preBalance)
BY SameAlgorithms, SameSides, SameNoPrices, SameRestorableBook, SameQuotaType DEF S!NewSimulator, O!NewSimulator

LEMMA SameRolled ==
  /\ \A s, price : S(rules)!Rolled(s, price) = O!Rolled(s, price)
BY SameNoPrices, SameRestorableSide DEF S!Rolled, O!Rolled

LEMMA SameEvening ==
  \A s, price : S(rules)!EveningAccount(s, price) = O!EveningAccount(s, price)
BY SameRevalued, SameNextPrices DEF S!EveningAccount, O!EveningAccount

LEMMA SameNextMorning ==
  \A s, price : S(rules)!NextMorning(s, price) = O!NextMorning(s, price)
<1> SUFFICES ASSUME NEW s, NEW price PROVE S(rules)!NextMorning(s, price) = O!NextMorning(s, price)
  OBVIOUS
<1> DEFINE evening == O!EveningAccount(s, price)
           rolled == O!Rolled(s, price)
           next == O!NextPrices(s, price)
           fresh == O!NewSimulator(0)
           acc == O!Revalued(O!A!SettledAccount(evening), rolled, next)
<1>1. /\ S(rules)!EveningAccount(s, price) = evening
      /\ S(rules)!Rolled(s, price) = rolled /\ S(rules)!NextPrices(s, price) = next
      /\ S(rules)!NewSimulator(0) = fresh
  BY SameEvening, SameNextPrices, SameRolled, SameNewSimulator
<1>2. O!NextMorning(s, price)
        = [fresh EXCEPT !.acc = acc, !.positions = rolled, !.prices = next, !.book = s.book]
  BY DEF O!NextMorning
<1> HIDE DEF evening, rolled, next, fresh
<1>3. S(rules)!Revalued(S(rules)!A!SettledAccount(evening), rolled, next) = acc
  BY SameRevalued, SameArchiveType
<1> HIDE DEF acc
<1>4. S(rules)!NextMorning(s, price)
        = [fresh EXCEPT !.acc = acc, !.positions = rolled, !.prices = next, !.book = s.book]
  BY <1>1, <1>3 DEF S!NextMorning
<1>. QED
  BY <1>2, <1>4

LEMMA SameAccountSettles ==
  \A s, price : S(rules)!AccountSettles(s, price) = O!AccountSettles(s, price)
<1>1. /\ \A company, exchange : S(rules)!A!CanSetMargin(company, exchange) = O!A!CanSetMargin(company, exchange)
      /\ \A a : S(rules)!A!CanSettleAccount(a) = O!A!CanSettleAccount(a)
      /\ \A a : S(rules)!A!Check(a) = O!A!Check(a)
  BY SameAlgorithms, SameRestorableAccount DEF S!A!CanSetMargin, O!A!CanSetMargin, S!A!CanSettleAccount,
     O!A!CanSettleAccount, S!A!Check, O!A!Check, S!A!Distance, O!A!Distance
<1>. QED
  BY <1>1, SameEvening, SameNextMorning DEF S!AccountSettles, O!AccountSettles,
     S!AccountPasses, O!AccountPasses

LEMMA SameSettled ==
  \A s, price : S(rules)!Settled(s, price) = O!Settled(s, price)
BY SameAccountSettles, SameNextMorning DEF S!Settled, O!Settled

LEMMA SameCanSettle ==
  /\ \A s, price : S(rules)!CanSettle(s, price) = O!CanSettle(s, price)
BY SameRestorableBook, SameAlgorithms, SameValued, SameNextPrices, SameRolled DEF S!CanSettle, O!CanSettle

\* What makes a simulator sound (state.go).
LEMMA SameOrdersMean ==
  /\ S(rules)!SimFields = O!SimFields
  /\ S(rules)!AccountFields = O!AccountFields
  /\ \A today, positions : S(rules)!PositionsTyped(today, positions) = O!PositionsTyped(today, positions)
  /\ S(rules)!PricesType = O!PricesType
  /\ S(rules)!Offsets = O!Offsets
  /\ S(rules)!QuotasType = O!QuotasType
  /\ \A a : S(rules)!BookedMoney(a) = O!BookedMoney(a)
  /\ \A s : S(rules)!FrozenFits(s) = O!FrozenFits(s)
  /\ \A s : S(rules)!HeldFits(s) = O!HeldFits(s)
  /\ \A a : S(rules)!Healthy(a) = O!Healthy(a)
  /\ \A book : S(rules)!Numbered(book) = O!Numbered(book)
  /\ \A order : S(rules)!AmountsTyped(order) = O!AmountsTyped(order)
  /\ \A s : S(rules)!Told(s) = O!Told(s)
  /\ \A q, lots : S(rules)!SideQuota(q, lots) = O!SideQuota(q, lots)
  /\ \A s : S(rules)!RestorableQuotas(s) = O!RestorableQuotas(s)
  /\ S(rules)!LotType = O!LotType
  /\ \A s : S(rules)!OrdersMean(s) = O!OrdersMean(s)
<1>1. S(rules)!SimFields = O!SimFields
  BY DEF S!SimFields, O!SimFields
<1>2. S(rules)!AccountFields = O!AccountFields
  BY DEF S!AccountFields, O!AccountFields
<1>3. \A today, positions : S(rules)!PositionsTyped(today, positions) = O!PositionsTyped(today, positions)
  BY SameNoPrices, SameRestorableSide, SameAlgorithms, SameArchiveType, SameAccountOf DEF S!PositionsTyped,
     O!PositionsTyped
<1>4. S(rules)!PricesType = O!PricesType
  BY DEF S!PricesType, O!PricesType
<1>5. S(rules)!Offsets = O!Offsets
  BY DEF S!Offsets, O!Offsets
<1>6. S(rules)!QuotasType = O!QuotasType
  BY SameNoPrices, SameQuotaType DEF S!QuotasType, O!QuotasType
<1>7. \A a : S(rules)!BookedMoney(a) = O!BookedMoney(a)
  BY SameAlgorithms, SameArchiveType, SameAccountOf DEF S!BookedMoney, O!BookedMoney
<1>8. \A s : S(rules)!FrozenFits(s) = O!FrozenFits(s)
  BY SameNoPrices, SameAlgorithms, SameFeeKnown, SameArchiveType, SameAccountOf DEF S!FrozenFits, O!FrozenFits
<1>9. \A a : S(rules)!Healthy(a) = O!Healthy(a)
  BY SameAlgorithms, SameArchiveType, SameAccountOf DEF S!Healthy, O!Healthy
<1>10. \A book : S(rules)!Numbered(book) = O!Numbered(book)
  BY SameAlgorithms, SameArchiveType, SameAccountOf, SameRestorableBook DEF S!Numbered, O!Numbered
<1>11. \A order : S(rules)!AmountsTyped(order) = O!AmountsTyped(order)
  BY DEF S!AmountsTyped, O!AmountsTyped
<1>12. \A s : S(rules)!Told(s) = O!Told(s)
  BY SameHeldMargin DEF S!Told, O!Told
<1>13. \A q, lots : S(rules)!SideQuota(q, lots) = O!SideQuota(q, lots)
  BY SameDrifts DEF S!SideQuota, O!SideQuota
<1>14. \A s : S(rules)!RestorableQuotas(s) = O!RestorableQuotas(s)
  BY SameNoPrices, SameAlgorithms, SameArchiveType, SameAccountOf, SameDrifts DEF S!RestorableQuotas,
     O!RestorableQuotas
<1>15. S(rules)!LotType = O!LotType
  BY DEF S!LotType, O!LotType
<1>16. \A s : S(rules)!OrdersMean(s) = O!OrdersMean(s)
  BY SameAlgorithms, SameArchiveType, SameAccountOf, SameRestorableBook, SameDatedTrade, SameTradeOf, SameHeld DEF
     S!OrdersMean, O!OrdersMean
<1>17. \A s : S(rules)!HeldFits(s) = O!HeldFits(s)
  BY SameHeld, SameNoPrices, SameAlgorithms, SameFeeKnown, SameArchiveType, SameAccountOf DEF S!HeldFits, O!HeldFits
<1>. QED
  BY <1>1, <1>2, <1>3, <1>4, <1>5, <1>6, <1>7, <1>8, <1>9, <1>10, <1>11, <1>12, <1>13, <1>14, <1>15, <1>16, <1>17

LEMMA SameCarried ==
  /\ \A positions : S(rules)!Carried(positions) = O!Carried(positions)
BY SameSides, SameDrift, SameFolds DEF S!Carried, O!Carried

LEMMA SameOrderLots ==
  /\ \A order : S(rules)!OrderLots(order) = O!OrderLots(order)
BY SameDatedTrade, SameTradeOf DEF S!OrderLots, O!OrderLots

LEMMA SameFrozenTotal ==
  /\ \A book : S(rules)!FrozenTotal(book) = O!FrozenTotal(book)
BY SameRestorableBook, SameFolds DEF S!FrozenTotal, O!FrozenTotal

LEMMA SameRestorableOrder ==
  /\ \A s, order : S(rules)!RestorableOrder(s, order) = O!RestorableOrder(s, order)
BY SameTradeOf, SameDatedTrade, SameCanFreezeOrder, SameRewritten, SameFeeKnown DEF S!RestorableOrder,
   O!RestorableOrder

LEMMA SameOrderType ==
  /\ \A a : S(rules)!AccountTyped(a) = O!AccountTyped(a)
  /\ S(rules)!TradeType = O!TradeType
  /\ \A s, c : S(rules)!Balanced(s, c) = O!Balanced(s, c)
  /\ \A s : S(rules)!Covered(s) = O!Covered(s)
  /\ \A s : S(rules)!Funded(s) = O!Funded(s)
  /\ \A s : S(rules)!FrozenAgrees(s) = O!FrozenAgrees(s)
  /\ \A s : S(rules)!OrdersRestorable(s) = O!OrdersRestorable(s)
  /\ \A s : S(rules)!QuotasHold(s) = O!QuotasHold(s)
  /\ S(rules)!OrderType = O!OrderType
<1>1. \A a : S(rules)!AccountTyped(a) = O!AccountTyped(a)
  BY SameOrdersMean DEF S!AccountTyped, O!AccountTyped
<1>2. S(rules)!TradeType = O!TradeType
  BY SameOrdersMean, SameNoPrices DEF S!TradeType, O!TradeType
<1>3. \A s, c : S(rules)!Balanced(s, c) = O!Balanced(s, c)
  BY SameOrdersMean, SameProfit, SameCarried DEF S!Balanced, O!Balanced
<1>4. \A s : S(rules)!Covered(s) = O!Covered(s)
  BY SameOrdersMean, SameRestorableBook, SameOrderLots DEF S!Covered, O!Covered
<1>5. \A s : S(rules)!Funded(s) = O!Funded(s)
  BY SameOrdersMean, SameRestorableBook DEF S!Funded, O!Funded
<1>6. \A s : S(rules)!FrozenAgrees(s) = O!FrozenAgrees(s)
  BY SameFrozenTotal DEF S!FrozenAgrees, O!FrozenAgrees
<1>7. \A s : S(rules)!OrdersRestorable(s) = O!OrdersRestorable(s)
  BY SameRestorableBook, SameRestorableOrder DEF S!OrdersRestorable, O!OrdersRestorable
<1>8. \A s : S(rules)!QuotasHold(s) = O!QuotasHold(s)
  BY SameOrdersMean, SameNoPrices DEF S!QuotasHold, O!QuotasHold
<1>9. S(rules)!OrderType = O!OrderType
  BY SameOrdersMean, SameNoPrices DEF S!OrderType, O!OrderType
<1>. QED
  BY <1>1, <1>2, <1>3, <1>4, <1>5, <1>6, <1>7, <1>8, <1>9

LEMMA SameReadable ==
  /\ \A order : S(rules)!OrderTyped(order) = O!OrderTyped(order)
  /\ \A s : S(rules)!Archivable(s) = O!Archivable(s)
  /\ \A s, today : S(rules)!RestorableRest(s, today) = O!RestorableRest(s, today)
  /\ \A s : S(rules)!Readable(s) = O!Readable(s)
BY SameTradeOf, SameOrderType, SameOrdersMean, SameValued, SameNoPrices, SameRestorableSide, SameRestorableBook,
   SameArchivedBook, SameRestorableOrder, SameRevalued, SameArchiveType, SameFolds DEF S!OrderTyped, O!OrderTyped,
   S!Archivable, O!Archivable, S!RestorableRest, O!RestorableRest, S!Readable, O!Readable

LEMMA SameRestorable ==
  /\ \A book : S(rules)!BookTyped(book) = O!BookTyped(book)
  /\ \A s, today : S(rules)!Restorable(s, today) = O!Restorable(s, today)
BY SameRestorableBook, SameReadable, SameFolds, SameRestorableAccount, SameOrdersMean DEF S!BookTyped, O!BookTyped,
   S!Restorable, O!Restorable

LEMMA SameSimTyped ==
  /\ \A today, s : S(rules)!SimTyped(today, s) = O!SimTyped(today, s)
BY SameOrdersMean, SameOrderType, SameRestorable DEF S!SimTyped, O!SimTyped

LEMMA SameGood ==
  /\ \A today, s, c : S(rules)!Good(today, s, c) = O!Good(today, s, c)
BY SameSimTyped, SameOrderType DEF S!Good, O!Good

LEMMA SameReady ==
  /\ \A today, s, c : S(rules)!Ready(today, s, c) = O!Ready(today, s, c)
BY SameGood, SameOrderType, SameReadable DEF S!Ready, O!Ready

LEMMA SameSound ==
  /\ \A today, s : S(rules)!Sound(today, s) = O!Sound(today, s)
BY SameReady DEF S!Sound, O!Sound

-----------------------------------------------------------------------------
(* What a client's simulator is, day after day (simulator.go, lifecycle.go). *)

\* Rules of finitely many contracts, each with its types.
RulesOf(r) ==
  /\ IsFiniteSet(DOMAIN r.contracts)
  /\ \A i \in DOMAIN r.contracts : ContractHolds(r.contracts[i]) /\ MarginHolds(r.contracts[i])

\* The rules in force are rules.
RulesHold == RulesOf(rules)

\* What the facade asks of its constants (simulator.go New).
LEMMA FacadeRules ==
  ASSUME RulesHold
  PROVE  /\ O!ContractTyped /\ O!SimulatorChoices /\ O!InstrumentsFinite /\ O!CentPositive /\ O!FeeChoices
         /\ O!MarginChoices
<1>1. O!ContractTyped
  BY DEF RulesHold, RulesOf, ContractHolds, MarginHolds, RateType, Instruments, O!ContractTyped
<1>2. O!SimulatorChoices /\ O!FeeChoices /\ O!MarginChoices
  BY ChoicesAssumption DEF O!SimulatorChoices, O!FeeChoices, O!MarginChoices
<1>3. O!InstrumentsFinite
  BY DEF O!InstrumentsFinite, RulesHold, RulesOf, Instruments, O!IsFiniteSet, IsFiniteSet
<1>4. O!CentPositive
  BY CentAssumption DEF O!CentPositive
<1>. QED
  BY <1>1, <1>2, <1>3, <1>4

\* A quote leaves a sound simulator (simulator.go Mark).
LEMMA MarkIsSound ==
  ASSUME RulesHold, NEW s, S(rules)!Sound(day, s), NEW inst \in Instruments,
         NEW quote \in [last : Nat, pre : Nat], S(rules)!CanMark(s, inst, quote)
  PROVE  S(rules)!Sound(day, S(rules)!Marked(s, inst, quote))
<1>1. O!Sound(day, s)
  BY SameSound
<1>2. O!CanMark(s, inst, quote)
  BY SameCanMark
<1>3. O!Sound(day, O!Marked(s, inst, quote))
  BY <1>1, <1>2, FacadeRules, O!MarkSound DEF Instruments
<1>. QED
  BY <1>3, SameSound, SameCanMark

\* A trade leaves a sound simulator (trade.go ApplyTrade).
LEMMA TradeIsSound ==
  ASSUME RulesHold, day \in Int, NEW s, S(rules)!Sound(day, s), NEW request \in S(rules)!TradeType,
         S(rules)!CanTrade(s, day, request), ~S(rules)!Traded(s, day, request).broken
  PROVE  S(rules)!Sound(day, S(rules)!Traded(s, day, request))
<1>1. O!Sound(day, s)
  BY SameSound
<1>2. O!CanTrade(s, day, request) /\ S(rules)!Traded(s, day, request) = O!Traded(s, day, request)
  BY SameCanTrade, SameTraded
<1>3. request \in O!TradeType
  BY SameOrderType
<1>4. ~O!Traded(s, day, request).broken
  BY <1>2
<1>5. O!Sound(day, O!Traded(s, day, request))
  BY <1>1, <1>2, <1>3, <1>4, FacadeRules, O!TradeSound
<1>. QED
  BY <1>2, <1>5, SameSound

\* A placed order leaves a sound simulator (place.go Place).
LEMMA PlaceIsSound ==
  ASSUME RulesHold, NEW s, S(rules)!Sound(day, s), NEW id, NEW request \in S(rules)!TradeType,
         S(rules)!CanPlace(s, id, request)
  PROVE  S(rules)!Sound(day, S(rules)!Placed(s, id, request))
<1>1. O!Sound(day, s)
  BY SameSound
<1>2. O!CanPlace(s, id, request) /\ S(rules)!Placed(s, id, request) = O!Placed(s, id, request)
  BY SameCanPlace
<1>3. request \in O!TradeType
  BY SameOrderType
<1>4. O!Sound(day, O!Placed(s, id, request))
  BY <1>1, <1>2, <1>3, FacadeRules, O!PlaceSound
<1>. QED
  BY <1>2, <1>4, SameSound

\* A released order leaves a sound simulator (place.go Cancel).
LEMMA ReleaseIsSound ==
  ASSUME RulesHold, NEW s, S(rules)!Sound(day, s), NEW id, S(rules)!CanRelease(s, id)
  PROVE  /\ S(rules)!Sound(day, S(rules)!Released(s, id))
         /\ LET after == S(rules)!PutBack(S(rules)!Released(s, id), id, s.book.live[id]) IN
              ~after.broken => S(rules)!Sound(day, after)
<1>. DEFINE freed == O!Released(s, id)
            after == O!PutBack(freed, id, s.book.live[id])
<1>1. O!Sound(day, s)
  BY SameSound
<1>2. O!CanRelease(s, id) /\ S(rules)!Released(s, id) = freed
  BY SameCanRelease, SameReleased
<1>3. S(rules)!PutBack(freed, id, s.book.live[id]) = after
  BY SamePutBack
<1>4. O!Sound(day, freed) /\ (~after.broken => O!Sound(day, after))
  BY <1>1, <1>2, FacadeRules, O!ReleaseSound
<1>. QED
  BY <1>2, <1>3, <1>4, SameSound

\* An evening leaves a sound simulator (settle.go Settle).
LEMMA SettleIsSound ==
  ASSUME RulesHold, day \in Int, NEW s, S(rules)!Sound(day, s), NEW later \in Int, later > day,
         NEW price \in [Instruments -> Nat \ {0}], S(rules)!CanSettle(s, price)
  PROVE  S(rules)!Sound(later, S(rules)!Settled(s, price))
<1>1. O!Sound(day, s)
  BY SameSound
<1>2. O!CanSettle(s, price) /\ S(rules)!Settled(s, price) = O!Settled(s, price)
  BY SameCanSettle, SameSettled
<1>3. price \in O!SettlementType
  BY DEF O!SettlementType, Instruments
<1>4. O!Sound(later, O!Settled(s, price))
  BY <1>1, <1>2, <1>3, FacadeRules, O!SettleSound
<1>. QED
  BY <1>2, <1>4, SameSound

\* Deposits and withdrawals are the same (simulator.go).
LEMMA SamePayments ==
  /\ \A a, amount : O!A!Deposited(a, amount) = A!Deposited(a, amount)
  /\ \A a, amount : O!A!Withdrawn(a, amount) = A!Withdrawn(a, amount)
  /\ \A amount : O!A!CanDeposit(amount) = A!CanDeposit(amount)
  /\ \A a, amount : O!A!CanWithdraw(a, amount) = A!CanWithdraw(a, amount)
  /\ \A a, margin, commission : O!A!CanFreeze(a, margin, commission) = A!CanFreeze(a, margin, commission)
BY DEF O!A!Deposited, A!Deposited, O!A!Withdrawn, A!Withdrawn, O!A!CanDeposit, A!CanDeposit, O!A!CanWithdraw,
   A!CanWithdraw, O!A!CanFreeze, A!CanFreeze, O!A!Available, A!Available, O!A!Balance, A!Balance, O!A!StaticBalance,
   A!StaticBalance, O!A!Excluded, A!Excluded

\* A payment leaves a sound simulator (simulator.go Deposit, Withdraw).
LEMMA PaymentIsSound ==
  ASSUME RulesHold, NEW s, S(rules)!Sound(day, s), NEW amount \in Int
  PROVE  /\ A!CanDeposit(amount) => S(rules)!Sound(day, [s EXCEPT !.acc = A!Deposited(@, amount)])
         /\ A!CanWithdraw(s.acc, amount) => S(rules)!Sound(day, [s EXCEPT !.acc = A!Withdrawn(@, amount)])
<1>1. O!Sound(day, s)
  BY SameSound
<1>2. /\ O!A!CanDeposit(amount) => O!Sound(day, [s EXCEPT !.acc = O!A!Deposited(@, amount)])
      /\ O!A!CanWithdraw(s.acc, amount) => O!Sound(day, [s EXCEPT !.acc = O!A!Withdrawn(@, amount)])
  BY <1>1, FacadeRules, O!PaymentSound
<1>. QED
  BY <1>2, SamePayments, SameSound

\* What can be restored is sound (state.go Restore).
LEMMA RestoredIsSound ==
  ASSUME RulesHold, day \in Int, NEW s, ~s.broken, S(rules)!Readable(s), S(rules)!OrdersMean(s),
         S(rules)!Restorable(s, day)
  PROVE  S(rules)!Sound(day, s)
<1>1. O!Readable(s) /\ O!OrdersMean(s) /\ O!Restorable(s, day)
  BY SameReadable, SameOrdersMean, SameRestorable
<1>2. O!Ready(day, s, O!BookedMoney(s.acc) - O!Carried(s.positions))
  BY <1>1, FacadeRules, O!RestoredReady
<1>3. O!Sound(day, s)
  BY <1>2 DEF O!Sound
<1>. QED
  BY <1>3, SameSound

\* An accepted request passed every check that it needed (order/order.go Validate).
LEMMA AcceptedPasses ==
  ASSUME NEW req, NEW facts, OK(req, facts)
  PROVE  /\ ~(req.volume <= 0)
         /\ \A c \in Checks : Checkable(req, facts)[c] /\ Passes(req, facts)[c]
<1>1. ~(req.volume <= 0)
  BY DEF OK, Rejected
<1>2. Rejecting(req, facts) = {}
  <2>. SUFFICES ASSUME Rejecting(req, facts) # {} PROVE FALSE
    OBVIOUS
  <2>1. Rejecting(req, facts) \in SUBSET Checks
    BY DEF Rejecting
  <2>2. First(Rejecting(req, facts)) \in Checks
    BY <2>1, FirstIs
  <2>3. First(Rejecting(req, facts)) = "None"
    BY <1>1, Zenon DEF OK, Rejected
  <2>. QED
    BY <2>2, <2>3 DEF Checks
<1>3. Unchecked(req, facts) = {}
  BY Zenon DEF OK
<1>4. \A c \in Checks : Checkable(req, facts)[c]
  BY <1>1, <1>3, Zenon DEF Unchecked
<1>5. \A c \in Checks : Passes(req, facts)[c]
  BY <1>2, Zenon DEF Rejecting
<1>. QED
  BY <1>1, <1>4, <1>5

\* A close that passes the checks leaves to every live order what it froze (order/order.go).
LEMMA AcceptedClosable ==
  ASSUME NEW req, NEW facts, OK(req, facts), req.offset # "Open"
  PROVE  ClosableLots(req, facts.position[Against(req.dir)], facts.frozen, facts.position.dateType)
<1>1. "Closable" \in Checks
  BY DEF Checks
<1>2. Checkable(req, facts)["Closable"] /\ Passes(req, facts)["Closable"]
  BY <1>1, AcceptedPasses
<1>. QED
  BY <1>2, Zenon DEF Passes

\* What a valid request becomes (submit.go validate).
LEMMA ValidTyped ==
  ASSUME NEW s, NEW at, NEW request, RequestHolds(request), Valid(s, at, request)
  PROVE  request \in O!TradeType /\ request \in S(rules)!TradeType
<1>1. ~(Effective(s, request).volume <= 0)
  BY AcceptedPasses DEF Valid
<1>2. Effective(s, request).volume = request.volume
  <2>. DEFINE o == S(rules)!Rewritten(request)
  <2>1. o.volume = request.volume
    BY DEF S!Rewritten, RequestHolds
  <2>2. S(rules)!DatedTrade(o).volume = o.volume
    <3>1. DOMAIN o = {"inst", "dir", "offset", "price", "volume"}
      BY DEF S!Rewritten, RequestHolds
    <3>. HIDE DEF o
    <3>. QED
      BY <3>1 DEF S!DatedTrade
  <2>. QED
    BY <2>1, <2>2 DEF Effective
<1>3. request.inst \in Instruments
  BY DEF Valid
<1>4. request \in O!TradeType
  BY <1>1, <1>2, <1>3 DEF RequestHolds, Instruments, O!TradeType, O!Directions, O!Offsets
<1>. QED
  BY <1>4, SameOrderType

\* An offset is rewritten once (simulator.go).
LEMMA DatedOnce ==
  ASSUME NEW request \in O!TradeType
  PROVE  O!DatedTrade(O!DatedTrade(request)) = O!DatedTrade(request)
<1>1. O!Dated(request.inst, O!Dated(request.inst, request.offset)) = O!Dated(request.inst, request.offset)
  BY DEF O!Dated
<1>2. DOMAIN request = {"inst", "dir", "offset", "price", "volume"}
  BY DEF O!TradeType
<1>3. /\ O!DatedTrade(request).inst = request.inst
      /\ O!DatedTrade(request).offset = O!Dated(request.inst, request.offset)
      /\ DOMAIN O!DatedTrade(request) = {"inst", "dir", "offset", "price", "volume"}
  BY <1>2 DEF O!DatedTrade
<1>4. O!DatedTrade(request) = [request EXCEPT !.offset = O!Dated(request.inst, request.offset)]
  BY DEF O!DatedTrade
<1>. QED
  BY <1>1, <1>2, <1>3, <1>4 DEF O!DatedTrade

\* What is validated is what is frozen (submit.go FreezeOf).
LEMMA SameEffective ==
  ASSUME RulesHold, NEW s, NEW request, request \in O!TradeType
  PROVE  /\ O!Rewritten(request) \in O!TradeType
         /\ Effective(s, request) = O!DatedTrade(O!Rewritten(request))
         /\ O!CanFreezeOrder(s, Effective(s, request)) = O!CanFreezeOrder(s, O!Rewritten(request))
<1>. DEFINE o == O!Rewritten(request)
<1>1. o \in O!TradeType
  BY FacadeRules, O!DatedTyped
<1>2. Effective(s, request) = O!DatedTrade(o)
  BY SameDatedTrade, SameRewritten DEF Effective
<1>3. O!DatedTrade(O!DatedTrade(o)) = O!DatedTrade(o)
  BY <1>1, DatedOnce
<1>4. O!CanFreezeOrder(s, O!DatedTrade(o)) = O!CanFreezeOrder(s, o)
  BY <1>3 DEF O!CanFreezeOrder
<1>. QED
  BY <1>1, <1>2, <1>4

\* Lots that pass the checks are free (submit.go validate, order/order.go checkClosable).
LEMMA AcceptedLots ==
  ASSUME RulesHold, NEW s, S(rules)!Sound(day, s), NEW at, NEW request, RequestHolds(request),
         Valid(s, at, request)
  PROVE  LET o    == O!Rewritten(request)
             req  == O!DatedTrade(o)
             lots == s.positions[req.inst][O!Opposite(req.dir)]
             frozen == O!FrozenOf(s.book, req.inst, O!Opposite(req.dir))
         IN  /\ o \in O!TradeType /\ O!CanFreezeOrder(s, o)
             /\ O!SimTyped(day, s) /\ O!Covered(s)
             /\ req.offset = "CloseToday" => req.volume <= O!VolumeToday(lots) - frozen.today
             /\ req.offset = "CloseYesterday" => req.volume <= O!VolumeHistory(lots) - frozen.history
<1>. DEFINE o     == O!Rewritten(request)
            req   == O!DatedTrade(o)
            need  == Need(S(rules)!FrozenOrder(s, Effective(s, request)))
            held  == O!Opposite(req.dir)
            lots  == s.positions[req.inst][held]
            frozen == O!FrozenOf(s.book, req.inst, held)
<1>1. /\ request \in O!TradeType /\ o \in O!TradeType /\ Effective(s, request) = req
      /\ O!CanFreezeOrder(s, req) = O!CanFreezeOrder(s, o)
  BY ValidTyped, SameEffective
<1>2. O!CanFreezeOrder(s, o)
  BY <1>1, SameCanFreezeOrder DEF Valid
<1>3. O!Sound(day, s)
  BY SameSound
<1>4. PICK c : O!Ready(day, s, c)
  BY <1>3 DEF O!Sound
<1>5. O!SimTyped(day, s) /\ O!Covered(s)
  BY <1>4, FacadeRules, O!SoundParts
<1>6. req \in O!TradeType /\ req.inst \in Instruments
  <2>1. req \in O!TradeType
    BY <1>1, FacadeRules, O!DatedTyped
  <2>. QED
    BY <2>1 DEF O!TradeType, Instruments
<1>7. OK(req, Facts(s, at, req, need))
  BY <1>1 DEF Valid
<1>8. /\ req.offset = "CloseToday" => req.volume <= O!VolumeToday(lots) - frozen.today
      /\ req.offset = "CloseYesterday" => req.volume <= O!VolumeHistory(lots) - frozen.history
  <2>. SUFFICES ASSUME req.offset # "Open"
                PROVE  /\ req.offset = "CloseToday" => req.volume <= O!VolumeToday(lots) - frozen.today
                       /\ req.offset = "CloseYesterday" => req.volume <= O!VolumeHistory(lots) - frozen.history
    <3>. HIDE DEF req, lots, frozen
    <3>. QED
      BY SMT
  <2>. DEFINE facts == Facts(s, at, req, need)
  <2>1. ClosableLots(req, facts.position[Against(req.dir)], facts.frozen, facts.position.dateType)
    <3>. HIDE DEF req, facts
    <3>. QED
      BY <1>7, AcceptedClosable DEF facts
  <2>2. Against(req.dir) = held /\ held \in {"Buy", "Sell"}
    BY <1>6 DEF Against, O!Opposite, O!TradeType, O!Directions
  <2>3. facts.position[held] = LotsOf(lots)
    <3>. HIDE DEF req, lots, need
    <3>1. facts.position = [dateType |-> rules.contracts[req.inst].dateType,
                            Buy |-> LotsOf(s.positions[req.inst]["Buy"]),
                            Sell |-> LotsOf(s.positions[req.inst]["Sell"])]
      BY Zenon DEF Facts
    <3>2. /\ facts.position["Buy"] = LotsOf(s.positions[req.inst]["Buy"])
          /\ facts.position["Sell"] = LotsOf(s.positions[req.inst]["Sell"])
      <4>. HIDE DEF facts
      <4>. QED
        BY <3>1
    <3>. HIDE DEF held, facts
    <3>. QED
      BY <2>2, <3>2 DEF lots
  <2>4. LotsOf(lots).today = O!VolumeToday(lots) /\ LotsOf(lots).history = O!VolumeHistory(lots)
    <3>. HIDE DEF lots
    <3>. QED
      BY SameDrifts, SameKept, SameTodayTierLots DEF LotsOf
  <2>5. facts.frozen = frozen
    <3>1. facts.frozen = FrozenClose(s, req)
      <4>. HIDE DEF req, need
      <4>. QED
        BY Zenon DEF Facts
    <3>2. FrozenClose(s, req) = S(rules)!FrozenOf(s.book, req.inst, Against(req.dir))
      <4>. HIDE DEF req
      <4>. QED
        BY DEF FrozenClose
    <3>. QED
      BY <3>1, <3>2, <2>2, SameFrozenOf
  <2>6. /\ req.offset = "CloseToday" => req.volume <= LotsOf(lots).today - frozen.today
        /\ req.offset = "CloseYesterday" => req.volume <= LotsOf(lots).history - frozen.history
    <3>1. ClosableLots(req, LotsOf(lots), frozen, facts.position.dateType)
      BY <2>1, <2>2, <2>3, <2>5
    <3>. HIDE DEF req, lots, frozen, facts
    <3>. QED
      BY <3>1 DEF ClosableLots
  <2>. QED
    BY <2>4, <2>6
<1>. QED
  BY <1>1, <1>2, <1>5, <1>8

\* Place relies on the checks for the lots (submit.go validate, place.go Place).
LEMMA ValidIsPlaceable ==
  ASSUME RulesHold, NEW s, S(rules)!Sound(day, s), NEW at, NEW request, RequestHolds(request),
         Valid(s, at, request), NEW id, B!CanInsert(s.book, id),
         LET order == S(rules)!FrozenOrder(s, S(rules)!Rewritten(request)) IN
         A!CanFreeze(s.acc, order.margin, order.commission)
  PROVE  S(rules)!CanPlace(s, id, request)
<1>. DEFINE o     == O!Rewritten(request)
            req   == O!DatedTrade(o)
            lots  == s.positions[req.inst][O!Opposite(req.dir)]
            frozen == O!FrozenOf(s.book, req.inst, O!Opposite(req.dir))
            order == O!FrozenOrder(s, o)
<1>1. /\ o \in O!TradeType /\ O!CanFreezeOrder(s, o) /\ O!SimTyped(day, s) /\ O!Covered(s)
      /\ req.offset = "CloseToday" => req.volume <= O!VolumeToday(lots) - frozen.today
      /\ req.offset = "CloseYesterday" => req.volume <= O!VolumeHistory(lots) - frozen.history
  BY AcceptedLots
<1>2. O!Coverable(s, order)
  <2>. HIDE DEF order, lots, frozen
  <2>1. O!Coverable(s, O!FrozenOrder(s, o))
    <3>. HIDE DEF o
    <3>. QED
      BY <1>1, FacadeRules, O!FreeLotsCover DEF lots, frozen
  <2>. QED
    BY <2>1 DEF order
<1>3. S(rules)!FrozenOrder(s, S(rules)!Rewritten(request)) = order
  BY SameRewritten, SameOrderMargin, SameCanFreezeOrder
<1>4. O!A!CanFreeze(s.acc, order.margin, order.commission)
  BY <1>3, SamePayments
<1>5. O!CanHold(s, order)
  <2>. HIDE DEF order
  <2>. QED
    BY <1>2, <1>4 DEF O!CanHold
<1>6. O!B!CanInsert(s.book, id)
  BY DEF B!CanInsert, B!IDFree, B!IDs, O!B!CanInsert, O!B!IDFree, O!B!IDs
<1>7. O!CanPlace(s, id, request)
  BY <1>1, <1>5, <1>6 DEF O!CanPlace
<1>. QED
  BY <1>7, SameCanPlace

\* A request that passes the checks is a trade (submit.go Submit, trade.go ApplyTrade).
LEMMA ValidTrades ==
  ASSUME RulesHold, NEW s, S(rules)!Sound(day, s), NEW at, NEW request, RequestHolds(request),
         Valid(s, at, request), Priced(s), GroupsAgree(rules)
  PROVE  S(rules)!CanTrade(s, day, Submitted(request))
<1>. DEFINE o     == O!Rewritten(request)
            req   == O!DatedTrade(o)
            lots  == s.positions[req.inst][O!Opposite(req.dir)]
            frozen == O!FrozenOf(s.book, req.inst, O!Opposite(req.dir))
<1>1. /\ o \in O!TradeType /\ O!CanFreezeOrder(s, o) /\ O!SimTyped(day, s) /\ O!Covered(s)
      /\ req.offset = "CloseToday" => req.volume <= O!VolumeToday(lots) - frozen.today
      /\ req.offset = "CloseYesterday" => req.volume <= O!VolumeHistory(lots) - frozen.history
  BY AcceptedLots
<1>2. O!AllPriced(s)
  BY DEF Priced, Instruments, O!AllPriced
<1>3. O!GroupsAgree
  BY SameNoPrices DEF GroupsAgree, O!GroupsAgree
<1>4. O!CanTrade(s, day, o)
  <2>. HIDE DEF o, lots, frozen
  <2>. QED
    BY <1>1, <1>2, <1>3, FacadeRules, O!FreezableTrades DEF lots, frozen
<1>5. Submitted(request) = o
  BY SameRewritten DEF Submitted
<1>. QED
  BY <1>4, <1>5, SameCanTrade

\* The rules an account begins with are rules (refdata/refdata.go).
LEMMA BaseRules ==
  ASSUME account \in DOMAIN Accounts
  PROVE  RulesOf(Base)
BY AccountsAssumption DEF RulesOf, Base

\* There is always a step in force (lifecycle/rules.go marginOn).
LEMMA StepTyped ==
  ASSUME NEW steps \in Seq(StepType), steps # <<>>, NEW d
  PROVE  L!StepInForce(steps, d) \in StepType
<1>. DEFINE K == {1} \cup {n \in DOMAIN steps : steps[n].from <= d}
<1>1. Len(steps) \in Nat /\ DOMAIN steps = 1 .. Len(steps) /\ 1 \in DOMAIN steps
  OBVIOUS
<1>2. K \in SUBSET Nat /\ K # {} /\ (\A k \in K : k <= Len(steps))
  BY <1>1
<1>3. K \subseteq DOMAIN steps
  BY <1>1
<1>. HIDE DEF K
<1>4. C!Max(K) \in K
  BY <1>1, <1>2, LastOf
<1>5. L!Max(K) = C!Max(K)
  BY DEF L!Max, C!Max
<1>6. steps[L!Max(K)] \in StepType
  BY <1>1, <1>3, <1>4, <1>5
<1>. QED
  BY <1>6 DEF L!StepInForce, K

\* A contract keeps its types under the terms of a day (lifecycle/rules.go).
LEMMA ContractOnHolds ==
  ASSUME NEW contract, ContractHolds(contract), MarginHolds(contract), NEW terms, NEW d,
         terms.steps \in Seq(StepType), terms.steps # <<>>
  PROVE  ContractHolds(L!ContractOn(contract, terms, d)) /\ MarginHolds(L!ContractOn(contract, terms, d))
<1>. DEFINE at == L!StepInForce(terms.steps, d)
            new == L!ContractOn(contract, terms, d)
<1>1. at \in StepType
  BY StepTyped
<1>2. at.margin \in [{"Buy", "Sell"} -> RateType] /\ at.addOn \in Nat
  BY <1>1 DEF StepType
<1>3. new = [contract EXCEPT !.isTrading = @ /\ d <= terms.lastTrading, !.margin = at.margin, !.addOn = at.addOn]
  BY DEF L!ContractOn
<1>. HIDE DEF at, new
<1>4. /\ DOMAIN new = DOMAIN contract
      /\ new.dateType = contract.dateType /\ new.measured = contract.measured
      /\ new.maxMarginSide = contract.maxMarginSide /\ new.fee = contract.fee
      /\ {"margin", "addOn"} \subseteq DOMAIN contract => new.margin = at.margin /\ new.addOn = at.addOn
  BY <1>3
<1>5. ContractHolds(new)
  BY <1>4 DEF ContractHolds
<1>6. MarginHolds(new)
  BY <1>2, <1>4 DEF MarginHolds
<1>. QED
  BY <1>5, <1>6 DEF new

\* What NewDailyRules accepts is rules (lifecycle/rules.go NewDailyRules).
LEMMA DerivedRules ==
  ASSUME account \in DOMAIN Accounts, NEW d, NEW version \in DOMAIN Schedules,
         L!CanBind(Base, Schedules[version], d, version)
  PROVE  RulesOf(NextRules(d, version))
<1>. DEFINE terms == Schedules[version].contracts
            new == NextRules(d, version)
<1>1. /\ DOMAIN terms = DOMAIN Base.contracts
      /\ \A i \in DOMAIN Base.contracts : terms[i].steps # <<>>
  BY DEF L!CanBind, L!StepsValid
<1>2. \A i \in DOMAIN terms : terms[i].steps \in Seq(StepType)
  BY AccountsAssumption DEF Schedules
<1>3. new.contracts = [i \in DOMAIN Base.contracts |-> L!ContractOn(Base.contracts[i], terms[i], d)]
  BY DEF NextRules, L!DailyRules
<1>4. RulesOf(Base)
  BY BaseRules
<1>. HIDE DEF terms, new
<1>5. DOMAIN new.contracts = DOMAIN Base.contracts
  BY <1>3
<1>6. \A i \in DOMAIN Base.contracts : ContractHolds(new.contracts[i]) /\ MarginHolds(new.contracts[i])
  BY <1>1, <1>2, <1>3, <1>4, ContractOnHolds DEF RulesOf
<1>7. RulesOf(new)
  BY <1>4, <1>5, <1>6 DEF RulesOf
<1>. QED
  BY <1>7 DEF new

\* The days of two rules of the same instruments read the same archives (state.go State).
LEMMA ReadableApart ==
  ASSUME NEW r1, NEW r2, DOMAIN r1.contracts = DOMAIN r2.contracts
  PROVE  /\ \A s : S(r1)!Readable(s) = S(r2)!Readable(s)
         /\ \A today, positions : S(r1)!PositionsTyped(today, positions) = S(r2)!PositionsTyped(today, positions)
<1>1. /\ S(r1)!SimFields = S(r2)!SimFields
      /\ S(r1)!A!ArchiveType = S(r2)!A!ArchiveType
      /\ S(r1)!LotType = S(r2)!LotType /\ S(r1)!Directions = S(r2)!Directions
      /\ S(r1)!QuotaType = S(r2)!QuotaType /\ S(r1)!Offsets = S(r2)!Offsets
      /\ \A book : S(r1)!B!IDs(book) = S(r2)!B!IDs(book)
      /\ \A x : S(r1)!IsFiniteSet(x) = S(r2)!IsFiniteSet(x)
  BY DEF S!SimFields, S!A!ArchiveType, S!A!AccountOf, S!A!Algorithms, S!LotType, S!Directions, S!QuotaType, S!Offsets,
     S!B!IDs, S!IsFiniteSet
<1>2. /\ S(r1)!PricesType = S(r2)!PricesType /\ S(r1)!QuotasType = S(r2)!QuotasType
      /\ S(r1)!OrderType = S(r2)!OrderType
  BY <1>1 DEF S!PricesType, S!QuotasType, S!OrderType
<1>3. ASSUME NEW s PROVE S(r1)!Readable(s) = S(r2)!Readable(s)
  BY <1>1, <1>2 DEF S!Readable
<1>4. /\ S(r1)!LotSet = S(r2)!LotSet
      /\ \A today, lots : S(r1)!RestorableSide(today, lots) = S(r2)!RestorableSide(today, lots)
  BY DEF S!LotSet, S!RestorableSide
<1>5. ASSUME NEW today, NEW positions
      PROVE  S(r1)!PositionsTyped(today, positions) = S(r2)!PositionsTyped(today, positions)
  BY <1>1, <1>4 DEF S!PositionsTyped
<1>. QED
  BY <1>3, <1>5

\* The offset of an order means the same under rules that keep the date types (lifecycle/rules.go).
LEMMA OrdersMeanApart ==
  ASSUME NEW r1, NEW r2, DOMAIN r1.contracts = DOMAIN r2.contracts,
         \A i \in DOMAIN r1.contracts : r1.contracts[i].dateType = r2.contracts[i].dateType,
         NEW s, S(r1)!Readable(s), S(r1)!OrdersMean(s)
  PROVE  S(r2)!OrdersMean(s)
<1>1. SUFFICES ASSUME NEW id \in S(r2)!B!IDs(s.book)
               PROVE  LET tr == S(r2)!DatedTrade(S(r2)!TradeOf(s.book.live[id].order)) IN
                      /\ tr.offset = "Close" => r2.contracts[tr.inst].dateType = "NoUseHistory"
                      /\ tr.offset # "Open" => tr.inst \in S(r2)!Held(s.positions)
  BY DEF S!OrdersMean
<1>. DEFINE o == s.book.live[id].order
            tr == S(r1)!TradeOf(o)
<1>2. id \in S(r1)!B!IDs(s.book)
  BY <1>1 DEF S!B!IDs
<1>3. o.inst \in DOMAIN r1.contracts
  BY <1>2 DEF S!Readable, S!OrderType
<1>4. S(r2)!TradeOf(o) = tr /\ tr.inst = o.inst
  BY DEF S!TradeOf
<1>5. S(r2)!DatedTrade(tr) = S(r1)!DatedTrade(tr)
  <2>. HIDE DEF tr, o
  <2>1. S(r2)!Dated(tr.inst, tr.offset) = S(r1)!Dated(tr.inst, tr.offset)
    BY <1>3, <1>4 DEF S!Dated
  <2>. QED
    BY <2>1 DEF S!DatedTrade
<1>6. S(r1)!DatedTrade(tr).inst = o.inst
  BY DEF S!DatedTrade, S!TradeOf
<1>7. LET x == S(r1)!DatedTrade(tr) IN
      /\ x.offset = "Close" => r1.contracts[x.inst].dateType = "NoUseHistory"
      /\ x.offset # "Open" => x.inst \in S(r1)!Held(s.positions)
  BY <1>2 DEF S!OrdersMean
<1>8. S(r1)!Held(s.positions) = S(r2)!Held(s.positions)
  BY DEF S!Held, S!FlatSides, S!Directions
<1>. HIDE DEF tr, o
<1>. QED
  BY <1>3, <1>4, <1>5, <1>6, <1>7, <1>8 DEF o

\* The facts of a contract that outlive the day (lifecycle/rules.go NewDailyRules).
LEMMA DerivedApart ==
  ASSUME account \in DOMAIN Accounts, NEW d, NEW version \in DOMAIN Schedules
  PROVE  /\ DOMAIN NextRules(d, version).contracts = DOMAIN Base.contracts
         /\ \A i \in DOMAIN Base.contracts :
              LET now == NextRules(d, version).contracts[i] IN
              /\ now.dateType = Base.contracts[i].dateType
              /\ now.product = Base.contracts[i].product
              /\ now.maxMarginSide = Base.contracts[i].maxMarginSide
<1>. DEFINE new == NextRules(d, version)
            terms == Schedules[version].contracts
<1>1. new.contracts = [i \in DOMAIN Base.contracts |-> L!ContractOn(Base.contracts[i], terms[i], d)]
  BY DEF NextRules, L!DailyRules
<1>2. ASSUME NEW contract, NEW t
      PROVE  LET now == L!ContractOn(contract, t, d) IN
             /\ now.dateType = contract.dateType /\ now.product = contract.product
             /\ now.maxMarginSide = contract.maxMarginSide
  BY DEF L!ContractOn
<1>. HIDE DEF new, terms
<1>3. /\ DOMAIN new.contracts = DOMAIN Base.contracts
      /\ \A i \in DOMAIN Base.contracts :
           /\ new.contracts[i].dateType = Base.contracts[i].dateType
           /\ new.contracts[i].product = Base.contracts[i].product
           /\ new.contracts[i].maxMarginSide = Base.contracts[i].maxMarginSide
  BY <1>1, <1>2
<1>. QED
  BY <1>3 DEF new

\* A morning that can be restored is sound (state.go Restore, lifecycle.go SettleWithRules).
MorningHolds ==
  RulesHold => \A today \in Int : \A s :
    LET morning == [s EXCEPT !.acc = S(rules)!Revalued(@, s.positions, s.prices)] IN
    /\ ~s.broken /\ S(rules)!Readable(s) /\ S(rules)!PositionsTyped(today, s.positions) /\ S(rules)!OrdersMean(s)
    /\ S(rules)!Restorable(morning, today)
    => S(rules)!Sound(today, morning)

\* What an evening leaves can be restored under the rules of the next day.
LEMMA MorningIsSound == MorningHolds
<1>. SUFFICES ASSUME RulesHold, NEW today \in Int, NEW s,
                     ~s.broken, S(rules)!Readable(s), S(rules)!PositionsTyped(today, s.positions),
                     S(rules)!OrdersMean(s),
                     S(rules)!Restorable([s EXCEPT !.acc = S(rules)!Revalued(@, s.positions, s.prices)], today)
              PROVE  S(rules)!Sound(today, [s EXCEPT !.acc = S(rules)!Revalued(@, s.positions, s.prices)])
  BY DEF MorningHolds
<1>. DEFINE morning == [s EXCEPT !.acc = O!Revalued(@, s.positions, s.prices)]
<1>1. [s EXCEPT !.acc = S(rules)!Revalued(@, s.positions, s.prices)] = morning
  BY SameRevalued
<1>2. /\ O!Readable(s) /\ O!OrdersMean(s)
      /\ O!PositionsTyped(today, s.positions)
  BY SameReadable, SameOrdersMean
<1>3. O!Restorable(morning, today)
  BY <1>1, SameRestorable
<1>4. O!Sound(today, morning)
  BY <1>2, <1>3, FacadeRules, O!MorningSound
<1>. QED
  BY <1>1, <1>4, SameSound

\* The account refuses no evening of a sound simulator (settle.go Settle).
LEMMA EveningComes ==
  ASSUME RulesHold, day \in Int, NEW s, S(rules)!Sound(day, s),
         NEW price \in [Instruments -> Nat \ {0}], S(rules)!CanSettle(s, price)
  PROVE  S(rules)!AccountSettles(s, price)
<1>1. O!Sound(day, s) /\ O!CanSettle(s, price)
  BY SameSound, SameCanSettle
<1>2. price \in O!SettlementType
  BY DEF O!SettlementType, Instruments
<1>3. O!AccountSettles(s, price)
  BY <1>1, <1>2, FacadeRules, O!SoundSettles
<1>. QED
  BY <1>3, SameAccountSettles

\* Once the evening is settled the archive can be read as that of the next day (settle.go Settle).
LEMMA EveningReadable ==
  ASSUME RulesHold, day \in Int, NEW s, S(rules)!Sound(day, s), NEW later \in Int, later > day,
         NEW price \in [Instruments -> Nat \ {0}], S(rules)!CanSettle(s, price)
  PROVE  LET evening == S(rules)!Settled(s, price) IN
         /\ ~evening.broken /\ S(rules)!Readable(evening) /\ S(rules)!PositionsTyped(later, evening.positions)
         /\ S(rules)!OrdersMean(evening)
<1>. DEFINE evening == O!Settled(s, price)
<1>1. S(rules)!Settled(s, price) = evening
  BY SameSettled
<1>2. O!Sound(later, evening)
  BY <1>1, SettleIsSound, SameSound
<1>3. evening.broken = FALSE /\ evening.book = s.book
  <2>1. S(rules)!AccountSettles(s, price)
    BY EveningComes
  <2>. QED
    BY <1>1, <2>1, MorningComes
<1>4. O!B!IDs(s.book) = {}
  BY SameRestorableBook DEF S!CanSettle
<1>. HIDE DEF evening
<1>5. O!Readable(evening) /\ O!OrdersMean(evening) /\ O!PositionsTyped(later, evening.positions)
  BY <1>2, <1>3, <1>4, FacadeRules, O!SoundReadable
<1>. QED
  BY <1>1, <1>3, <1>5, SameReadable, SameOrdersMean

\* The simulator is sound while it can be used, under the rules of its day.
Working == /\ RulesHold /\ day \in Int
           /\ Usable => S(rules)!Sound(day, sim)

\* The day begins under the rules it was checked with (lifecycle.go SettleWithRules).
LEMMA NewDaySound ==
  ASSUME SameInstruments, Working, Usable, NEW price \in [Instruments -> Nat \ {0}], NEW next \in Int,
         NEW version \in DOMAIN Schedules, L!CanBind(Base, Schedules[version], next, version),
         CanSettleWith(sim, price, NextRules(next, version)),
         day' = next, rules' = NextRules(next, version), sim' = SettledUnder(sim, price, NextRules(next, version))
  PROVE  Working'
<1>. DEFINE new == NextRules(next, version)
            evening == S(rules)!Settled(sim, price)
            morning == [evening EXCEPT !.acc = S(new)!Revalued(@, evening.positions, evening.prices)]
<1>1. new.day = next
  BY DEF NextRules, L!DailyRules
<1>2. /\ RulesOf(rules) /\ S(rules)!Sound(day, sim) /\ day \in Int /\ account \in DOMAIN Accounts
      /\ DOMAIN rules.contracts = DOMAIN Base.contracts
  BY DEF Working, RulesHold, SameInstruments, Instruments
<1>3. RulesOf(new)
  BY <1>2, DerivedRules
<1>4. DOMAIN new.contracts = DOMAIN rules.contracts
  BY <1>2, DerivedApart
<1>5. morning = SettledUnder(sim, price, new)
  BY DEF SettledUnder
<1>. HIDE DEF new
<1>6. /\ next > day /\ S(rules)!CanSettle(sim, price) /\ S(rules)!AccountSettles(sim, price)
      /\ S(new)!Restorable(SettledUnder(sim, price, new), next)
  BY <1>1 DEF CanSettleWith, MayChange, RestorableBoth, new
<1>7. /\ ~evening.broken /\ S(rules)!Readable(evening) /\ S(rules)!PositionsTyped(next, evening.positions)
      /\ S(rules)!OrdersMean(evening)
  BY <1>2, <1>6, EveningReadable DEF RulesHold
<1>8. sim' = morning /\ rules' = new
  BY <1>5 DEF new
<1>9. S(rules)!B!IDs(evening.book) = {}
  BY <1>6, MorningComes DEF S!CanSettle
<1>. HIDE DEF evening
<1>10. /\ ~evening.broken /\ S(new)!Readable(evening) /\ S(new)!PositionsTyped(next, evening.positions)
  BY <1>4, <1>7, ReadableApart
<1>11. S(new)!OrdersMean(evening)
  BY <1>9 DEF S!OrdersMean, S!B!IDs
<1>12. S(new)!Restorable(morning, next)
  BY <1>5, <1>6
<1>13. RulesHold'
  BY <1>3, <1>8 DEF RulesHold
<1>14. MorningHolds'
  BY MorningIsSound, PTL
<1>15. S(new)!Sound(next, morning)
  BY <1>8, <1>10, <1>11, <1>12, <1>13, <1>14 DEF MorningHolds
<1>. QED
  BY <1>8, <1>13, <1>15 DEF Working

\* A start that the first rules can restore is sound (state.go Restore).
LEMMA StartSound ==
  ASSUME StartsMean, SameInstruments, RulesHold, day = 1,
         \A i \in Instruments : rules.contracts[i].dateType = Base.contracts[i].dateType,
         sim \in {s \in Accounts[account].starts : S(rules)!Restorable(s, 1)}
  PROVE  Working
<1>1. /\ account \in DOMAIN Accounts /\ DOMAIN Base.contracts = DOMAIN rules.contracts
      /\ sim \in Accounts[account].starts /\ S(rules)!Restorable(sim, 1)
  BY DEF SameInstruments, Instruments
<1>2. S(Base)!Readable(sim) /\ S(Base)!OrdersMean(sim)
  BY <1>1, AccountsAssumption DEF StartsMean, Base
<1>3. S(rules)!Readable(sim)
  BY <1>1, <1>2, ReadableApart
<1>4. S(rules)!OrdersMean(sim)
  <2>1. \A i \in DOMAIN Base.contracts : Base.contracts[i].dateType = rules.contracts[i].dateType
    BY <1>1 DEF Instruments
  <2>. QED
    BY <1>1, <1>2, <2>1, OrdersMeanApart
<1>5. Usable => S(rules)!Sound(day, sim)
  <2>1. day \in Int
    OBVIOUS
  <2>. QED
    BY <1>1, <1>3, <1>4, <2>1, RestoredIsSound DEF Usable
<1>. QED
  BY <1>5 DEF Working

\* Every client begins with a sound simulator.
LEMMA InitWorking ==
  ASSUME StartsMean
  PROVE  Init => Working
<1>. SUFFICES ASSUME Init PROVE Working
  OBVIOUS
<1>1. SameInstruments
  BY InitSame
<1>2. account \in DOMAIN Accounts /\ 1 \in DOMAIN Schedules /\ L!CanBind(Base, Schedules[1], 1, 1)
  BY <1>1, AccountsAssumption DEF SameInstruments, Schedules, Base
<1>3. RulesHold
  BY <1>2, DerivedRules DEF Init, RulesHold
<1>4. \A i \in Instruments : rules.contracts[i].dateType = Base.contracts[i].dateType
  BY <1>1, <1>2, DerivedApart DEF Init, SameInstruments
<1>. QED
  BY <1>1, <1>3, <1>4, StartSound DEF Init

\* The trade a live order becomes is one (place.go Fill).
LEMMA LiveTrade ==
  ASSUME NEW s, S(rules)!Sound(day, s), NEW id, S(rules)!CanRelease(s, id)
  PROVE  S(rules)!TradeOf(s.book.live[id].order) \in S(rules)!TradeType
<1>1. PICK c : S(rules)!Ready(day, s, c)
  BY DEF S!Sound
<1>2. S(rules)!BookTyped(s.book)
  BY <1>1 DEF S!Ready, S!Good, S!SimTyped
<1>3. id \in S(rules)!B!IDs(s.book)
  BY DEF S!CanRelease
<1>. QED
  BY <1>2, <1>3 DEF S!BookTyped, S!OrderTyped

\* A step that stays in the day keeps the simulator sound (simulator.go).
LEMMA SameDayWorking ==
  ASSUME Working, NEW s, Becomes(s), ~s.broken => S(rules)!Sound(day, s)
  PROVE  Working'
BY DEF Working, Becomes, Usable, RulesHold

\* A fill or a submission leaves a sound simulator (place.go Fill, submit.go Submit).
LEMMA TradeWorking ==
  ASSUME Working, NEW s, S(rules)!Sound(day, s), NEW tr \in S(rules)!TradeType, S(rules)!CanTrade(s, day, tr)
  PROVE  ~S(rules)!Traded(s, day, tr).broken => S(rules)!Sound(day, S(rules)!Traded(s, day, tr))
BY TradeIsSound DEF Working

\* Every step of a client leaves a sound simulator (simulator.go, lifecycle.go).
LEMMA NextWorking == SameInstruments /\ Working /\ [Next]_vars => Working'
<1>. SUFFICES ASSUME SameInstruments, Working, [Next]_vars PROVE Working'
  OBVIOUS
<1>. USE DEF Working
<1>1. CASE UNCHANGED vars
  BY <1>1 DEF vars, Usable, RulesHold
<1>2. ASSUME NEW request \in Requests, NEW at \in Times, Submit(at, request) PROVE Working'
  <2>1. Usable /\ Becomes(S(rules)!Traded(sim, day, Submitted(request)))
    BY <1>2 DEF Submit, Becomes
  <2>2. RequestHolds(request)
    BY InputsAssumption
  <2>3. request \in O!TradeType
    BY <1>2, <2>2, ValidTyped DEF Submit
  <2>4. Submitted(request) \in S(rules)!TradeType
    BY <2>3, SameEffective, SameRewritten, SameOrderType DEF Submitted
  <2>5. S(rules)!CanTrade(sim, day, Submitted(request))
    BY <1>2 DEF Submit
  <2>6. S(rules)!Sound(day, sim)
    BY <2>1
  <2>. HIDE DEF Working
  <2>. QED
    BY <2>1, <2>4, <2>5, <2>6, TradeWorking, SameDayWorking
<1>3. ASSUME NEW id \in ID, NEW request \in Requests, NEW at \in Times, Place(at, id, request) PROVE Working'
  <2>1. Usable /\ Becomes(S(rules)!Placed(sim, id, request))
    BY <1>3 DEF Place, Becomes, Placed
  <2>2. RequestHolds(request)
    BY InputsAssumption
  <2>3. S(rules)!Sound(day, sim)
    BY <2>1
  <2>4. S(rules)!CanPlace(sim, id, request) /\ request \in S(rules)!TradeType
    <3>1. Valid(sim, at, request) /\ B!CanInsert(sim.book, id)
      BY <1>3 DEF Place
    <3>2. LET order == S(rules)!FrozenOrder(sim, S(rules)!Rewritten(request)) IN
          A!CanFreeze(sim.acc, order.margin, order.commission)
      BY <1>3 DEF Place
    <3>. QED
      BY <2>2, <2>3, <3>1, <3>2, ValidIsPlaceable, ValidTyped
  <2>5. S(rules)!Sound(day, S(rules)!Placed(sim, id, request))
    BY <2>3, <2>4, PlaceIsSound
  <2>. HIDE DEF Working
  <2>. QED
    BY <2>1, <2>5, SameDayWorking
<1>4. ASSUME NEW id \in ID, Cancel(id) PROVE Working'
  <2>1. Usable /\ Becomes(S(rules)!Released(sim, id)) /\ S(rules)!CanRelease(sim, id)
    BY <1>4 DEF Cancel, Becomes
  <2>2. S(rules)!Sound(day, S(rules)!Released(sim, id))
    BY <2>1, ReleaseIsSound
  <2>. HIDE DEF Working
  <2>. QED
    BY <2>1, <2>2, SameDayWorking
<1>5. ASSUME NEW id \in ID, Fill(id) PROVE Working'
  <2>. DEFINE freed == S(rules)!Released(sim, id)
              tr    == S(rules)!TradeOf(sim.book.live[id].order)
  <2>1. /\ Usable /\ S(rules)!CanRelease(sim, id)
        /\ \/ S(rules)!CanTrade(freed, day, tr) /\ Becomes(S(rules)!Traded(freed, day, tr))
           \/ Becomes(S(rules)!PutBack(freed, id, sim.book.live[id]))
    BY <1>5 DEF Fill, Becomes
  <2>2. S(rules)!Sound(day, sim)
    BY <2>1
  <2>3. /\ S(rules)!Sound(day, freed)
        /\ LET after == S(rules)!PutBack(freed, id, sim.book.live[id]) IN
             ~after.broken => S(rules)!Sound(day, after)
    BY <2>1, <2>2, ReleaseIsSound
  <2>4. tr \in S(rules)!TradeType
    BY <2>1, <2>2, LiveTrade
  <2>. HIDE DEF Working, freed, tr
  <2>5. CASE S(rules)!CanTrade(freed, day, tr) /\ Becomes(S(rules)!Traded(freed, day, tr))
    BY <2>3, <2>4, <2>5, TradeWorking, SameDayWorking
  <2>6. CASE Becomes(S(rules)!PutBack(freed, id, sim.book.live[id]))
    BY <2>3, <2>6, SameDayWorking
  <2>. QED
    BY <2>1, <2>5, <2>6
<1>6. ASSUME NEW tr \in Trades, ApplyTrade(tr) PROVE Working'
  <2>1. /\ Usable /\ Becomes(S(rules)!Traded(sim, day, tr)) /\ S(rules)!CanTrade(sim, day, tr)
        /\ tr.inst \in Instruments
    BY <1>6 DEF ApplyTrade, Becomes
  <2>2. RequestHolds(tr) /\ tr.volume > 0
    BY InputsAssumption
  <2>3. tr \in S(rules)!TradeType
    BY <2>1, <2>2 DEF RequestHolds, Instruments, S!TradeType, S!Directions, S!Offsets
  <2>4. S(rules)!Sound(day, sim)
    BY <2>1
  <2>. HIDE DEF Working
  <2>. QED
    BY <2>1, <2>3, <2>4, TradeWorking, SameDayWorking
<1>7. ASSUME NEW inst \in Instruments, NEW pre \in Prices, MarkPre(inst, pre) PROVE Working'
  <2>. DEFINE quote == [last |-> 0, pre |-> pre]
  <2>1. Usable /\ Becomes(S(rules)!Marked(sim, inst, quote)) /\ S(rules)!CanMark(sim, inst, quote)
    BY <1>7 DEF MarkPre, Becomes
  <2>2. quote \in [last : Nat, pre : Nat]
    BY InputsAssumption
  <2>3. S(rules)!Sound(day, sim)
    BY <2>1
  <2>. HIDE DEF quote
  <2>4. S(rules)!Sound(day, S(rules)!Marked(sim, inst, quote))
    BY <2>1, <2>2, <2>3, MarkIsSound
  <2>. HIDE DEF Working
  <2>. QED
    BY <2>1, <2>4, SameDayWorking
<1>8. ASSUME NEW bar \in Bars, Advance(bar) PROVE Working'
  <2>. DEFINE quote == Closing(bar)
  <2>1. Usable /\ Becomes(S(rules)!Marked(sim, bar.inst, quote)) /\ S(rules)!CanMark(sim, bar.inst, quote)
    BY <1>8 DEF Advance, Becomes
  <2>2. quote \in [last : Nat, pre : Nat] /\ bar.inst \in Instruments
    BY <1>8, InputsAssumption DEF Closing, Advance, BarAccepted
  <2>3. S(rules)!Sound(day, sim)
    BY <2>1
  <2>. HIDE DEF quote
  <2>4. S(rules)!Sound(day, S(rules)!Marked(sim, bar.inst, quote))
    BY <2>1, <2>2, <2>3, MarkIsSound
  <2>. HIDE DEF Working
  <2>. QED
    BY <2>1, <2>4, SameDayWorking
<1>9. ASSUME NEW price \in [Instruments -> Prices], NEW next \in TradingCalendar.days,
             NEW version \in DOMAIN Schedules, SettleWithRules(price, next, version)
      PROVE  Working'
  <2>. HIDE DEF Working
  <2>1. next \in Int
    BY DaysAssumption
  <2>2. Prices \subseteq Nat \ {0}
    BY InputsAssumption
  <2>3. price \in [Instruments -> Nat \ {0}]
    BY <2>2
  <2>. QED
    BY <1>9, <2>1, <2>3, NewDaySound DEF SettleWithRules
<1>. HIDE DEF Working
<1>. QED
  BY <1>1, <1>2, <1>3, <1>4, <1>5, <1>6, <1>7, <1>8, <1>9, Zenon DEF Next

(***************************************************************************)
(* Whatever a client does, and whatever the calendar does to the rules     *)
(* from day to day, the simulator it holds is sound under the rules of its *)
(* day until it is broken: lots, orders, frozen amounts, margin, profit    *)
(* and account agree, and the archive of it can be restored (simulator.go, *)
(* lifecycle.go, state.go).                                                *)
(***************************************************************************)
THEOREM ClientsWorkSoundly ==
  ASSUME StartsMean
  PROVE  Spec => [](SameInstruments /\ Working)
<1>1. Init => SameInstruments /\ Working
  BY InitSame, InitWorking
<1>2. SameInstruments /\ Working /\ [Next]_vars => SameInstruments' /\ Working'
  BY NextSame, NextWorking
<1>. QED
  BY <1>1, <1>2, PTL DEF Spec

-----------------------------------------------------------------------------
(* The simulator a script is replayed on (replay/engine.go). *)

\* A replay works on a simulator that is never broken.
Replayed == SameInstruments /\ Working /\ Usable

\* A run begins with a restored simulator (replay/engine.go Run).
LEMMA InitReplayed ==
  ASSUME StartsMean
  PROVE  ReplayInit => Replayed
<1>. SUFFICES ASSUME ReplayInit PROVE Replayed
  OBVIOUS
<1>1. account \in DOMAIN Accounts /\ 1 \in DOMAIN Schedules /\ L!CanBind(Base, Schedules[1], 1, 1)
  BY AccountsAssumption DEF ReplayInit, Schedules, Base
<1>2. SameInstruments /\ RulesHold /\ \A i \in Instruments : rules.contracts[i].dateType = Base.contracts[i].dateType
  <2>1. CASE rules = NextRules(1, 1)
    BY <1>1, <2>1, DerivedRules, DerivedApart DEF SameInstruments, Instruments, RulesHold
  <2>2. CASE rules = L!PlainRules(Base)
    BY <1>1, <2>2, BaseRules DEF SameInstruments, Instruments, RulesHold, RulesOf, L!PlainRules
  <2>. QED
    BY <2>1, <2>2 DEF ReplayInit
<1>3. Working
  BY <1>2, StartSound DEF ReplayInit
<1>4. Usable
  BY <1>1, AccountsAssumption DEF ReplayInit, Usable
<1>. QED
  BY <1>2, <1>3, <1>4 DEF Replayed

\* Only the two prices of a quote are used (simulator.go Mark).
LEMMA OnlyPrices ==
  ASSUME NEW s, NEW inst, NEW x
  PROVE  LET quote == [last |-> x.last, pre |-> x.pre] IN
         /\ S(rules)!CanMark(s, inst, x) = S(rules)!CanMark(s, inst, quote)
         /\ S(rules)!Marked(s, inst, x) = S(rules)!Marked(s, inst, quote)
<1>. DEFINE quote == [last |-> x.last, pre |-> x.pre]
<1>1. quote.last = x.last /\ quote.pre = x.pre
  OBVIOUS
<1>. HIDE DEF quote
<1>2. S(rules)!MarkedPrices(s, inst, x) = S(rules)!MarkedPrices(s, inst, quote)
  BY <1>1 DEF S!MarkedPrices
<1>. QED
  BY <1>1, <1>2 DEF S!CanMark, S!Marked, quote

\* Only the settlement prices of the instruments are used (settle.go).
LEMMA OnlyInstruments ==
  ASSUME NEW s, NEW x
  PROVE  LET price == [i \in Instruments |-> x[i]] IN
         /\ S(rules)!CanSettle(s, x) = S(rules)!CanSettle(s, price)
         /\ S(rules)!AccountSettles(s, x) = S(rules)!AccountSettles(s, price)
         /\ S(rules)!Settled(s, x) = S(rules)!Settled(s, price)
         /\ S(rules)!Rolled(s, x) = S(rules)!Rolled(s, price)
         /\ S(rules)!NextPrices(s, x) = S(rules)!NextPrices(s, price)
<1>. DEFINE price == [i \in Instruments |-> x[i]]
<1>1. \A i \in DOMAIN rules.contracts : price[i] = x[i]
  BY DEF Instruments
<1>. HIDE DEF price
<1>2. S(rules)!SettlementPrices(s, x) = S(rules)!SettlementPrices(s, price)
  BY <1>1 DEF S!SettlementPrices
<1>3. S(rules)!NextPrices(s, x) = S(rules)!NextPrices(s, price)
  BY <1>1 DEF S!NextPrices
<1>4. S(rules)!Rolled(s, x) = S(rules)!Rolled(s, price)
  BY <1>1 DEF S!Rolled
<1>5. S(rules)!CanSettle(s, x) = S(rules)!CanSettle(s, price)
  BY <1>2, <1>3, <1>4 DEF S!CanSettle
<1>6. S(rules)!EveningAccount(s, x) = S(rules)!EveningAccount(s, price)
  BY <1>2 DEF S!EveningAccount
<1>7. S(rules)!NextMorning(s, x) = S(rules)!NextMorning(s, price)
  BY <1>3, <1>4, <1>6 DEF S!NextMorning
<1>8. S(rules)!AccountSettles(s, x) = S(rules)!AccountSettles(s, price)
  BY <1>6, <1>7 DEF S!AccountSettles
<1>9. S(rules)!Settled(s, x) = S(rules)!Settled(s, price)
  BY <1>7, <1>8 DEF S!Settled
<1>. QED
  BY <1>3, <1>4, <1>5, <1>8, <1>9 DEF price

\* The next trading day is a later one (refdata/calendar.go NextTradingDay).
LEMMA NextIsLater ==
  ASSUME NEW next, next # 0, C!NextDay(TradingCalendar, day) = next
  PROVE  next \in Nat /\ next > day
<1>1. C!Later(TradingCalendar, day) \in SUBSET Nat
  BY DaysAssumption DEF C!Later
<1>2. C!Later(TradingCalendar, day) # {} /\ next = C!Min(C!Later(TradingCalendar, day))
  BY DEF C!NextDay
<1>3. next \in C!Later(TradingCalendar, day)
  BY <1>1, <1>2, FirstOf
<1>. QED
  BY <1>1, <1>3 DEF C!Later

\* An event without effect on the day or the rules.
LEMMA KeptDay ==
  ASSUME Replayed, NEW s, ~s.broken => S(rules)!Sound(day, s), NEW after \in With(s),
         day' = after.day, rules' = after.rules, sim' = after.sim, UNCHANGED account
  PROVE  Replayed'
<1>1. ~s.broken /\ after = [Moment EXCEPT !.sim = s]
  BY DEF With
<1>2. after.day = day /\ after.rules = rules /\ after.sim = s
  BY <1>1 DEF Moment
<1>. QED
  BY <1>1, <1>2 DEF Replayed, SameInstruments, Working, RulesHold, Usable, Instruments, Base

\* Events that pay in or out (replay/engine.go apply).
LEMMA AccountEvents ==
  ASSUME Replayed, NEW amount \in Int, NEW after, day' = after.day, rules' = after.rules, sim' = after.sim,
         UNCHANGED account,
         \/ A!CanDeposit(amount) /\ after \in WithAccount(A!Deposited(sim.acc, amount))
         \/ A!CanWithdraw(sim.acc, amount) /\ after \in WithAccount(A!Withdrawn(sim.acc, amount))
  PROVE  Replayed'
<1>1. RulesHold /\ S(rules)!Sound(day, sim)
  BY DEF Replayed, Working
<1>2. /\ A!CanDeposit(amount) => S(rules)!Sound(day, [sim EXCEPT !.acc = A!Deposited(@, amount)])
      /\ A!CanWithdraw(sim.acc, amount) => S(rules)!Sound(day, [sim EXCEPT !.acc = A!Withdrawn(@, amount)])
  BY <1>1, PaymentIsSound
<1>3. CASE A!CanDeposit(amount) /\ after \in WithAccount(A!Deposited(sim.acc, amount))
  BY <1>2, <1>3, KeptDay DEF WithAccount
<1>4. CASE A!CanWithdraw(sim.acc, amount) /\ after \in WithAccount(A!Withdrawn(sim.acc, amount))
  BY <1>2, <1>4, KeptDay DEF WithAccount
<1>. QED
  BY <1>3, <1>4

\* An event that quotes (replay/engine.go apply).
LEMMA MarkEvent ==
  ASSUME Replayed, NEW x, x.last \in Nat, x.pre \in Nat, x.inst \in Instruments, S(rules)!CanMark(sim, x.inst, x)
  PROVE  S(rules)!Sound(day, S(rules)!Marked(sim, x.inst, x))
<1>. DEFINE quote == [last |-> x.last, pre |-> x.pre]
<1>1. RulesHold /\ S(rules)!Sound(day, sim)
  BY DEF Replayed, Working
<1>2. S(rules)!CanMark(sim, x.inst, quote) /\ S(rules)!Marked(sim, x.inst, x) = S(rules)!Marked(sim, x.inst, quote)
  BY OnlyPrices
<1>3. quote \in [last : Nat, pre : Nat]
  OBVIOUS
<1>. HIDE DEF quote
<1>. QED
  BY <1>1, <1>2, <1>3, MarkIsSound

\* An event that trades (replay/engine.go apply).
LEMMA TradeEvent ==
  ASSUME Replayed, NEW s, S(rules)!Sound(day, s), NEW tr \in S(rules)!TradeType, S(rules)!CanTrade(s, day, tr)
  PROVE  ~S(rules)!Traded(s, day, tr).broken => S(rules)!Sound(day, S(rules)!Traded(s, day, tr))
BY TradeWorking DEF Replayed

\* A request for an instrument of the rules (replay/engine.go apply).
LEMMA KnownRequest ==
  ASSUME NEW request, RequestHolds(request), request.volume > 0, request.inst \in Instruments
  PROVE  request \in S(rules)!TradeType
BY DEF RequestHolds, Instruments, S!TradeType, S!Directions, S!Offsets

\* An event that fills (replay/engine.go apply).
LEMMA FillEvent ==
  ASSUME Replayed, NEW id, NEW after \in AfterFill(id), day' = after.day, rules' = after.rules, sim' = after.sim,
         UNCHANGED account
  PROVE  Replayed'
<1>. DEFINE freed == S(rules)!Released(sim, id)
            tr    == S(rules)!TradeOf(sim.book.live[id].order)
<1>1. RulesHold /\ S(rules)!Sound(day, sim)
  BY DEF Replayed, Working
<1>2. S(rules)!CanRelease(sim, id) /\ S(rules)!CanTrade(freed, day, tr) /\ after \in With(S(rules)!Traded(freed, day, tr))
  BY DEF AfterFill
<1>3. S(rules)!Sound(day, freed) /\ tr \in S(rules)!TradeType
  BY <1>1, <1>2, ReleaseIsSound, LiveTrade
<1>. HIDE DEF freed, tr
<1>4. ~S(rules)!Traded(freed, day, tr).broken => S(rules)!Sound(day, S(rules)!Traded(freed, day, tr))
  BY <1>2, <1>3, TradeEvent
<1>. QED
  BY <1>2, <1>4, KeptDay

\* An event that settles (replay/engine.go apply).
LEMMA SettleEvent ==
  ASSUME Replayed, NEW x, x.next \in Nat \ {0}, x.version # 0 => x.version \in DOMAIN Schedules,
         \A i \in DOMAIN Base.contracts : x.price[i] \in Nat \ {0},
         NEW after \in AfterSettle(x), day' = after.day, rules' = after.rules, sim' = after.sim,
         UNCHANGED account
  PROVE  Replayed'
<1>. DEFINE price == [i \in Instruments |-> x.price[i]]
<1>1. RulesHold /\ S(rules)!Sound(day, sim) /\ day \in Int /\ Instruments = DOMAIN Base.contracts
  BY DEF Replayed, Working, SameInstruments
<1>2. price \in [Instruments -> Nat \ {0}]
  BY <1>1
<1>3. C!NextDay(TradingCalendar, day) = x.next
  BY DEF AfterSettle
<1>4. x.next \in Int /\ x.next > day
  BY <1>3, NextIsLater
<1>5. /\ S(rules)!CanSettle(sim, x.price) = S(rules)!CanSettle(sim, price)
      /\ S(rules)!AccountSettles(sim, x.price) = S(rules)!AccountSettles(sim, price)
      /\ S(rules)!Settled(sim, x.price) = S(rules)!Settled(sim, price)
      /\ S(rules)!Rolled(sim, x.price) = S(rules)!Rolled(sim, price)
      /\ S(rules)!NextPrices(sim, x.price) = S(rules)!NextPrices(sim, price)
  BY OnlyInstruments
<1>. HIDE DEF price
<1>6. CASE x.version = 0
  <2>1. /\ S(rules)!CanSettle(sim, price)
        /\ after = [Moment EXCEPT !.sim = S(rules)!Settled(sim, price), !.day = x.next]
    BY <1>3, <1>5, <1>6 DEF AfterSettle
  <2>2. S(rules)!Sound(x.next, S(rules)!Settled(sim, price))
    BY <1>1, <1>2, <1>4, <2>1, SettleIsSound
  <2>3. day' = x.next /\ rules' = rules /\ sim' = S(rules)!Settled(sim, price)
    BY <2>1 DEF Moment
  <2>4. ~S(rules)!Settled(sim, price).broken
    BY <2>2 DEF S!Sound
  <2>. QED
    BY <1>4, <2>2, <2>3, <2>4 DEF Replayed, SameInstruments, Working, RulesHold, Usable, Instruments, Base
<1>7. CASE x.version # 0
  <2>. DEFINE new == NextRules(x.next, x.version)
  <2>1. /\ Prepared(x) /\ CanSettleWith(sim, x.price, new)
        /\ after = [day |-> x.next, rules |-> new, sim |-> SettledUnder(sim, x.price, new)]
    BY <1>3, <1>7 DEF AfterSettle
  <2>2. day' = x.next /\ rules' = new /\ sim' = SettledUnder(sim, x.price, new)
    BY <2>1
  <2>. HIDE DEF new
  <2>3. SettledUnder(sim, x.price, new) = SettledUnder(sim, price, new)
    BY <1>5 DEF SettledUnder
  <2>4. CanSettleWith(sim, price, new)
    <3>1. RestorableBoth(sim, x.price, new) = RestorableBoth(sim, price, new)
      BY <2>3 DEF RestorableBoth
    <3>. QED
      BY <1>5, <2>1, <3>1 DEF CanSettleWith, MayChange
  <2>5. L!CanBind(Base, Schedules[x.version], x.next, x.version) /\ x.version \in DOMAIN Schedules
    BY <1>7, <2>1 DEF Prepared
  <2>6. Working'
    BY <1>2, <1>4, <2>2, <2>3, <2>4, <2>5, NewDaySound DEF Replayed, new
  <2>7. SameInstruments'
    BY <2>2, <2>5, DerivedApart DEF Replayed, SameInstruments, Instruments, Base, new
  <2>8. Usable'
    <3>1. SettledUnder(sim, price, new).broken = FALSE
      <4>1. S(rules)!AccountSettles(sim, price)
        BY <2>4 DEF CanSettleWith, MayChange
      <4>. QED
        BY <4>1, MorningComes DEF SettledUnder
    <3>. QED
      BY <2>2, <2>3, <3>1 DEF Usable
  <2>. QED
    BY <2>6, <2>7, <2>8 DEF Replayed
<1>. QED
  BY <1>6, <1>7

\* What is kept of any event is a sound simulator (replay/engine.go apply).
LEMMA AfterReplayed ==
  ASSUME Replayed, NEW e \in Events, WellLoaded(e), NEW after \in After(e),
         day' = after.day, rules' = after.rules, sim' = after.sim, UNCHANGED account
  PROVE  Replayed'
<1>1. LoadHolds(e)
  BY EventsAssumption
<1>2. /\ RulesHold /\ S(rules)!Sound(day, sim) /\ account \in DOMAIN Accounts
      /\ Base = Accounts[account].base /\ Schedules = Accounts[account].schedules
  BY DEF Replayed, Working, SameInstruments, Base, Schedules
<1>3. CASE e.kind = "mark"
  <2>. DEFINE x == e.load.quote
  <2>1. x.last \in Nat /\ x.pre \in Nat
    BY <1>1, <1>3 DEF LoadHolds
  <2>2. /\ x.inst \in Instruments /\ S(rules)!CanMark(sim, x.inst, x)
        /\ after \in With(S(rules)!Marked(sim, x.inst, x))
    BY <1>3, Zenon DEF After, Trial, Known
  <2>. HIDE DEF x
  <2>. QED
    BY <2>1, <2>2, MarkEvent, KeptDay
<1>4. CASE e.kind = "trade"
  <2>. DEFINE tr == e.load.trade
  <2>1. RequestHolds(tr) /\ tr.volume > 0
    BY <1>1, <1>4 DEF LoadHolds
  <2>2. /\ tr.inst \in Instruments /\ S(rules)!CanTrade(sim, day, tr)
        /\ after \in With(S(rules)!Traded(sim, day, tr))
    <3>1. After(e) = IF Known(tr.inst)
                     THEN Trial(S(rules)!CanTrade(sim, day, tr), S(rules)!Traded(sim, day, tr)) ELSE {}
      BY <1>4 DEF After
    <3>. QED
      BY <3>1, Zenon DEF Trial, Known
  <2>. HIDE DEF tr
  <2>. QED
    BY <1>2, <2>1, <2>2, KnownRequest, TradeEvent, KeptDay
<1>5. CASE e.kind = "accept"
  <2>. DEFINE x == e.load.order
  <2>1. RequestHolds(x.request) /\ x.request.volume > 0
    BY <1>1, <1>5 DEF LoadHolds
  <2>2. /\ x.request.inst \in Instruments /\ S(rules)!CanPlace(sim, x.id, x.request)
        /\ after \in With(S(rules)!Placed(sim, x.id, x.request))
    <3>1. After(e) = IF Known(x.request.inst)
                     THEN Trial(S(rules)!CanPlace(sim, x.id, x.request), Placed(sim, x.id, x.request)) ELSE {}
      BY <1>5 DEF After
    <3>. QED
      BY <3>1, Zenon DEF Trial, Known, Placed
  <2>. HIDE DEF x
  <2>. QED
    BY <1>2, <2>1, <2>2, KnownRequest, PlaceIsSound, KeptDay
<1>6. CASE e.kind = "fill"
  <2>1. after \in AfterFill(e.load.ref)
    BY <1>6 DEF After
  <2>. QED
    BY <2>1, FillEvent
<1>7. CASE e.kind = "cancel"
  <2>. DEFINE id == e.load.ref
  <2>1. S(rules)!CanRelease(sim, id) /\ after \in With(S(rules)!Released(sim, id))
    <3>1. After(e) = Trial(S(rules)!CanRelease(sim, id), S(rules)!Released(sim, id))
      BY <1>7 DEF After
    <3>. QED
      BY <3>1, Zenon DEF Trial
  <2>. HIDE DEF id
  <2>. QED
    BY <1>2, <2>1, ReleaseIsSound, KeptDay
<1>8. CASE e.kind = "deposit"
  <2>1. e.load.amount \in Int
    BY <1>1, <1>8 DEF LoadHolds
  <2>2. After(e) = IF A!CanDeposit(e.load.amount) THEN WithAccount(A!Deposited(sim.acc, e.load.amount)) ELSE {}
    BY <1>8 DEF After
  <2>. QED
    BY <2>1, <2>2, AccountEvents, Zenon
<1>9. CASE e.kind = "withdraw"
  <2>1. e.load.amount \in Int
    BY <1>1, <1>9 DEF LoadHolds
  <2>2. After(e) = IF A!CanWithdraw(sim.acc, e.load.amount)
                   THEN WithAccount(A!Withdrawn(sim.acc, e.load.amount)) ELSE {}
    BY <1>9 DEF After
  <2>. QED
    BY <2>1, <2>2, AccountEvents, Zenon
<1>10. CASE e.kind = "settle"
  <2>. DEFINE x == e.load.settlement
  <2>1. /\ x.next \in Nat \ {0}
        /\ \A name \in DOMAIN Accounts :
             /\ x.version # 0 => x.version \in DOMAIN Accounts[name].schedules
             /\ \A i \in DOMAIN Accounts[name].base.contracts : x.price[i] \in Nat \ {0}
    BY <1>1, <1>10 DEF LoadHolds
  <2>2. after \in AfterSettle(x)
    BY <1>10 DEF After
  <2>. HIDE DEF x
  <2>. QED
    BY <1>2, <2>1, <2>2, SettleEvent
<1>11. CASE e.kind = "risk"
  <2>1. after = Moment
    BY <1>11 DEF After
  <2>2. day' = day /\ rules' = rules /\ sim' = sim
    BY <2>1 DEF Moment
  <2>. QED
    BY <2>2 DEF Replayed, SameInstruments, Working, RulesHold, Usable, Instruments, Base
<1>. QED
  BY <1>3, <1>4, <1>5, <1>6, <1>7, <1>8, <1>9, <1>10, <1>11 DEF WellLoaded, LoadOf

\* Every event that is kept leaves a sound simulator (replay/engine.go Run).
LEMMA NextReplayed == Replayed /\ [ReplayNext]_replaying => Replayed'
<1>. SUFFICES ASSUME Replayed, [ReplayNext]_replaying PROVE Replayed'
  OBVIOUS
<1>1. CASE UNCHANGED vars
  BY <1>1 DEF vars, Replayed, SameInstruments, Working, RulesHold, Usable, Instruments, Base
<1>2. ASSUME NEW e \in Events, Keep(e) PROVE Replayed'
  BY <1>2, AfterReplayed DEF Keep, Accepted
<1>. QED
  BY <1>1, <1>2, Zenon DEF ReplayNext, Refuse, Pass, Exit, PublishReport, Environment, FailAt, replaying

(***************************************************************************)
(* A replay never sees a broken simulator: whatever the script, it is      *)
(* sound under the rules of its day at every event, since a refused event  *)
(* ends the run before its outcome is kept (replay/engine.go Run, apply).  *)
(***************************************************************************)
THEOREM ReplaysWorkSoundly ==
  ASSUME StartsMean
  PROVE  ReplaySpec => []Replayed
BY InitReplayed, NextReplayed, PTL DEF ReplaySpec, replaying

-----------------------------------------------------------------------------
(* What is reported of the risk (replay/engine.go, risk/policy.go). *)

\* The account of a sound simulator is one of an archive (account/state.go).
LEMMA SoundAccount ==
  ASSUME RulesHold, NEW s, S(rules)!Sound(day, s)
  PROVE  s.acc \in A!ArchiveType /\ s.acc \in A!AccountType
<1>1. PICK c : S(rules)!Ready(day, s, c)
  BY DEF S!Sound
<1>2. s.acc \in S(rules)!A!AccountType
  BY <1>1 DEF S!Ready, S!Funded, S!Healthy
<1>3. S(rules)!A!AccountType = A!AccountType
  BY DEF S!A!AccountType, A!AccountType, S!A!AccountOf, A!AccountOf, S!A!Algorithms, A!Algorithms
<1>4. A!AccountType \subseteq A!ArchiveType
  BY DEF A!AccountType, A!ArchiveType, A!AccountOf
<1>. QED
  BY <1>2, <1>3, <1>4

\* An assessment of an account and a policy that could be assessed.
Assessed(x) ==
  \E acc \in A!ArchiveType, policy \in Policies : R!CanAssess(acc, policy) /\ x = R!Assess(acc, policy)

\* Every risk reported is an assessment.
RisksAssessed == \A k \in DOMAIN report.frames : report.frames[k].risk # Nothing => Assessed(report.frames[k].risk)

\* The frame of an event holds an assessment of the account it found.
LEMMA FrameAssessed ==
  ASSUME Replayed, NEW e \in Events, WellLoaded(e), NEW after \in After(e), NEW before,
         FrameOf(e, before, after).risk # Nothing
  PROVE  Assessed(FrameOf(e, before, after).risk)
<1>1. FrameOf(e, before, after).risk = IF e.kind = "risk" THEN R!Assess(after.sim.acc, e.load.policy) ELSE Nothing
  BY DEF FrameOf
<1>2. e.kind = "risk" /\ FrameOf(e, before, after).risk = R!Assess(after.sim.acc, e.load.policy)
  BY <1>1
<1>3. after = Moment /\ R!CanAssess(sim.acc, e.load.policy)
  BY <1>2 DEF After
<1>4. after.sim = sim
  BY <1>3 DEF Moment
<1>5. sim.acc \in A!ArchiveType
  BY SoundAccount DEF Replayed, Working
<1>6. e.load.policy \in Policies
  BY <1>2, EventsAssumption DEF LoadHolds, Policies
<1>. QED
  BY <1>2, <1>3, <1>4, <1>5, <1>6 DEF Assessed

\* A kept event adds its frame, a refused or an ended run none (replay/engine.go Run).
LEMMA NextAssessed ==
  Replayed /\ Reporting /\ RisksAssessed /\ [ReplayNext]_replaying => RisksAssessed'
<1>. SUFFICES ASSUME Replayed, Reporting, RisksAssessed, [ReplayNext]_replaying PROVE RisksAssessed'
  OBVIOUS
<1>1. CASE report' = report
  BY <1>1 DEF RisksAssessed
<1>2. CASE Refuse
  BY <1>2 DEF Refuse, Unconfigured, RisksAssessed
<1>3. ASSUME NEW e \in Events, Keep(e) PROVE RisksAssessed'
  <2>1. PICK after \in After(e) : WellLoaded(e) /\ report' = Kept(e, after)
    BY <1>3 DEF Keep, Accepted
  <2>. DEFINE frame == FrameOf(e, Moment, after)
  <2>2. PICK X : report.frames \in Seq(X)
    BY <1>3 DEF Keep, Reporting
  <2>3. "frames" \in DOMAIN report
    BY <1>3 DEF Keep, Reporting
  <2>4. frame.risk # Nothing => Assessed(frame.risk)
    BY <2>1, FrameAssessed
  <2>. HIDE DEF frame
  <2>5. report'.frames = Append(report.frames, frame)
    BY <2>1, <2>3 DEF Kept, frame
  <2>6. /\ DOMAIN report'.frames = 1 .. Len(report.frames) + 1
        /\ \A k \in DOMAIN report'.frames :
             report'.frames[k] = IF k = Len(report.frames) + 1 THEN frame ELSE report.frames[k]
        /\ \A k \in DOMAIN report'.frames : k # Len(report.frames) + 1 => k \in DOMAIN report.frames
    BY <2>2, <2>5
  <2>. QED
    BY <2>4, <2>6 DEF RisksAssessed
<1>4. CASE \E e \in Events : FailAt(e)
  <2>1. report' = [report EXCEPT !.failedAt = Len(report.frames)]
    BY <1>4 DEF FailAt, Ended
  <2>2. report'.frames = report.frames
    BY <2>1
  <2>. QED
    BY <2>2 DEF RisksAssessed
<1>5. CASE Pass
  <2>1. report' = [report EXCEPT !.status = "passed"]
    BY <1>5 DEF Pass
  <2>2. report'.frames = report.frames
    BY <2>1
  <2>. QED
    BY <2>2 DEF RisksAssessed
<1>. QED
  BY <1>1, <1>2, <1>3, <1>4, <1>5, Zenon
     DEF ReplayNext, Exit, PublishReport, Environment, replaying, running

(***************************************************************************)
(* DepositIsLeast: every deposit a risk report of a replay asks for brings *)
(* the account back within all three thresholds, and a cent less does not  *)
(* (replay/engine.go apply, risk/policy.go Assess).                        *)
(***************************************************************************)
THEOREM ReportedDepositIsLeast ==
  ASSUME StartsMean
  PROVE  ReplaySpec => []DepositIsLeast
<1>1. ReplayInit => RisksAssessed
  BY DEF ReplayInit, RisksAssessed
<1>2. ASSUME RisksAssessed PROVE DepositIsLeast
  <2>1. SUFFICES ASSUME NEW k \in DOMAIN report.frames, report.frames[k].risk # Nothing
                 PROVE  LET x == report.frames[k].risk
                            short(amount) == R!Beyond(A!Deposited(x.account, amount), x.policy)
                        IN  /\ short(x.deposit) = {}
                            /\ x.deposit >= Cent => short(x.deposit - Cent) # {}
    BY DEF DepositIsLeast
  <2>. DEFINE x == report.frames[k].risk
  <2>2. PICK acc \in A!ArchiveType, policy \in Policies : R!CanAssess(acc, policy) /\ x = R!Assess(acc, policy)
    BY <1>2, <2>1 DEF RisksAssessed, Assessed
  <2>3. x.account = acc /\ x.policy = policy /\ x.deposit = R!Assess(acc, policy).deposit
    BY <2>2 DEF R!Assess
  <2>4. /\ Short(acc, policy, x.deposit) = {}
        /\ x.deposit >= Cent => Short(acc, policy, x.deposit - Cent) # {}
    BY <2>2, <2>3, LeastDeposit
  <2>. QED
    BY <2>3, <2>4 DEF Short
<1>. QED
  BY InitReplayed, NextReplayed, InitReporting, NextReporting, NextAssessed, <1>1, <1>2, PTL DEF ReplaySpec, replaying

-----------------------------------------------------------------------------
(* Submitting is placing and filling (submit.go Submit, place.go Place, Fill). *)

LEMMA SubmittedIsFilled ==
  ASSUME RulesHold, NEW s, S(rules)!Sound(day, s), NEW request \in S(rules)!TradeType,
         NEW id, id \notin B!IDs(s.book)
  PROVE  LET placed == Placed(s, id, request)
             freed  == S(rules)!Released(placed, id)
             filled == S(rules)!Traded(freed, day, S(rules)!TradeOf(placed.book.live[id].order))
         IN  [filled EXCEPT !.book = s.book] = S(rules)!Traded(s, day, Submitted(request))
<1>. DEFINE placed == O!Placed(s, id, request)
            freed  == O!Released(placed, id)
            tr     == O!TradeOf(placed.book.live[id].order)
            filled == O!Traded(freed, day, tr)
<1>1. PICK c : O!Ready(day, s, c)
  <2>1. O!Sound(day, s)
    BY SameSound
  <2>. QED
    BY <2>1 DEF O!Sound
<1>2. O!SimTyped(day, s) /\ s.acc \in O!A!AccountType
  BY <1>1, FacadeRules, O!SoundParts DEF O!Healthy
<1>3. request \in O!TradeType /\ id \notin O!B!IDs(s.book)
  BY SameOrderType DEF B!IDs, O!B!IDs
<1>4. [filled EXCEPT !.book = s.book] = O!Traded(s, day, O!Rewritten(request))
  BY <1>2, <1>3, FacadeRules, O!PlaceThenFill
<1>5. Placed(s, id, request) = placed /\ Submitted(request) = O!Rewritten(request)
  BY SameCanPlace, SameRewritten DEF Placed, Submitted
<1>6. S(rules)!Released(placed, id) = freed /\ S(rules)!TradeOf(placed.book.live[id].order) = tr
  BY SameReleased, SameTradeOf
<1>7. /\ S(rules)!Traded(freed, day, tr) = filled
      /\ S(rules)!Traded(s, day, Submitted(request)) = O!Traded(s, day, O!Rewritten(request))
  BY <1>5, SameTraded
<1>. HIDE DEF placed, freed, tr, filled
<1>. QED
  BY <1>4, <1>5, <1>6, <1>7

(***************************************************************************)
(* SubmitIsPlaceThenFill: to submit a valid request, and to place it and   *)
(* fill it at once, are the same but for the sequence number, whatever was *)
(* done to the account before (submit.go Submit, place.go Place and Fill). *)
(***************************************************************************)
THEOREM SubmittingIsPlacingAndFilling ==
  ASSUME StartsMean
  PROVE  Spec => []SubmitIsPlaceThenFill
<1>1. ASSUME Working PROVE SubmitIsPlaceThenFill
  <2>1. SUFFICES ASSUME Usable, NEW request \in Requests, NEW at \in Times, NEW id \in ID \ B!IDs(sim.book),
                        Valid(sim, at, request)
                 PROVE  LET placed == Placed(sim, id, request)
                            freed  == S(rules)!Released(placed, id)
                            filled == S(rules)!Traded(freed, day, S(rules)!TradeOf(placed.book.live[id].order))
                        IN  [filled EXCEPT !.book = sim.book] = S(rules)!Traded(sim, day, Submitted(request))
    BY Zenon DEF SubmitIsPlaceThenFill
  <2>2. request \in S(rules)!TradeType
    BY <2>1, InputsAssumption, ValidTyped
  <2>. QED
    BY <1>1, <2>1, <2>2, SubmittedIsFilled DEF Working
<1>. QED
  BY ClientsWorkSoundly, <1>1, PTL

-----------------------------------------------------------------------------
(* Orders that pass the checks become trades (submit.go, order/order.go). *)

\* Margin rules of a group agree every day if the base's do (lifecycle/rules.go NewDailyRules).
LEMMA DerivedAgree ==
  ASSUME account \in DOMAIN Accounts, BasesAgree, NEW d, NEW version \in DOMAIN Schedules
  PROVE  GroupsAgree(NextRules(d, version))
<1>. DEFINE new == NextRules(d, version)
<1>1. GroupsAgree(Base)
  BY DEF BasesAgree, Base
<1>2. ASSUME NEW i \in DOMAIN Base.contracts PROVE S(new)!KeyOf(i) = S(Base)!KeyOf(i)
  <2>1. new.contracts[i].product = Base.contracts[i].product
    BY DerivedApart
  <2>. HIDE DEF new
  <2>. QED
    BY <2>1 DEF S!KeyOf, S!GroupKey
<1>3. /\ DOMAIN new.contracts = DOMAIN Base.contracts
      /\ \A i \in DOMAIN Base.contracts : new.contracts[i].maxMarginSide = Base.contracts[i].maxMarginSide
  BY DerivedApart
<1>. HIDE DEF new
<1>4. GroupsAgree(new)
  BY <1>1, <1>2, <1>3 DEF GroupsAgree
<1>. QED
  BY <1>4 DEF new

\* Margin rules of a group agree at every step of a client.
LEMMA NextAgree ==
  ASSUME BasesAgree
  PROVE  GroupsAgree(rules) /\ SameInstruments /\ [Next]_vars => GroupsAgree(rules)'
<1>1. SUFFICES ASSUME GroupsAgree(rules), SameInstruments, [Next]_vars PROVE GroupsAgree(rules')
  OBVIOUS
<1>2. CASE \E price \in [Instruments -> Prices], next \in TradingCalendar.days, version \in DOMAIN Schedules :
             SettleWithRules(price, next, version)
  BY <1>1, <1>2, DerivedAgree DEF SettleWithRules, SameInstruments
<1>3. CASE UNCHANGED rules
  BY <1>1, <1>3 DEF GroupsAgree
<1>. QED
  BY <1>1, <1>2, <1>3, Zenon DEF Next, Submit, Place, Cancel, Fill, ApplyTrade, MarkPre, Advance, Becomes, vars

(***************************************************************************)
(* ValidOrdersTrade: a request that the checks let through is a trade once *)
(* prices are known, whatever the account was through before: the lots the *)
(* checks counted, the freezing split and the trade takes are the same     *)
(* (submit.go Submit, order/order.go Validate, trade.go ApplyTrade).       *)
(***************************************************************************)
THEOREM ValidOrdersBecomeTrades ==
  ASSUME StartsMean, BasesAgree
  PROVE  Spec => []ValidOrdersTrade
<1>1. ASSUME Working, GroupsAgree(rules) PROVE ValidOrdersTrade
  <2>1. SUFFICES ASSUME Usable, Priced(sim), NEW request \in Requests, NEW at \in Times, Valid(sim, at, request)
                 PROVE  S(rules)!CanTrade(sim, day, Submitted(request))
    BY DEF ValidOrdersTrade
  <2>2. RequestHolds(request)
    BY InputsAssumption
  <2>. QED
    BY <1>1, <2>1, <2>2, ValidTrades DEF Working
<1>2. Init => GroupsAgree(rules)
  BY AccountsAssumption, DerivedAgree DEF Init, Schedules
<1>. QED
  BY ClientsWorkSoundly, NextAgree, <1>1, <1>2, PTL DEF Spec

-----------------------------------------------------------------------------
(* Trades that close free margin (margin/margin.go Compute). *)

LEMMA SameVolume ==
  /\ \A lots : S(rules)!Volume(lots) = O!Volume(lots)
  /\ S(rules)!Directions = O!Directions
BY SameFolds DEF S!Volume, O!Volume, S!VolumeWhere, O!VolumeWhere, S!Total, O!Total, S!Directions, O!Directions

\* After this trade no side is larger than it was.
NoneLarger(after, s) ==
  \A i \in Instruments, dir \in {"Buy", "Sell"} :
    S(rules)!Volume(after.positions[i][dir]) <= S(rules)!Volume(s.positions[i][dir])

\* A trade after which no side is larger than it was frees margin (trade.go commit).
LEMMA TradeFrees ==
  ASSUME RulesHold, day \in Int, NEW s, S(rules)!Sound(day, s), NEW tr \in S(rules)!TradeType, S(rules)!CanTrade(s, day, tr),
         NoneLarger(S(rules)!Traded(s, day, tr), s)
  PROVE  S(rules)!Traded(s, day, tr).acc.currMargin <= s.acc.currMargin
<1>1. O!Sound(day, s) /\ tr \in O!TradeType /\ O!CanTrade(s, day, tr) /\ S(rules)!Traded(s, day, tr) = O!Traded(s, day, tr)
  BY SameSound, SameOrderType, SameCanTrade, SameTraded
<1>2. \A i \in DOMAIN rules.contracts, dir \in O!Directions :
        O!Volume(O!Traded(s, day, tr).positions[i][dir]) <= O!Volume(s.positions[i][dir])
  <2>1. \A i \in DOMAIN rules.contracts, dir \in {"Buy", "Sell"} :
          O!Volume(O!Traded(s, day, tr).positions[i][dir]) <= O!Volume(s.positions[i][dir])
    BY <1>1, SameVolume, Zenon DEF NoneLarger, Instruments
  <2>. QED
    BY <2>1 DEF O!Directions
<1>3. day \in Int
  OBVIOUS
<1>4. O!Traded(s, day, tr).acc.currMargin <= s.acc.currMargin
  BY <1>1, <1>2, <1>3, FacadeRules, O!NoSideGrew
<1>. QED
  BY <1>1, <1>4

\* So does every step of a client.
LEMMA StepFrees ==
  ASSUME Working, Next, day' = day, sim'.positions # sim.positions, NoneLarger(sim', sim)
  PROVE  sim'.acc.currMargin <= sim.acc.currMargin
<1>. USE DEF Working
<1>1. Usable /\ S(rules)!Sound(day, sim) /\ RulesHold /\ day \in Int
  <2>1. Usable
    BY Zenon DEF Next, Submit, Place, Cancel, Fill, ApplyTrade, MarkPre, Advance, SettleWithRules, Becomes
  <2>. QED
    BY <2>1
<1>. HIDE DEF Working
<1>2. DOMAIN sim = O!SimFields /\ sim.acc \in O!A!AccountType
  <2>1. PICK c : O!Ready(day, sim, c)
    <3>1. O!Sound(day, sim)
      BY <1>1, SameSound
    <3>. QED
      BY <3>1 DEF O!Sound
  <2>2. O!SimTyped(day, sim) /\ sim.acc \in O!A!AccountType
    BY <1>1, <2>1, FacadeRules, O!SoundParts DEF O!Healthy
  <2>. QED
    BY <2>2 DEF O!SimTyped
<1>3. ASSUME NEW s, DOMAIN s = O!SimFields, NEW id
      PROVE  /\ \A inst, quote : S(rules)!Marked(s, inst, quote).positions = s.positions
             /\ \A request : Placed(s, id, request).positions = s.positions
             /\ S(rules)!Released(s, id).positions = s.positions /\ DOMAIN S(rules)!Released(s, id) = O!SimFields
             /\ s.acc \in O!A!AccountType => S(rules)!Released(s, id).acc.currMargin = s.acc.currMargin
             /\ \A entry : S(rules)!PutBack(s, id, entry).positions = s.positions
  <2>1. /\ \A inst, quote : O!Marked(s, inst, quote).positions = s.positions
        /\ \A request : O!Placed(s, id, request).positions = s.positions
        /\ O!Released(s, id).positions = s.positions /\ DOMAIN O!Released(s, id) = O!SimFields
        /\ s.acc \in O!A!AccountType => O!Released(s, id).acc.currMargin = s.acc.currMargin
        /\ \A entry : O!PutBack(s, id, entry).positions = s.positions
    <3>1. /\ O!ContractTyped /\ O!SimulatorChoices /\ O!InstrumentsFinite /\ O!CentPositive /\ O!FeeChoices
          /\ O!MarginChoices
      BY <1>1, FacadeRules
    <3>. QED
      BY <1>3, <3>1, O!OthersMoveNothing
  <2>2. \A inst, quote : S(rules)!Marked(s, inst, quote).positions = s.positions
    BY <2>1, SameCanMark
  <2>3. \A request : Placed(s, id, request).positions = s.positions
    BY <2>1, SameCanPlace DEF Placed
  <2>4. /\ S(rules)!Released(s, id).positions = s.positions /\ DOMAIN S(rules)!Released(s, id) = O!SimFields
        /\ s.acc \in O!A!AccountType => S(rules)!Released(s, id).acc.currMargin = s.acc.currMargin
    BY <2>1, SameReleased
  <2>5. \A entry : S(rules)!PutBack(s, id, entry).positions = s.positions
    BY <2>1, SamePutBack
  <2>. QED
    BY <2>2, <2>3, <2>4, <2>5
<1>4. ASSUME NEW request \in Requests, NEW at \in Times, Submit(at, request)
      PROVE  sim'.acc.currMargin <= sim.acc.currMargin
  <2>1. sim' = S(rules)!Traded(sim, day, Submitted(request)) /\ S(rules)!CanTrade(sim, day, Submitted(request))
    BY <1>4 DEF Submit, Becomes
  <2>2. request \in O!TradeType
    BY <1>1, <1>4, InputsAssumption, ValidTyped, SameOrderType DEF Submit
  <2>3. Submitted(request) \in S(rules)!TradeType
    BY <1>1, <2>2, SameEffective, SameRewritten, SameOrderType DEF Submitted
  <2>. QED
    BY <1>1, <2>1, <2>3, TradeFrees
<1>5. ASSUME NEW id \in ID, Fill(id) PROVE sim'.acc.currMargin <= sim.acc.currMargin
  <2>. DEFINE freed == S(rules)!Released(sim, id)
              tr    == S(rules)!TradeOf(sim.book.live[id].order)
  <2>1. /\ S(rules)!CanRelease(sim, id)
        /\ \/ S(rules)!CanTrade(freed, day, tr) /\ sim' = S(rules)!Traded(freed, day, tr)
           \/ sim' = S(rules)!PutBack(freed, id, sim.book.live[id])
    BY <1>5 DEF Fill, Becomes
  <2>2. S(rules)!Sound(day, freed) /\ tr \in S(rules)!TradeType
    BY <1>1, <2>1, ReleaseIsSound, LiveTrade
  <2>3. freed.positions = sim.positions /\ DOMAIN freed = O!SimFields /\ freed.acc.currMargin = sim.acc.currMargin
    BY <1>2, <1>3
  <2>. HIDE DEF freed, tr
  <2>4. sim' # S(rules)!PutBack(freed, id, sim.book.live[id])
    BY <1>3, <2>3
  <2>5. S(rules)!CanTrade(freed, day, tr) /\ sim' = S(rules)!Traded(freed, day, tr)
    BY <2>1, <2>4
  <2>6. NoneLarger(sim', freed)
    BY <2>3 DEF NoneLarger
  <2>. QED
    BY <1>1, <2>2, <2>3, <2>5, <2>6, TradeFrees
<1>6. ASSUME NEW tr \in Trades, ApplyTrade(tr) PROVE sim'.acc.currMargin <= sim.acc.currMargin
  <2>1. /\ sim' = S(rules)!Traded(sim, day, tr) /\ S(rules)!CanTrade(sim, day, tr)
        /\ tr.inst \in Instruments
    BY <1>6 DEF ApplyTrade, Becomes
  <2>2. RequestHolds(tr) /\ tr.volume > 0
    BY InputsAssumption
  <2>3. tr \in S(rules)!TradeType
    BY <2>1, <2>2 DEF RequestHolds, Instruments, S!TradeType, S!Directions, S!Offsets
  <2>. QED
    BY <1>1, <2>1, <2>3, TradeFrees
<1>7. ASSUME NEW id \in ID, NEW request \in Requests, NEW at \in Times, Place(at, id, request) PROVE FALSE
  <2>1. sim' = Placed(sim, id, request)
    BY <1>7 DEF Place, Becomes
  <2>2. Placed(sim, id, request).positions = sim.positions
    BY <1>2, <1>3
  <2>. QED
    BY <2>1, <2>2
<1>8. ASSUME NEW id \in ID, Cancel(id) PROVE FALSE
  <2>1. sim' = S(rules)!Released(sim, id)
    BY <1>8 DEF Cancel, Becomes
  <2>. QED
    BY <1>2, <1>3, <2>1
<1>9. ASSUME NEW inst \in Instruments, NEW pre \in Prices, MarkPre(inst, pre) PROVE FALSE
  <2>1. sim' = S(rules)!Marked(sim, inst, [last |-> 0, pre |-> pre])
    BY <1>9 DEF MarkPre, Becomes
  <2>. QED
    BY <1>2, <1>3, <2>1
<1>10. ASSUME NEW bar \in Bars, Advance(bar) PROVE FALSE
  <2>1. sim' = S(rules)!Marked(sim, bar.inst, Closing(bar))
    BY <1>10 DEF Advance, Becomes
  <2>. QED
    BY <1>2, <1>3, <2>1
<1>11. ASSUME NEW price \in [Instruments -> Prices], NEW next \in TradingCalendar.days,
              NEW version \in DOMAIN Schedules, SettleWithRules(price, next, version)
       PROVE  FALSE
  <2>1. day' = next /\ NextRules(next, version).day > day
    BY <1>11 DEF SettleWithRules, CanSettleWith, MayChange
  <2>2. NextRules(next, version).day = next
    BY DEF NextRules, L!DailyRules
  <2>. QED
    BY <1>1, <2>1, <2>2
<1>. QED
  BY <1>4, <1>5, <1>6, <1>7, <1>8, <1>9, <1>10, <1>11, Zenon DEF Next

(***************************************************************************)
(* ClosingFreesMargin: a trade after which no side is larger is a close,   *)
(* and a close leaves every instrument's lots lighter by whatever a lot is *)
(* weighed with, so that what they occupy, the larger side of a group      *)
(* included, does not grow (trade.go ApplyTrade, margin/margin.go Compute).*)
(***************************************************************************)
THEOREM ClosesFreeMargin ==
  ASSUME StartsMean
  PROVE  Spec => ClosingFreesMargin
<1>1. ASSUME Working, [Next]_vars
      PROVE  [/\ day' = day /\ sim'.positions # sim.positions
              /\ \A i \in Instruments, dir \in {"Buy", "Sell"} :
                   S(rules)!Volume(sim'.positions[i][dir]) <= S(rules)!Volume(sim.positions[i][dir])
              => sim'.acc.currMargin <= sim.acc.currMargin]_vars
  BY <1>1, StepFrees DEF NoneLarger
<1>. QED
  BY ClientsWorkSoundly, <1>1, PTL DEF Spec, ClosingFreesMargin

-----------------------------------------------------------------------------
(* Orders that rest in the book (order/order.go Validate, place.go). *)

\* A request that passes keeps passing the checks whose facts the day does not change (order/order.go Validate).
LEMMA ValidFits ==
  ASSUME RulesHold, NEW s, NEW at, NEW request, RequestHolds(request), Valid(s, at, request)
  PROVE  LET order == O!FrozenOrder(s, O!Rewritten(request))
             pre   == s.prices[order.inst].pre
         IN  pre # 0 /\ OrderFits(rules.contracts[order.inst], TickRounding[order.inst], pre, order)
<1>. DEFINE o     == O!Rewritten(request)
            req   == O!DatedTrade(o)
            order == O!FrozenOrder(s, o)
            need  == Need(S(rules)!FrozenOrder(s, Effective(s, request)))
            facts == Facts(s, at, req, need)
            pre   == s.prices[req.inst].pre
            rule  == rules.contracts[req.inst]
<1>1. request \in O!TradeType /\ o \in O!TradeType /\ Effective(s, request) = req
  BY ValidTyped, SameEffective
<1>2. OK(req, facts)
  BY <1>1 DEF Valid
<1>3. req.inst = o.inst /\ req.price = o.price /\ req.volume = o.volume
  <2>. HIDE DEF o
  <2>. QED
    BY <1>1, FacadeRules, O!DatedTyped
<1>4. order.inst = req.inst /\ order.price = req.price /\ order.volume = req.volume
  <2>. HIDE DEF o, req
  <2>. QED
    BY <1>1, <1>3 DEF O!FrozenOrder, O!OrderFreezing
<1>5. /\ facts.rule = rule /\ facts.pre = (IF pre = 0 THEN Missing ELSE pre)
      /\ facts.rounding = TickRounding[req.inst]
  <2>. HIDE DEF req, need
  <2>. QED
    BY DEF Facts
<1>. HIDE DEF facts, o, req, order, need
<1>6. \A c \in Checks : Checkable(req, facts)[c] /\ Passes(req, facts)[c]
  BY <1>2, AcceptedPasses
<1>7. /\ LimitsKnown(facts.rule, facts.pre, facts.rounding)
      /\ WithinLimits(req.price, facts.rule, facts.pre, facts.rounding)
  <2>1. "PriceLimit" \in Checks
    BY DEF Checks
  <2>2. Checkable(req, facts)["PriceLimit"] = LimitsKnown(facts.rule, facts.pre, facts.rounding)
    BY Zenon DEF Checkable
  <2>3. Passes(req, facts)["PriceLimit"] =
          (Checkable(req, facts)["PriceLimit"] => WithinLimits(req.price, facts.rule, facts.pre, facts.rounding))
    BY Zenon DEF Passes
  <2>. QED
    BY <1>6, <2>1, <2>2, <2>3, Zenon
<1>8. facts.rule.isTrading /\ (facts.rule.tick > 0 => req.price % facts.rule.tick = 0)
  <2>1. "Tradable" \in Checks /\ "PriceTick" \in Checks
    BY DEF Checks
  <2>2. /\ Checkable(req, facts)["Tradable"] = (facts.rule # Missing)
        /\ Checkable(req, facts)["PriceTick"] = (facts.rule # Missing /\ facts.rule.tick > 0)
    BY Zenon DEF Checkable
  <2>3. /\ Passes(req, facts)["Tradable"] = (Checkable(req, facts)["Tradable"] => facts.rule.isTrading)
        /\ Passes(req, facts)["PriceTick"] =
             (Checkable(req, facts)["PriceTick"] => req.price % facts.rule.tick = 0)
    BY Zenon DEF Passes
  <2>. QED
    BY <1>6, <2>1, <2>2, <2>3, Zenon
<1>9. facts.rule.maxVolume > 0 =>
        req.volume <= facts.rule.maxVolume /\ (facts.rule.minVolume > 0 => req.volume >= facts.rule.minVolume)
  <2>1. "VolumeRange" \in Checks
    BY DEF Checks
  <2>2. Checkable(req, facts)["VolumeRange"] = (facts.rule # Missing /\ facts.rule.maxVolume > 0)
    BY Zenon DEF Checkable
  <2>3. Passes(req, facts)["VolumeRange"] =
          (Checkable(req, facts)["VolumeRange"] =>
             /\ req.volume <= facts.rule.maxVolume
             /\ facts.rule.minVolume > 0 => req.volume >= facts.rule.minVolume)
    BY Zenon DEF Passes
  <2>. QED
    BY <1>6, <2>1, <2>2, <2>3, Zenon
<1>10. pre # 0 /\ facts.pre = pre
  BY <1>5, <1>7 DEF LimitsKnown
<1>11. OrderFits(rule, TickRounding[req.inst], pre, order)
  <2>. HIDE DEF pre, rule
  <2>. QED
    BY <1>4, <1>5, <1>7, <1>8, <1>9, <1>10, Zenon DEF OrderFits
<1>12. order.inst = req.inst
  BY <1>4
<1>. QED
  BY <1>10, <1>11, <1>12 DEF order, o

\* Orders that are left as they were pass as they did (place.go, simulator.go Mark).
LEMMA KeptRest ==
  ASSUME RulesHold, NEW s, O!BookTyped(s.book), Resting(rules, s), NEW after, O!KeepsOrders(s, after)
  PROVE  Resting(rules, after)
<1>1. SUFFICES ASSUME NEW id \in B!IDs(after.book)
               PROVE  LET order == after.book.live[id].order
                          pre   == after.prices[order.inst].pre
                      IN  pre # 0 /\ OrderFits(rules.contracts[order.inst], TickRounding[order.inst], pre, order)
  BY DEF Resting
<1>. DEFINE order == after.book.live[id].order
            pre   == s.prices[order.inst].pre
<1>2. id \in B!IDs(s.book) /\ order = s.book.live[id].order
  BY DEF O!KeepsOrders, B!IDs, O!B!IDs
<1>3. pre # 0 /\ OrderFits(rules.contracts[order.inst], TickRounding[order.inst], pre, order)
  BY <1>2, Zenon DEF Resting
<1>4. order.inst \in DOMAIN rules.contracts
  <2>1. O!TradeOf(order) \in O!TradeType
    BY <1>2 DEF O!BookTyped, O!OrderTyped, B!IDs, O!B!IDs
  <2>. HIDE DEF order
  <2>. QED
    BY <2>1 DEF O!TradeOf, O!TradeType
<1>. HIDE DEF order, pre
<1>5. after.prices[order.inst].pre = pre
  BY <1>3, <1>4 DEF O!KeepsOrders, pre
<1>. QED
  BY <1>3, <1>5 DEF order

\* The orders in the book of a simulator that can be used pass what stays the same within a day.
StillFit == Usable => Resting(rules, sim)

\* The orders a client begins with pass what stays the same within a day.
LEMMA InitRests ==
  ASSUME StartsRest
  PROVE  Init => StillFit
<1>. SUFFICES ASSUME Init PROVE Resting(rules, sim)
  BY DEF StillFit
<1>1. account \in DOMAIN Accounts /\ sim \in Accounts[account].starts
  BY DEF Init
<1>2. rules = L!DailyRules(Accounts[account].base, Accounts[account].schedules[1], 1, 1)
  BY DEF Init, NextRules, Base, Schedules
<1>. QED
  BY <1>1, <1>2 DEF StartsRest

\* What a step that leaves the orders as they were does to what they pass (place.go, simulator.go).
LEMMA StepKeepsRest ==
  ASSUME RulesHold, Resting(rules, sim), O!BookTyped(sim.book), NEW after, ~after.broken => O!KeepsOrders(sim, after),
         Becomes(after)
  PROVE  StillFit'
<1>1. sim' = after /\ rules' = rules
  BY DEF Becomes
<1>2. ~after.broken => Resting(rules, after)
  BY KeptRest
<1>. QED
  BY <1>1, <1>2 DEF StillFit, Usable

\* Every step of a client leaves such orders in the book.
LEMMA NextRests == Working /\ StillFit /\ [Next]_vars => StillFit'
<1>. SUFFICES ASSUME Working, StillFit, [Next]_vars PROVE StillFit'
  OBVIOUS
<1>1. CASE UNCHANGED vars
  BY <1>1 DEF vars, StillFit, Usable
<1>2. ASSUME Next PROVE StillFit'
  <2>1. Usable
    BY <1>2, Zenon DEF Next, Submit, Place, Cancel, Fill, ApplyTrade, MarkPre, Advance, SettleWithRules, Becomes
  <2>2. S(rules)!Sound(day, sim) /\ RulesHold /\ Resting(rules, sim)
    BY <2>1 DEF Working, StillFit
  <2>3. DOMAIN sim = O!SimFields /\ O!BookTyped(sim.book) /\ sim.prices \in O!PricesType
    <3>1. PICK c : O!Ready(day, sim, c)
      <4>1. O!Sound(day, sim)
        BY <2>2, SameSound
      <4>. QED
        BY <4>1 DEF O!Sound
    <3>2. O!SimTyped(day, sim)
      BY <2>2, <3>1, FacadeRules, O!SoundParts
    <3>. QED
      BY <3>2 DEF O!SimTyped
  <2>4. ASSUME NEW s, DOMAIN s = O!SimFields, NEW tr PROVE O!KeepsOrders(s, S(rules)!Traded(s, day, tr))
    BY <2>2, <2>4, FacadeRules, SameTraded, O!TradeKeepsOrders
  <2>5. ASSUME NEW id, S(rules)!CanRelease(sim, id)
        PROVE  LET freed == S(rules)!Released(sim, id) IN
               /\ O!KeepsOrders(sim, freed) /\ DOMAIN freed = O!SimFields
               /\ LET after == S(rules)!PutBack(freed, id, sim.book.live[id]) IN
                  ~after.broken => O!KeepsOrders(sim, after)
    <3>1. id \in O!B!IDs(sim.book)
      BY <2>5 DEF S!CanRelease, S!B!IDs, O!B!IDs
    <3>2. S(rules)!Released(sim, id) = O!Released(sim, id)
      BY SameReleased
    <3>3. S(rules)!PutBack(O!Released(sim, id), id, sim.book.live[id])
            = O!PutBack(O!Released(sim, id), id, sim.book.live[id])
      BY SamePutBack
    <3>. QED
      BY <2>2, <2>3, <3>1, <3>2, <3>3, FacadeRules, O!ReleaseKeepsOrders, O!PutBackKeepsOrders
  <2>6. ASSUME NEW inst, NEW quote, S(rules)!CanMark(sim, inst, quote), Becomes(S(rules)!Marked(sim, inst, quote))
        PROVE  StillFit'
    <3>1. O!CanMark(sim, inst, quote) /\ S(rules)!Marked(sim, inst, quote) = O!Marked(sim, inst, quote)
      BY <2>6, SameCanMark
    <3>2. O!KeepsOrders(sim, O!Marked(sim, inst, quote))
      BY <2>2, <2>3, <3>1, FacadeRules, O!MarkKeepsOrders
    <3>. QED
      BY <2>2, <2>3, <2>6, <3>1, <3>2, StepKeepsRest
  <2>7. ASSUME NEW tr, Becomes(S(rules)!Traded(sim, day, tr)) PROVE StillFit'
    BY <2>2, <2>3, <2>4, <2>7, StepKeepsRest
  <2>8. CASE \E request \in Requests, at \in Times : Submit(at, request)
    BY <2>7, <2>8 DEF Submit
  <2>9. CASE \E tr \in Trades : ApplyTrade(tr)
    BY <2>7, <2>9 DEF ApplyTrade
  <2>10. CASE \E inst \in Instruments, pre \in Prices : MarkPre(inst, pre)
    BY <2>6, <2>10, Zenon DEF MarkPre
  <2>11. CASE \E bar \in Bars : Advance(bar)
    BY <2>6, <2>11, Zenon DEF Advance
  <2>12. CASE \E id \in ID : Cancel(id)
    BY <2>2, <2>3, <2>5, <2>12, StepKeepsRest DEF Cancel
  <2>13. ASSUME NEW id \in ID, Fill(id) PROVE StillFit'
    <3>. DEFINE freed == S(rules)!Released(sim, id)
                tr    == S(rules)!TradeOf(sim.book.live[id].order)
                back  == S(rules)!PutBack(freed, id, sim.book.live[id])
                traded == S(rules)!Traded(freed, day, tr)
    <3>1. /\ S(rules)!CanRelease(sim, id)
          /\ Becomes(traded) \/ Becomes(back)
      BY <2>13 DEF Fill, Becomes
    <3>2. O!KeepsOrders(sim, freed) /\ DOMAIN freed = O!SimFields /\ (~back.broken => O!KeepsOrders(sim, back))
      BY <2>5, <3>1
    <3>3. O!KeepsOrders(freed, traded)
      BY <2>4, <3>2
    <3>. HIDE DEF freed, tr, back, traded
    <3>4. O!KeepsOrders(sim, traded)
      BY <3>2, <3>3, Zenon DEF O!KeepsOrders
    <3>. QED
      BY <2>2, <2>3, <3>1, <3>2, <3>4, StepKeepsRest
  <2>14. ASSUME NEW id \in ID, NEW request \in Requests, NEW at \in Times, Place(at, id, request) PROVE StillFit'
    <3>. DEFINE order == O!FrozenOrder(sim, O!Rewritten(request))
                after == O!Placed(sim, id, request)
    <3>1. Valid(sim, at, request) /\ sim' = after /\ rules' = rules
      BY <2>14, SameCanPlace DEF Place, Becomes, Placed
    <3>2. RequestHolds(request)
      BY InputsAssumption
    <3>3. LET pre == sim.prices[order.inst].pre
          IN  pre # 0 /\ OrderFits(rules.contracts[order.inst], TickRounding[order.inst], pre, order)
      BY <2>2, <3>1, <3>2, ValidFits
    <3>4. /\ after.prices = sim.prices
          /\ \A x \in B!IDs(after.book) : \/ x = id /\ after.book.live[x].order = order
                                          \/ x \in B!IDs(sim.book) /\ after.book.live[x].order = sim.book.live[x].order
      <4>1. /\ after.prices = sim.prices
            /\ \A x \in O!B!IDs(after.book) :
                 \/ x = id /\ after.book.live[x].order = order
                 \/ x \in O!B!IDs(sim.book) /\ after.book.live[x].order = sim.book.live[x].order
        BY <2>2, <2>3, FacadeRules, O!PlaceKeepsOrders
      <4>. HIDE DEF after, order
      <4>. QED
        BY <4>1 DEF B!IDs, O!B!IDs
    <3>. HIDE DEF after, order
    <3>5. Resting(rules, after)
      BY <2>2, <3>3, <3>4, Zenon DEF Resting
    <3>. QED
      BY <3>1, <3>5 DEF StillFit
  <2>15. ASSUME NEW price \in [Instruments -> Prices], NEW next \in TradingCalendar.days,
                NEW version \in DOMAIN Schedules, SettleWithRules(price, next, version)
         PROVE  StillFit'
    <3>1. /\ S(rules)!CanSettle(sim, price) /\ S(rules)!AccountSettles(sim, price)
          /\ sim' = SettledUnder(sim, price, NextRules(next, version))
      BY <2>15 DEF SettleWithRules, CanSettleWith, MayChange
    <3>2. B!IDs(sim.book) = {}
      BY <3>1 DEF S!CanSettle, S!B!IDs, B!IDs
    <3>3. S(rules)!Settled(sim, price).book = sim.book /\ "book" \in DOMAIN S(rules)!Settled(sim, price)
      BY <3>1, MorningComes
    <3>4. sim'.book = sim.book
      BY <3>1, <3>3 DEF SettledUnder
    <3>. QED
      BY <3>2, <3>4 DEF StillFit, Resting
  <2>. QED
    BY <1>2, <2>8, <2>9, <2>10, <2>11, <2>12, <2>13, <2>14, <2>15, Zenon DEF Next
<1>. QED
  BY <1>1, <1>2

\* What the checks make of a resting order (place.go, order/order.go Validate).
LEMMA RestsValid ==
  ASSUME RulesHold, NEW s, S(rules)!Sound(day, s), Resting(rules, s), NEW id \in B!IDs(s.book), NEW at
  PROVE  LET freed == S(rules)!Released(s, id)
             req   == S(rules)!DatedTrade(S(rules)!TradeOf(s.book.live[id].order))
         IN  Rejecting(req, Facts(freed, at, req, 0)) \subseteq {"Session", "Funds", "PositionLimit"}
<1>. DEFINE order == s.book.live[id].order
            req   == O!DatedTrade(O!TradeOf(order))
            freed == O!Released(s, id)
            held  == O!Opposite(req.dir)
            lots  == s.positions[req.inst][held]
            frozen == O!FrozenOf(O!B!Remove(s.book, id), req.inst, held)
            facts == Facts(freed, at, req, 0)
            pre   == s.prices[order.inst].pre
            rule  == rules.contracts[order.inst]
<1>1. PICK c : O!Ready(day, s, c)
  <2>1. O!Sound(day, s)
    BY SameSound
  <2>. QED
    BY <2>1 DEF O!Sound
<1>2. O!SimTyped(day, s) /\ O!Covered(s) /\ DOMAIN s = O!SimFields /\ id \in O!B!IDs(s.book)
  BY <1>1, FacadeRules, O!SoundParts DEF B!IDs, O!B!IDs
<1>3. /\ req \in O!TradeType /\ req.inst = order.inst /\ req.price = order.price /\ req.volume = order.volume
      /\ req.offset # "Open" =>
           /\ O!VolumeToday(lots) - frozen.today >= 0 /\ O!VolumeHistory(lots) - frozen.history >= 0
           /\ CASE req.offset = "CloseToday" -> req.volume <= O!VolumeToday(lots) - frozen.today
                [] req.offset = "CloseYesterday" -> req.volume <= O!VolumeHistory(lots) - frozen.history
                [] OTHER -> /\ rules.contracts[req.inst].dateType = "NoUseHistory"
                            /\ req.volume <= (O!VolumeToday(lots) - frozen.today)
                                               + (O!VolumeHistory(lots) - frozen.history)
  BY <1>2, FacadeRules, O!ReleasedClosable
<1>4. pre # 0 /\ OrderFits(rule, TickRounding[order.inst], pre, order)
  BY DEF Resting
<1>5. freed.book = O!B!Remove(s.book, id) /\ freed.prices = s.prices /\ freed.positions = s.positions
  BY <1>2, FacadeRules, O!ReleaseKeepsOrders
<1>6. /\ S(rules)!Released(s, id) = freed
      /\ S(rules)!DatedTrade(S(rules)!TradeOf(order)) = req
  BY SameReleased, SameDatedTrade, SameTradeOf
<1>7. req.dir \in {"Buy", "Sell"} /\ Against(req.dir) = held /\ held \in {"Buy", "Sell"}
  BY <1>3 DEF Against, O!Opposite, O!TradeType, O!Directions
<1>. HIDE DEF order, req, freed
<1>8. /\ facts.rule = rule /\ facts.pre = (IF pre = 0 THEN Missing ELSE pre) /\ facts.rounding = TickRounding[order.inst]
      /\ facts.frozen = FrozenClose(freed, req)
      /\ facts.position = [dateType |-> rules.contracts[req.inst].dateType,
                           Buy |-> LotsOf(s.positions[req.inst]["Buy"]),
                           Sell |-> LotsOf(s.positions[req.inst]["Sell"])]
  <2>1. /\ facts.rule = rules.contracts[req.inst] /\ facts.rounding = TickRounding[req.inst]
        /\ facts.pre = (IF freed.prices[req.inst].pre = 0 THEN Missing ELSE freed.prices[req.inst].pre)
    BY DEF Facts
  <2>2. /\ facts.frozen = FrozenClose(freed, req)
        /\ facts.position = [dateType |-> rules.contracts[req.inst].dateType,
                             Buy |-> LotsOf(freed.positions[req.inst]["Buy"]),
                             Sell |-> LotsOf(freed.positions[req.inst]["Sell"])]
    BY Zenon DEF Facts
  <2>. HIDE DEF facts
  <2>. QED
    BY <1>3, <1>5, <2>1, <2>2
<1>. HIDE DEF facts, rule, pre
<1>9. facts.pre = pre
  BY <1>4, <1>8
<1>10. ASSUME req.offset # "Open"
       PROVE  ClosableLots(req, facts.position[Against(req.dir)], facts.frozen, facts.position.dateType)
  <2>1. facts.position[held] = LotsOf(lots) /\ facts.position.dateType = rules.contracts[req.inst].dateType
    <3>1. /\ facts.position["Buy"] = LotsOf(s.positions[req.inst]["Buy"])
          /\ facts.position["Sell"] = LotsOf(s.positions[req.inst]["Sell"])
          /\ facts.position.dateType = rules.contracts[req.inst].dateType
      BY <1>8
    <3>. HIDE DEF held
    <3>. QED
      BY <1>7, <3>1
  <2>2. LotsOf(lots).today = O!VolumeToday(lots) /\ LotsOf(lots).history = O!VolumeHistory(lots)
    <3>. HIDE DEF lots
    <3>. QED
      BY SameDrifts, SameKept, SameTodayTierLots DEF LotsOf
  <2>3. facts.frozen = frozen
    <3>1. FrozenClose(freed, req) = S(rules)!FrozenOf(freed.book, req.inst, Against(req.dir))
      BY <1>10 DEF FrozenClose
    <3>. QED
      BY <1>5, <1>7, <1>8, <3>1, SameFrozenOf
  <2>. HIDE DEF lots, frozen, held
  <2>4. ClosableLots(req, LotsOf(lots), frozen, rules.contracts[req.inst].dateType)
    BY <1>3, <1>10, <2>2, Zenon DEF ClosableLots
  <2>. QED
    BY <1>7, <2>1, <2>3, <2>4
<1>11. ASSUME NEW check \in {"Tradable", "Closable", "PriceTick", "PriceLimit", "VolumeRange"}
       PROVE  Passes(req, facts)[check]
  <2>1. CASE check = "Tradable"
    <3>1. Passes(req, facts)["Tradable"] = (Checkable(req, facts)["Tradable"] => facts.rule.isTrading)
      BY Zenon DEF Passes
    <3>. QED
      BY <1>4, <1>8, <2>1, <3>1, Zenon DEF OrderFits
  <2>2. CASE check = "Closable"
    <3>1. Passes(req, facts)["Closable"] =
            (Checkable(req, facts)["Closable"] /\ req.offset # "Open" =>
               ClosableLots(req, facts.position[Against(req.dir)], facts.frozen, facts.position.dateType))
      BY Zenon DEF Passes
    <3>. QED
      BY <1>10, <2>2, <3>1, Zenon
  <2>3. CASE check = "PriceTick"
    <3>1. Passes(req, facts)["PriceTick"] =
            (Checkable(req, facts)["PriceTick"] => req.price % facts.rule.tick = 0)
      BY Zenon DEF Passes
    <3>2. Checkable(req, facts)["PriceTick"] = (facts.rule # Missing /\ facts.rule.tick > 0)
      BY Zenon DEF Checkable
    <3>. QED
      BY <1>3, <1>4, <1>8, <2>3, <3>1, <3>2, Zenon DEF OrderFits
  <2>4. CASE check = "PriceLimit"
    <3>1. Passes(req, facts)["PriceLimit"] =
            (Checkable(req, facts)["PriceLimit"] => WithinLimits(req.price, facts.rule, facts.pre, facts.rounding))
      BY Zenon DEF Passes
    <3>2. Checkable(req, facts)["PriceLimit"] = LimitsKnown(facts.rule, facts.pre, facts.rounding)
      BY Zenon DEF Checkable
    <3>. QED
      BY <1>3, <1>4, <1>8, <1>9, <2>4, <3>1, <3>2, Zenon DEF OrderFits
  <2>5. CASE check = "VolumeRange"
    <3>1. Passes(req, facts)["VolumeRange"] =
            (Checkable(req, facts)["VolumeRange"] =>
               /\ req.volume <= facts.rule.maxVolume
               /\ facts.rule.minVolume > 0 => req.volume >= facts.rule.minVolume)
      BY Zenon DEF Passes
    <3>2. Checkable(req, facts)["VolumeRange"] = (facts.rule # Missing /\ facts.rule.maxVolume > 0)
      BY Zenon DEF Checkable
    <3>. QED
      BY <1>3, <1>4, <1>8, <2>5, <3>1, <3>2, Zenon DEF OrderFits
  <2>. QED
    BY <2>1, <2>2, <2>3, <2>4, <2>5
<1>12. Rejecting(req, facts) \subseteq {"Session", "Funds", "PositionLimit"}
  BY <1>11 DEF Rejecting, Checks
<1>. QED
  BY <1>6, <1>12 DEF facts, order

(***************************************************************************)
(* RestingOrdersStayValid: an order in the book, checked again without     *)
(* itself, passes every check but those on the session, the funds and the  *)
(* position limit: the previous settlement price and the rules stay those  *)
(* it was placed under until the evening finds the book empty, and a trade *)
(* leaves the lots the orders have frozen (place.go Place, trade.go        *)
(* ApplyTrade, order/order.go Validate).                                   *)
(***************************************************************************)
THEOREM OrdersStayValid ==
  ASSUME StartsMean, StartsRest
  PROVE  Spec => []RestingOrdersStayValid
<1>1. ASSUME Working, StillFit PROVE RestingOrdersStayValid
  <2>1. SUFFICES ASSUME Usable, NEW id \in B!IDs(sim.book)
                 PROVE  LET freed == S(rules)!Released(sim, id)
                            req   == S(rules)!DatedTrade(S(rules)!TradeOf(sim.book.live[id].order))
                        IN  Rejecting(req, Facts(freed, CHOOSE at \in Times : TRUE, req, 0))
                              \subseteq {"Session", "Funds", "PositionLimit"}
    BY Zenon DEF RestingOrdersStayValid
  <2>2. RulesHold /\ S(rules)!Sound(day, sim) /\ Resting(rules, sim)
    BY <1>1, <2>1 DEF Working, StillFit
  <2>. QED
    BY <2>2, RestsValid
<1>2. Init => StillFit
  BY InitRests
<1>. QED
  BY ClientsWorkSoundly, NextRests, <1>1, <1>2, PTL DEF Spec

-----------------------------------------------------------------------------
(* Reports that are read back (replay/report.go, replay/lifecycle.go). *)

\* What stands for nothing is no number, and has no day as moments and daily rules have.
NothingIsApart == Nothing \notin Nat /\ "day" \notin DOMAIN Nothing

\* What is worked out again from a frame agrees with it.
Recomputed(r, k) ==
  /\ A!RestorableAccount(r.frames[k].sim.acc)
  /\ Active(r, k) # Nothing => S(Active(r, k))!Restorable(r.frames[k].sim, r.frames[k].day)

\* A frame passes what is checked of it, once it can be restored.
FrameTold(r, k) == Recomputed(r, k) => FrameFits(r, k) /\ RulesFit(r, k)

\* The events before a frame.
LEMMA EventsBefore ==
  ASSUME NEW X, NEW frames \in Seq(X), NEW k \in 1 .. Len(frames) + 1
  PROVE  EventIds(SubSeq(frames, 1, k - 1)) = {frames[j].event.id : j \in 1 .. k - 1}
<1>. DEFINE q == SubSeq(frames, 1, k - 1)
<1>1. k - 1 \in 0 .. Len(frames)
  OBVIOUS
<1>2. DOMAIN q = 1 .. k - 1 /\ \A j \in 1 .. k - 1 : q[j] = frames[j]
  BY <1>1
<1>. HIDE DEF q
<1>3. EventIds(q) = {frames[j].event.id : j \in 1 .. k - 1}
  BY <1>2 DEF EventIds
<1>. QED
  BY <1>3 DEF q

\* What is read of a frame depends on the report up to it alone (replay/report.go, replay/lifecycle.go).
LEMMA SamePrefix ==
  ASSUME NEW X, NEW r, NEW t, r.frames \in Seq(X), t.frames \in Seq(X), Len(r.frames) <= Len(t.frames),
         t.initial = r.initial, \A j \in 1 .. Len(r.frames) : t.frames[j] = r.frames[j]
  PROVE  /\ \A k \in 0 .. Len(r.frames) : At(t, k) = At(r, k) /\ Active(t, k) = Active(r, k)
         /\ \A k \in 1 .. Len(r.frames) : /\ FrameTold(r, k) => FrameTold(t, k)
                                          /\ Recomputed(r, k) => Recomputed(t, k)
<1>. DEFINE n == Len(r.frames)
<1>1. n \in Nat
  OBVIOUS
<1>2. ASSUME NEW k \in 0 .. n PROVE At(t, k) = At(r, k)
  BY <1>1, <1>2 DEF At
<1>3. ASSUME NEW k \in 0 .. n PROVE Active(t, k) = Active(r, k)
  <2>. DEFINE switches(x) == {j \in 1 .. k : Switches(x.frames[j].event)}
  <2>1. switches(t) = switches(r) /\ switches(r) \subseteq 1 .. k
    BY <1>1, <1>3
  <2>. HIDE DEF switches
  <2>2. switches(r) # {} => Max(switches(r)) \in 1 .. n
    <3>1. ASSUME switches(r) # {} PROVE C!Max(switches(r)) \in switches(r)
      <4>1. switches(r) \in SUBSET Nat /\ k \in Nat /\ \A j \in switches(r) : j <= k
        BY <1>1, <1>3, <2>1
      <4>. QED
        BY <3>1, <4>1, LastOf
    <3>2. C!Max(switches(r)) = Max(switches(r))
      BY DEF C!Max, Max
    <3>3. 1 .. k \subseteq 1 .. n
      BY <1>1, <1>3
    <3>. QED
      BY <2>1, <3>1, <3>2, <3>3
  <2>3. \A x \in {r, t} : Active(x, k) =
          IF switches(x) = {} THEN (IF L!Daily(x.initial.rules) THEN x.initial.rules ELSE Nothing)
                              ELSE x.frames[Max(switches(x))].rules
    BY DEF Active, switches
  <2>. QED
    BY <2>1, <2>2, <2>3
<1>4. ASSUME NEW k \in 1 .. n PROVE EventIds(SubSeq(t.frames, 1, k - 1)) = EventIds(SubSeq(r.frames, 1, k - 1))
  <2>1. k \in 1 .. Len(t.frames) + 1 /\ k \in 1 .. Len(r.frames) + 1
    BY <1>1, <1>4
  <2>2. \A j \in 1 .. k - 1 : t.frames[j] = r.frames[j]
    BY <1>1, <1>4
  <2>3. {t.frames[j].event.id : j \in 1 .. k - 1} = {r.frames[j].event.id : j \in 1 .. k - 1}
    BY <2>2
  <2>. QED
    BY <2>1, <2>3, EventsBefore
<1>5. ASSUME NEW k \in 1 .. n
      PROVE  (FrameTold(r, k) => FrameTold(t, k)) /\ (Recomputed(r, k) => Recomputed(t, k))
  <2>1. t.frames[k] = r.frames[k] /\ At(t, k - 1) = At(r, k - 1)
    BY <1>1, <1>2, <1>5
  <2>2. Active(t, k) = Active(r, k) /\ Active(t, k - 1) = Active(r, k - 1)
    BY <1>1, <1>3, <1>5
  <2>3. Recomputed(t, k) <=> Recomputed(r, k)
    BY <2>1, <2>2 DEF Recomputed
  <2>4. FrameFits(r, k) => FrameFits(t, k)
    BY <1>4, <2>1, <2>2 DEF FrameFits
  <2>5. RulesFit(r, k) => RulesFit(t, k)
    BY <2>1, <2>2 DEF RulesFit
  <2>. QED
    BY <2>3, <2>4, <2>5 DEF FrameTold
<1>. QED
  BY <1>2, <1>3, <1>5

\* What an event does to the day, the rules and the numbers of orders (replay/engine.go apply, lifecycle.go).
LEMMA AfterIs ==
  ASSUME Replayed, NEW e, WellLoaded(e), NEW after \in After(e)
  PROVE  /\ e.kind # "settle" => after.day = day /\ after.rules = rules
         /\ e.kind = "settle" /\ ~Switches(e) => after.rules = rules /\ ~L!Daily(rules)
         /\ Switches(e) => LET x == e.load.settlement IN
              /\ after.day = x.next /\ C!NextDay(TradingCalendar, day) = x.next
              /\ after.rules = NextRules(x.next, x.version) /\ x.version # rules.version
              /\ L!Daily(rules) => after.rules.investor = rules.investor
         /\ e.kind = "risk" => after.sim = sim /\ R!CanAssess(sim.acc, e.load.policy)
         /\ after.sim.book.last >= sim.book.last
<1>1. RulesHold /\ DOMAIN sim = O!SimFields /\ sim.book.last \in Int
  <2>1. O!Sound(day, sim) /\ RulesHold
    BY SameSound DEF Replayed, Working
  <2>2. PICK c : O!Ready(day, sim, c)
    BY <2>1 DEF O!Sound
  <2>3. O!SimTyped(day, sim) /\ O!Funded(sim)
    BY <2>1, <2>2, FacadeRules, O!SoundParts
  <2>. QED
    BY <2>1, <2>3 DEF O!SimTyped, O!Funded, O!Numbered
<1>2. ASSUME NEW s, after \in With(s), s.book.last >= sim.book.last
      PROVE  after.day = day /\ after.rules = rules /\ after.sim.book.last >= sim.book.last
  <2>1. after = [Moment EXCEPT !.sim = s]
    BY <1>2 DEF With
  <2>. QED
    BY <1>2, <2>1 DEF Moment
<1>3. ASSUME NEW s, DOMAIN s = O!SimFields, NEW id
      PROVE  /\ \A inst, quote : S(rules)!Marked(s, inst, quote).book = s.book
             /\ \A today, request : S(rules)!Traded(s, today, request).book = s.book
             /\ \A request : Placed(s, id, request).book.last = s.book.last + 1
             /\ S(rules)!Released(s, id).book.last = s.book.last /\ DOMAIN S(rules)!Released(s, id) = O!SimFields
             /\ \A price : S(rules)!Settled(s, price).book = s.book
  <2>1. /\ \A inst, quote : O!Marked(s, inst, quote).book = s.book
        /\ \A today, request : O!Traded(s, today, request).book = s.book
        /\ \A request : O!Placed(s, id, request).book.last = s.book.last + 1
        /\ O!Released(s, id).book.last = s.book.last /\ DOMAIN O!Released(s, id) = O!SimFields
        /\ \A price : O!Settled(s, price).book = s.book
    <3>1. /\ O!ContractTyped /\ O!SimulatorChoices /\ O!InstrumentsFinite /\ O!CentPositive /\ O!FeeChoices
          /\ O!MarginChoices
      BY <1>1, FacadeRules
    <3>. QED
      BY <1>3, <3>1, O!NumbersGoOn
  <2>2. \A inst, quote : S(rules)!Marked(s, inst, quote).book = s.book
    BY <2>1, SameCanMark
  <2>3. \A today, request : S(rules)!Traded(s, today, request).book = s.book
    BY <2>1, SameTraded
  <2>4. \A request : Placed(s, id, request).book.last = s.book.last + 1
    BY <2>1, SameCanPlace DEF Placed
  <2>5. S(rules)!Released(s, id).book.last = s.book.last /\ DOMAIN S(rules)!Released(s, id) = O!SimFields
    BY <2>1, SameReleased
  <2>6. \A price : S(rules)!Settled(s, price).book = s.book
    BY <2>1, SameSettled
  <2>. QED
    BY <2>2, <2>3, <2>4, <2>5, <2>6
<1>4. CASE e.kind = "mark"
  <2>1. PICK inst, quote : after \in With(S(rules)!Marked(sim, inst, quote))
    BY <1>4, Zenon DEF After, Trial
  <2>2. S(rules)!Marked(sim, inst, quote).book.last >= sim.book.last
    BY <1>1, <1>3
  <2>. QED
    BY <1>2, <1>4, <2>1, <2>2 DEF Switches
<1>5. CASE e.kind = "trade"
  <2>1. PICK tr : after \in With(S(rules)!Traded(sim, day, tr))
    BY <1>5, Zenon DEF After, Trial
  <2>2. S(rules)!Traded(sim, day, tr).book.last >= sim.book.last
    BY <1>1, <1>3
  <2>. QED
    BY <1>2, <1>5, <2>1, <2>2 DEF Switches
<1>6. CASE e.kind = "accept"
  <2>1. PICK id, request : after \in With(Placed(sim, id, request))
    BY <1>6, Zenon DEF After, Trial
  <2>2. Placed(sim, id, request).book.last >= sim.book.last
    BY <1>1, <1>3
  <2>. QED
    BY <1>2, <1>6, <2>1, <2>2 DEF Switches
<1>7. CASE e.kind = "fill"
  <2>. DEFINE id == e.load.ref
              freed == S(rules)!Released(sim, id)
              tr == S(rules)!TradeOf(sim.book.live[id].order)
  <2>1. after \in With(S(rules)!Traded(freed, day, tr))
    <3>1. after \in AfterFill(id)
      BY <1>7 DEF After
    <3>. QED
      BY <3>1, Zenon DEF AfterFill
  <2>2. DOMAIN freed = O!SimFields /\ freed.book.last = sim.book.last
    BY <1>1, <1>3
  <2>. HIDE DEF freed, tr
  <2>3. S(rules)!Traded(freed, day, tr).book.last >= sim.book.last
    BY <1>1, <1>3, <2>2
  <2>. QED
    BY <1>2, <1>7, <2>1, <2>3 DEF Switches
<1>8. CASE e.kind = "cancel"
  <2>1. PICK id : after \in With(S(rules)!Released(sim, id))
    BY <1>8, Zenon DEF After, Trial
  <2>2. S(rules)!Released(sim, id).book.last >= sim.book.last
    BY <1>1, <1>3
  <2>. QED
    BY <1>2, <1>8, <2>1, <2>2 DEF Switches
<1>9. CASE e.kind \in {"deposit", "withdraw"}
  <2>1. PICK acc : after \in WithAccount(acc)
    BY <1>9, Zenon DEF After
  <2>2. [sim EXCEPT !.acc = acc].book.last >= sim.book.last
    BY <1>1 DEF O!SimFields
  <2>. QED
    BY <1>2, <1>9, <2>1, <2>2 DEF WithAccount, Switches
<1>10. CASE e.kind = "risk"
  <2>1. after = Moment /\ R!CanAssess(sim.acc, e.load.policy)
    BY <1>10 DEF After
  <2>. QED
    BY <1>1, <1>10, <2>1 DEF Moment, Switches
<1>11. CASE e.kind = "settle"
  <2>. DEFINE x == e.load.settlement
  <2>1. after \in AfterSettle(x)
    BY <1>11 DEF After
  <2>2. C!NextDay(TradingCalendar, day) = x.next
    BY <2>1 DEF AfterSettle
  <2>3. CASE x.version = 0
    <3>1. ~L!Daily(rules) /\ after = [Moment EXCEPT !.sim = S(rules)!Settled(sim, x.price), !.day = x.next]
      BY <2>1, <2>2, <2>3 DEF AfterSettle
    <3>2. after.rules = rules /\ after.sim = S(rules)!Settled(sim, x.price)
      BY <3>1 DEF Moment
    <3>3. S(rules)!Settled(sim, x.price).book = sim.book
      BY <1>1, <1>3
    <3>. QED
      BY <1>1, <1>11, <2>3, <3>1, <3>2, <3>3 DEF Switches
  <2>4. CASE x.version # 0
    <3>. DEFINE new == NextRules(x.next, x.version)
    <3>1. /\ CanSettleWith(sim, x.price, new)
          /\ after = [day |-> x.next, rules |-> new, sim |-> SettledUnder(sim, x.price, new)]
      BY <2>1, <2>2, <2>4 DEF AfterSettle
    <3>2. new.version = x.version /\ Switches(e)
      BY <1>11, <2>4 DEF NextRules, L!DailyRules, Switches
    <3>3. SettledUnder(sim, x.price, new).book.last >= sim.book.last
      <4>1. S(rules)!Settled(sim, x.price).book = sim.book
        BY <1>1, <1>3
      <4>2. "book" \in DOMAIN S(rules)!Settled(sim, x.price)
        BY <3>1, MorningComes DEF CanSettleWith, MayChange
      <4>3. SettledUnder(sim, x.price, new).book = sim.book
        <5>. HIDE DEF new
        <5>. QED
          BY <4>1, <4>2 DEF SettledUnder
      <4>. QED
        BY <1>1, <4>3
    <3>. HIDE DEF new
    <3>4. new.version # rules.version /\ (L!Daily(rules) => new.investor = rules.investor)
      BY <3>1 DEF CanSettleWith, MayChange
    <3>5. after.day = x.next /\ after.rules = new /\ after.sim.book.last >= sim.book.last
      BY <3>1, <3>3
    <3>6. after.rules = NextRules(x.next, x.version)
      BY <3>5 DEF new
    <3>. QED
      BY <1>11, <2>2, <3>2, <3>4, <3>5, <3>6
  <2>. QED
    BY <2>3, <2>4
<1>. QED
  BY <1>4, <1>5, <1>6, <1>7, <1>8, <1>9, <1>10, <1>11 DEF WellLoaded, LoadOf

\* Restore goes through the account first (state.go Restore, account/state.go).
LEMMA RestoresAccount ==
  ASSUME NEW r, NEW s, NEW d, S(r)!Restorable(s, d)
  PROVE  A!RestorableAccount(s.acc)
BY DEF S!Restorable, S!A!RestorableAccount, A!RestorableAccount, S!A!RestorableParts, A!RestorableParts,
   S!A!Check, A!Check, S!A!Distance, A!Distance

\* Rules of a day know their day and their version (lifecycle/rules.go NewDailyRules).
LEMMA DerivedDay ==
  ASSUME NothingIsApart, NEW next, NEW version
  PROVE  LET new == NextRules(next, version) IN
         L!Daily(new) /\ new.day = next /\ new.version = version /\ new # Nothing
<1>. DEFINE new == NextRules(next, version)
<1>1. L!Daily(new) /\ new.day = next /\ new.version = version /\ "day" \in DOMAIN new
  BY DEF NextRules, L!DailyRules, L!Daily
<1>. HIDE DEF new
<1>2. new # Nothing
  BY <1>1 DEF NothingIsApart
<1>. QED
  BY <1>1, <1>2 DEF new

\* How a report begins: with what Restore has taken (replay/engine.go Run).
BeginsWell(r) ==
  /\ r.initial # Nothing
  /\ A!RestorableAccount(r.initial.sim.acc)
  /\ L!Daily(r.initial.rules) => S(r.initial.rules)!Restorable(r.initial.sim, r.initial.day)

\* What is read of a report after frame k is a moment of the run (replay/report.go, replay/lifecycle.go).
StandsAt(r, k, m) ==
  /\ At(r, k) = [day |-> m.day, sim |-> m.sim, version |-> m.rules.version]
  /\ Active(r, k) = IF L!Daily(m.rules) THEN m.rules ELSE Nothing
  /\ L!Daily(m.rules) => m.rules.day = m.day /\ m.rules # Nothing

\* Where a report ends: at a moment the run is at (replay/engine.go Run).
EndsHere(r, m) == StandsAt(r, Len(r.frames), m) /\ r.final = m

\* A report so far: each frame but the last was restored for the event after it (replay/engine.go Run).
ToldWell(r, m) ==
  /\ DOMAIN r = {"status", "initial", "frames", "failedAt", "final"} /\ \E X : r.frames \in Seq(X)
  /\ BeginsWell(r) /\ EndsHere(r, m)
  /\ \A k \in 1 .. Len(r.frames) : FrameTold(r, k) /\ (k # Len(r.frames) => Recomputed(r, k))

\* A report names the event it failed at, or none (replay/engine.go Run).
EndsAsTold ==
  IF stage = "run" THEN report.status = "failed" /\ report.failedAt = Nothing
  ELSE \/ report.status = "passed" /\ report.failedAt = Nothing
       \/ report.status = "failed" /\ report.failedAt = Len(report.frames)

\* What a report tells is true of the run, from its beginning to its publication (replay/engine.go Run).
Telling == \/ stage # "run" /\ report = Unconfigured
           \/ ToldWell(report, Moment) /\ EndsAsTold

\* The last frame can be recomputed when the moment of the run can be restored.
LEMMA LastRecomputed ==
  ASSUME NEW r, ToldWell(r, Moment), Len(r.frames) # 0, S(rules)!Restorable(sim, day)
  PROVE  Recomputed(r, Len(r.frames))
<1>. DEFINE n == Len(r.frames)
<1>1. n \in Nat /\ n # 0
  BY DEF ToldWell
<1>2. r.frames[n].sim = sim /\ r.frames[n].day = day
  BY <1>1 DEF ToldWell, EndsHere, StandsAt, At, Moment
<1>3. A!RestorableAccount(sim.acc)
  BY RestoresAccount
<1>4. Active(r, n) # Nothing => Active(r, n) = rules
  BY DEF ToldWell, EndsHere, StandsAt, Moment
<1>. QED
  BY <1>2, <1>3, <1>4 DEF Recomputed

\* A report that is done, its last account restorable, passes (replay/report.go validateReport).
LEMMA ToldIsValid ==
  ASSUME NothingIsApart, Telling, stage # "run", report.initial = Nothing \/ S(rules)!Restorable(sim, day)
  PROVE  ReportValid(report)
<1>1. CASE report = Unconfigured
  <2>1. [Unconfigured EXCEPT !.failedAt = Nothing] = Unconfigured
    BY DEF Unconfigured
  <2>. QED
    BY <1>1, <2>1 DEF ReportValid, Unconfigured
<1>2. CASE ToldWell(report, Moment) /\ EndsAsTold
  <2>. DEFINE n == Len(report.frames)
  <2>1. n \in Nat /\ DOMAIN report.frames = 1 .. n
    BY <1>2 DEF ToldWell
  <2>2. BeginsWell(report) /\ S(rules)!Restorable(sim, day)
    BY <1>2 DEF ToldWell, BeginsWell
  <2>3. \A k \in 1 .. n : Recomputed(report, k)
    BY <1>2, <2>1, <2>2, LastRecomputed DEF ToldWell
  <2>4. \A k \in DOMAIN report.frames : FrameFits(report, k) /\ RulesFit(report, k)
    BY <1>2, <2>1, <2>3 DEF ToldWell, FrameTold
  <2>5. report.final.sim = At(report, n).sim /\ report.final.day = At(report, n).day
    BY <1>2 DEF ToldWell, EndsHere, StandsAt, Moment
  <2>6. /\ report.status = "passed" <=> report.failedAt = Nothing
        /\ report.failedAt # Nothing => report.failedAt = n
    BY <1>2, <2>1 DEF EndsAsTold, NothingIsApart
  <2>. QED
    BY <2>2, <2>4, <2>5, <2>6 DEF ReportValid, BeginsWell
<1>. QED
  BY <1>1, <1>2 DEF Telling

\* The run begins with a moment that can be restored (replay/engine.go Run).
LEMMA InitTelling ==
  ASSUME NothingIsApart
  PROVE  ReplayInit => Telling
<1>. SUFFICES ASSUME ReplayInit PROVE Telling
  OBVIOUS
<1>1. /\ report.initial = Moment /\ report.final = Moment /\ report.frames = <<>>
      /\ report.status = "failed" /\ report.failedAt = Nothing
      /\ DOMAIN report = {"status", "initial", "frames", "failedAt", "final"} /\ stage = "run"
  BY DEF ReplayInit
<1>2. \E X : report.frames \in Seq(X)
  <2>1. <<>> \in Seq({})
    OBVIOUS
  <2>. QED
    BY <1>1, <2>1
<1>3. S(rules)!Restorable(sim, day)
  BY DEF ReplayInit
<1>4. BeginsWell(report)
  <2>1. Moment # Nothing
    <3>1. "day" \in DOMAIN Moment
      BY DEF Moment
    <3>. QED
      BY <3>1 DEF NothingIsApart
  <2>2. Moment.sim = sim /\ Moment.rules = rules /\ Moment.day = day
    BY DEF Moment
  <2>. QED
    BY <1>1, <1>3, <2>1, <2>2, RestoresAccount DEF BeginsWell
<1>5. L!Daily(rules) => rules.day = day /\ rules # Nothing
  <2>1. CASE rules = NextRules(1, 1)
    BY <2>1, DerivedDay DEF ReplayInit
  <2>2. CASE rules = L!PlainRules(Base)
    BY <2>2 DEF L!PlainRules, L!Daily
  <2>. QED
    BY <2>1, <2>2 DEF ReplayInit
<1>6. EndsHere(report, Moment)
  <2>1. Len(report.frames) = 0
    BY <1>1
  <2>2. At(report, 0) = [day |-> day, sim |-> sim, version |-> rules.version]
    BY <1>1 DEF At, Moment
  <2>3. Active(report, 0) = IF L!Daily(rules) THEN rules ELSE Nothing
    <3>1. report.initial.rules = rules
      BY <1>1 DEF Moment
    <3>2. {j \in 1 .. 0 : Switches(report.frames[j].event)} = {}
      OBVIOUS
    <3>. QED
      BY <3>1, <3>2 DEF Active
  <2>. QED
    BY <1>1, <1>5, <2>1, <2>2, <2>3 DEF EndsHere, StandsAt, Moment
<1>7. ToldWell(report, Moment)
  BY <1>1, <1>2, <1>4, <1>6 DEF ToldWell
<1>. QED
  BY <1>1, <1>7 DEF Telling, EndsAsTold

\* The account of a replay is one of an archive (account/state.go).
LEMMA ReplayedAccount == Replayed => sim.acc \in A!ArchiveType
BY SoundAccount DEF Replayed, Working

\* What a settlement states adds up (replay/lifecycle.go).
LEMMA StatementAddsUp ==
  ASSUME NEW before, before.sim.acc \in A!ArchiveType, NEW after, after.sim.acc.preBalance \in Int, NEW frame,
         frame.day = after.day, frame.sim = after.sim, NEW at, at.day = before.day, at.sim = before.sim
  PROVE  StatementFits(Statement(before, after), at, frame)
<1>. DEFINE x == Statement(before, after)
            acc == before.sim.acc
            b == after.sim.acc.preBalance
<1>1. /\ x.day = before.day /\ x.next = after.day /\ x.preBalance = acc.preBalance
      /\ x.deposit = acc.deposit /\ x.withdraw = acc.withdraw /\ x.closeProfit = acc.closeProfit
      /\ x.commission = acc.settleCommission /\ x.balance = b /\ x.margin = after.sim.acc.currMargin
      /\ x.positionProfit = b - A!StaticBalance(acc) - acc.closeProfit + acc.settleCommission
  BY DEF Statement
<1>2. /\ acc.preBalance \in Int /\ acc.deposit \in Int /\ acc.withdraw \in Int /\ acc.closeProfit \in Int
      /\ acc.settleCommission \in Int
  BY DEF A!ArchiveType, A!AccountOf
<1>3. A!StaticBalance(acc) = acc.preBalance + acc.deposit - acc.withdraw
  BY DEF A!StaticBalance
<1>. HIDE DEF x, acc, b
<1>4. x.preBalance + x.deposit - x.withdraw + x.closeProfit + x.positionProfit - x.commission = x.balance
  <2>1. b \in Int
    BY DEF b
  <2>2. x.positionProfit = b - (acc.preBalance + acc.deposit - acc.withdraw) - acc.closeProfit + acc.settleCommission
    BY <1>1, <1>3
  <2>. QED
    BY <1>1, <1>2, <2>1, <2>2
<1>5. StatementFits(x, at, frame)
  BY <1>1, <1>4 DEF StatementFits, acc, b
<1>. QED
  BY <1>5 DEF x

\* The frame of an event that was accepted passes, and tells where the run is (replay/engine.go, replay/report.go).
LEMMA FrameIsTold ==
  ASSUME NothingIsApart, Replayed, NEW X, NEW t, t.frames \in Seq(X), NEW n \in Nat, Len(t.frames) = n + 1,
         NEW e, WellLoaded(e), NEW after \in After(e), after.sim.acc.preBalance \in Int,
         e.day = day, e.id # NoID, e.id \notin EventIds(SubSeq(t.frames, 1, n)),
         t.frames[n + 1] = FrameOf(e, Moment, after),
         StandsAt(t, n, Moment)
  PROVE  FrameTold(t, n + 1) /\ StandsAt(t, n + 1, after)
<1>0. /\ At(t, n) = [day |-> day, sim |-> sim, version |-> rules.version]
      /\ Active(t, n) = IF L!Daily(rules) THEN rules ELSE Nothing
      /\ L!Daily(rules) => rules.day = day /\ rules # Nothing
  BY DEF StandsAt, Moment
<1>. DEFINE frame == t.frames[n + 1]
            active == Active(t, n + 1)
<1>1. /\ frame.event = e /\ frame.day = after.day /\ frame.sim = after.sim /\ frame.version = after.rules.version
      /\ frame.rules = IF Switches(e) THEN after.rules ELSE Nothing
      /\ frame.statement = IF e.kind = "settle" THEN Statement(Moment, after) ELSE Nothing
      /\ frame.health = Health(after)
      /\ frame.risk = IF e.kind = "risk" THEN R!Assess(after.sim.acc, e.load.policy) ELSE Nothing
  BY DEF FrameOf
<1>2. /\ e.kind # "settle" => after.day = day /\ after.rules = rules
      /\ e.kind = "settle" /\ ~Switches(e) => after.rules = rules /\ ~L!Daily(rules)
      /\ Switches(e) => LET x == e.load.settlement IN
           /\ after.day = x.next /\ C!NextDay(TradingCalendar, day) = x.next
           /\ after.rules = NextRules(x.next, x.version) /\ x.version # rules.version
           /\ L!Daily(rules) => after.rules.investor = rules.investor
      /\ e.kind = "risk" => after.sim = sim /\ R!CanAssess(sim.acc, e.load.policy)
      /\ after.sim.book.last >= sim.book.last
  BY AfterIs
<1>3. Switches(e) => e.kind = "settle"
  BY DEF Switches
<1>4. At(t, n + 1) = [day |-> after.day, sim |-> after.sim, version |-> after.rules.version]
  BY <1>1 DEF At
<1>5. Switches(e) => /\ L!Daily(after.rules) /\ after.rules.day = e.load.settlement.next
                     /\ after.rules.version = e.load.settlement.version /\ after.rules # Nothing
  BY <1>2, DerivedDay
<1>6. L!Daily(after.rules) => after.rules.day = after.day /\ after.rules # Nothing
  BY <1>0, <1>2, <1>3, <1>5
<1>7. active = IF Switches(e) THEN after.rules ELSE Active(t, n)
  <2>. DEFINE switches(k) == {j \in 1 .. k : Switches(t.frames[j].event)}
  <2>1. CASE Switches(e)
    <3>1. n + 1 \in switches(n + 1) /\ \A j \in switches(n + 1) : j <= n + 1 /\ j \in Int
      BY <1>1, <2>1
    <3>. HIDE DEF switches
    <3>2. Max(switches(n + 1)) = n + 1
      BY <3>1 DEF Max
    <3>3. active = t.frames[Max(switches(n + 1))].rules
      BY <3>1 DEF Active, switches
    <3>. QED
      BY <1>1, <2>1, <3>2, <3>3
  <2>2. CASE ~Switches(e)
    <3>1. switches(n + 1) = switches(n)
      BY <1>1, <2>2
    <3>. HIDE DEF switches
    <3>2. \A k \in {n, n + 1} : Active(t, k) =
            IF switches(k) = {} THEN (IF L!Daily(t.initial.rules) THEN t.initial.rules ELSE Nothing)
                                ELSE t.frames[Max(switches(k))].rules
      BY DEF Active, switches
    <3>. QED
      BY <2>2, <3>1, <3>2
  <2>. QED
    BY <2>1, <2>2
<1>8. active = IF L!Daily(after.rules) THEN after.rules ELSE Nothing
  BY <1>0, <1>2, <1>3, <1>5, <1>7
<1>. HIDE DEF active
<1>9. L!Daily(after.rules) => active # Nothing
  BY <1>6, <1>8
<1>10. ASSUME A!RestorableAccount(frame.sim.acc) PROVE FrameFits(t, n + 1)
  <2>1. CASE e.kind = "settle"
    <3>1. StatementFits(frame.statement, At(t, n), frame)
      BY <1>1, <2>1, StatementAddsUp, ReplayedAccount, <1>0 DEF Moment
    <3>. QED
      BY <1>0, <1>1, <1>2, <1>10, <2>1, <3>1 DEF FrameFits
  <2>2. CASE e.kind # "settle"
    BY <1>0, <1>1, <1>2, <1>10, <2>2 DEF FrameFits
  <2>. QED
    BY <2>1, <2>2
<1>11. ASSUME active # Nothing => S(active)!Restorable(frame.sim, frame.day) PROVE RulesFit(t, n + 1)
  <2>. DEFINE before == At(t, n)
  <2>1. IF Switches(e)
        THEN /\ active.day = e.load.settlement.next /\ active.version # before.version
             /\ C!NextDay(TradingCalendar, e.day) = active.day
             /\ Active(t, n) # Nothing => active.investor = Active(t, n).investor
        ELSE /\ frame.rules = Nothing /\ frame.version = before.version
             /\ e.kind = "settle" => active = Nothing
    BY <1>0, <1>1, <1>2, <1>3, <1>5, <1>8
  <2>2. e.kind # "settle" => frame.day = before.day
    BY <1>0, <1>1, <1>2
  <2>3. IF active = Nothing THEN frame.health = Nothing
        ELSE /\ active.day = frame.day /\ active.version = frame.version
             /\ S(active)!Restorable(frame.sim, frame.day)
             /\ frame.health = Health([day |-> frame.day, rules |-> active, sim |-> frame.sim])
    <3>1. CASE L!Daily(after.rules)
      <4>1. active = after.rules /\ active # Nothing
        BY <1>8, <1>9, <3>1
      <4>2. frame.health = Health([day |-> frame.day, rules |-> active, sim |-> frame.sim])
        BY <1>1, <4>1 DEF Health
      <4>. QED
        BY <1>1, <1>6, <1>11, <3>1, <4>1, <4>2
    <3>2. CASE ~L!Daily(after.rules)
      BY <1>1, <1>8, <3>2 DEF Health
    <3>. QED
      BY <3>1, <3>2
  <2>4. IF e.kind = "risk"
        THEN /\ R!CanAssess(frame.sim.acc, e.load.policy)
             /\ frame.risk = R!Assess(frame.sim.acc, e.load.policy)
             /\ frame.sim = before.sim
        ELSE frame.risk = Nothing
    BY <1>0, <1>1, <1>2
  <2>5. (n + 1) - 1 = n
    OBVIOUS
  <2>. HIDE DEF before
  <2>. QED
    BY <1>1, <2>1, <2>2, <2>3, <2>4, <2>5 DEF RulesFit, active, before
<1>12. FrameTold(t, n + 1)
  BY <1>10, <1>11 DEF FrameTold, Recomputed, active
<1>13. StandsAt(t, n + 1, after)
  BY <1>4, <1>6, <1>8 DEF StandsAt, active
<1>. QED
  BY <1>12, <1>13

\* An event that is kept adds a frame that is told well (replay/engine.go Run).
LEMMA KeepTells ==
  ASSUME NothingIsApart, Replayed, Replayed', ToldWell(report, Moment), EndsAsTold, NEW e \in Events, Keep(e)
  PROVE  ToldWell(report, Moment)' /\ EndsAsTold'
<1>1. PICK after \in After(e) : /\ Accepted(e, after) /\ report' = Kept(e, after)
                                /\ day' = after.day /\ rules' = after.rules /\ sim' = after.sim
  BY DEF Keep
<1>2. stage = "run" /\ stage' = "run"
  BY DEF Keep
<1>. DEFINE n == Len(report.frames)
            frame == FrameOf(e, Moment, after)
            t == Kept(e, after)
<1>3. PICK X : report.frames \in Seq(X)
  BY DEF ToldWell
<1>4. n \in Nat
  BY <1>3
<1>5. /\ t.frames = Append(report.frames, frame) /\ t.final = after /\ t.initial = report.initial
      /\ t.status = report.status /\ t.failedAt = report.failedAt /\ DOMAIN t = DOMAIN report
  <2>. HIDE DEF frame
  <2>1. DOMAIN report = {"status", "initial", "frames", "failedAt", "final"}
    BY DEF ToldWell
  <2>2. t = [report EXCEPT !.frames = Append(@, frame), !.final = after]
    BY DEF Kept, frame
  <2>. HIDE DEF t
  <2>. QED
    BY <2>1, <2>2
<1>6. /\ t.frames \in Seq(X \cup {frame}) /\ report.frames \in Seq(X \cup {frame}) /\ Len(t.frames) = n + 1
      /\ t.frames[n + 1] = frame /\ \A j \in 1 .. n : t.frames[j] = report.frames[j]
  <2>. HIDE DEF frame, t
  <2>1. report.frames \in Seq(X \cup {frame})
    BY <1>3
  <2>. QED
    BY <1>4, <1>5, <2>1
<1>. HIDE DEF frame, t
<1>7. /\ \A k \in 0 .. n : At(t, k) = At(report, k) /\ Active(t, k) = Active(report, k)
      /\ \A k \in 1 .. n : /\ FrameTold(report, k) => FrameTold(t, k)
                           /\ Recomputed(report, k) => Recomputed(t, k)
  <2>1. Len(report.frames) <= Len(t.frames)
    BY <1>4, <1>6
  <2>. QED
    BY <1>5, <1>6, <2>1, SamePrefix
<1>8. S(rules)!Restorable(sim, day) /\ WellLoaded(e) /\ e.day = day /\ e.id # NoID /\ e.id \notin EventIds(report.frames)
  BY <1>1 DEF Accepted
<1>9. \A k \in 1 .. n : Recomputed(report, k)
  BY <1>4, <1>8, LastRecomputed DEF ToldWell
<1>10. EventIds(SubSeq(t.frames, 1, n)) = EventIds(report.frames)
  <2>1. n + 1 \in 1 .. Len(t.frames) + 1 /\ n + 1 \in 1 .. Len(report.frames) + 1 /\ (n + 1) - 1 = n
    BY <1>4, <1>6
  <2>2. EventIds(SubSeq(t.frames, 1, n)) = {t.frames[j].event.id : j \in 1 .. n}
    BY <1>6, <2>1, EventsBefore
  <2>3. EventIds(report.frames) = {report.frames[j].event.id : j \in 1 .. n}
    BY <1>3 DEF EventIds
  <2>. QED
    BY <1>6, <2>2, <2>3
<1>11. after.sim.acc.preBalance \in Int
  <2>1. sim'.acc \in A!ArchiveType
    <3>1. (sim.acc \in A!ArchiveType)'
      BY ReplayedAccount, PTL
    <3>. QED
      BY <3>1
  <2>. QED
    BY <1>1, <2>1 DEF A!ArchiveType, A!AccountOf
<1>12. FrameTold(t, n + 1) /\ StandsAt(t, n + 1, after)
  <2>1. StandsAt(t, n, Moment)
    <3>1. At(t, n) = At(report, n) /\ Active(t, n) = Active(report, n)
      BY <1>4, <1>7
    <3>2. EndsHere(report, Moment)
      BY DEF ToldWell
    <3>. QED
      BY <3>1, <3>2 DEF EndsHere, StandsAt
  <2>2. t.frames[n + 1] = FrameOf(e, Moment, after)
    BY <1>6 DEF frame
  <2>3. e.id \notin EventIds(SubSeq(t.frames, 1, n)) /\ e.id # NoID /\ WellLoaded(e) /\ e.day = day
    BY <1>8, <1>10, Zenon
  <2>. HIDE DEF n
  <2>. QED
    BY <1>4, <1>6, <1>11, <2>1, <2>2, <2>3, FrameIsTold, Zenon
<1>13. after = Moment'
  <2>1. PICK x, y, z : after = [day |-> x, rules |-> y, sim |-> z]
    BY <1>8, AfterShape
  <2>. QED
    BY <1>1, <2>1 DEF Moment
<1>14. EndsHere(t, after)
  <2>1. Len(t.frames) = n + 1 /\ t.final = after
    BY <1>5, <1>6
  <2>. QED
    BY <1>12, <2>1 DEF EndsHere
<1>15. BeginsWell(t)
  BY <1>5 DEF ToldWell, BeginsWell
<1>16. \A k \in 1 .. Len(t.frames) : FrameTold(t, k) /\ (k # Len(t.frames) => Recomputed(t, k))
  <2>1. \A k \in 1 .. n + 1 : k = n + 1 \/ k \in 1 .. n
    BY <1>4
  <2>2. \A k \in 1 .. n : FrameTold(t, k) /\ Recomputed(t, k)
    BY <1>7, <1>9 DEF ToldWell
  <2>. QED
    BY <1>6, <1>12, <2>1, <2>2
<1>17. ToldWell(report', Moment')
  <2>1. report' = t
    BY <1>1 DEF t
  <2>2. DOMAIN t = {"status", "initial", "frames", "failedAt", "final"} /\ \E Y : t.frames \in Seq(Y)
    BY <1>5, <1>6 DEF ToldWell
  <2>. QED
    BY <1>13, <1>14, <1>15, <1>16, <2>1, <2>2 DEF ToldWell
<1>18. EndsAsTold'
  <2>1. report' = t
    BY <1>1 DEF t
  <2>. QED
    BY <1>2, <1>5, <2>1 DEF EndsAsTold
<1>19. ToldWell(report, Moment)'
  BY <1>17
<1>. QED
  BY <1>18, <1>19

\* A report that is changed in its status or its failure alone is told as before (replay/engine.go Run).
LEMMA StillTold ==
  ASSUME NEW r, NEW m, ToldWell(r, m), NEW t, DOMAIN t = DOMAIN r, t.frames = r.frames, t.initial = r.initial,
         t.final = r.final
  PROVE  ToldWell(t, m)
<1>1. PICK X : r.frames \in Seq(X)
  BY DEF ToldWell
<1>2. Len(r.frames) \in Nat
  BY <1>1
<1>3. /\ \A k \in 0 .. Len(r.frames) : At(t, k) = At(r, k) /\ Active(t, k) = Active(r, k)
      /\ \A k \in 1 .. Len(r.frames) : /\ FrameTold(r, k) => FrameTold(t, k)
                                       /\ Recomputed(r, k) => Recomputed(t, k)
  <2>1. \A j \in 1 .. Len(r.frames) : t.frames[j] = r.frames[j]
    OBVIOUS
  <2>2. t.frames \in Seq(X) /\ Len(r.frames) <= Len(t.frames)
    BY <1>1, <1>2
  <2>. QED
    BY <1>1, <2>1, <2>2, SamePrefix, Zenon
<1>4. BeginsWell(t)
  BY DEF ToldWell, BeginsWell
<1>5. EndsHere(t, m)
  BY <1>2, <1>3 DEF ToldWell, EndsHere, StandsAt
<1>. QED
  BY <1>1, <1>3, <1>4, <1>5 DEF ToldWell

\* Every step of a replay keeps its report told (replay/engine.go Run, cmd/replay/main.go).
LEMMA NextTelling ==
  ASSUME NothingIsApart
  PROVE  Replayed /\ Replayed' /\ Telling /\ [ReplayNext]_replaying => Telling'
<1>. SUFFICES ASSUME Replayed, Replayed', Telling, [ReplayNext]_replaying PROVE Telling'
  OBVIOUS
<1>1. ASSUME NEW e \in Events, Keep(e) PROVE Telling'
  BY <1>1, KeepTells DEF Keep, Telling
<1>2. CASE Refuse
  BY <1>2 DEF Refuse, Telling
<1>3. ASSUME stage = "run", UNCHANGED vars, stage' = "publish", ToldWell(report, Moment), NEW t, report' = t,
             DOMAIN t = DOMAIN report, t.frames = report.frames, t.initial = report.initial, t.final = report.final,
             \/ t.status = "passed" /\ t.failedAt = Nothing
             \/ t.status = "failed" /\ t.failedAt = Len(t.frames)
      PROVE  Telling'
  <2>1. ToldWell(t, Moment)
    BY <1>3, StillTold
  <2>2. report' = t /\ Moment' = Moment
    BY <1>3 DEF Moment, vars
  <2>3. ToldWell(report, Moment)'
    BY <2>1, <2>2
  <2>. QED
    BY <1>3, <2>3 DEF Telling, EndsAsTold
<1>4. CASE Pass
  <2>. DEFINE t == [report EXCEPT !.status = "passed"]
  <2>1. ToldWell(report, Moment) /\ EndsAsTold /\ stage = "run"
    BY <1>4 DEF Pass, Telling
  <2>2. DOMAIN t = DOMAIN report /\ t.frames = report.frames /\ t.initial = report.initial /\ t.final = report.final
        /\ t.status = "passed" /\ t.failedAt = Nothing
    BY <2>1 DEF ToldWell, EndsAsTold
  <2>3. report' = t /\ stage' = "publish" /\ UNCHANGED vars
    BY <1>4 DEF Pass
  <2>. HIDE DEF t
  <2>. QED
    BY <1>3, <2>1, <2>2, <2>3
<1>5. ASSUME NEW e \in Events, FailAt(e) PROVE Telling'
  <2>. DEFINE t == Ended
  <2>1. ToldWell(report, Moment) /\ EndsAsTold /\ stage = "run"
    BY <1>5 DEF FailAt, Telling
  <2>2. DOMAIN t = DOMAIN report /\ t.frames = report.frames /\ t.initial = report.initial /\ t.final = report.final
        /\ t.status = "failed" /\ t.failedAt = Len(t.frames)
    BY <2>1 DEF ToldWell, EndsAsTold, Ended
  <2>3. report' = t /\ stage' = "publish" /\ UNCHANGED vars
    BY <1>5 DEF FailAt
  <2>. HIDE DEF t
  <2>. QED
    BY <1>3, <2>1, <2>2, <2>3
<1>6. ASSUME UNCHANGED <<vars, report>>, stage # "run" \/ stage' = stage, stage' # "run" \/ stage' = stage
      PROVE  Telling'
  <2>1. ToldWell(report, Moment) => ToldWell(report, Moment)'
    BY <1>6 DEF Moment, vars
  <2>2. EndsAsTold => EndsAsTold'
    BY <1>6 DEF EndsAsTold
  <2>. QED
    BY <1>6, <2>1, <2>2 DEF Telling
<1>7. CASE Exit
  BY <1>6, <1>7 DEF Exit
<1>8. CASE PublishReport \/ Environment
  BY <1>6, <1>8 DEF PublishReport, Environment, running
<1>9. CASE UNCHANGED replaying
  BY <1>6, <1>9 DEF replaying, running
<1>. QED
  BY <1>1, <1>2, <1>4, <1>5, <1>7, <1>8, <1>9, Zenon DEF ReplayNext

(***************************************************************************)
(* ReportsReadBack: a report is written from the run's own values and read *)
(* by checking them against each other.  Whatever the script, every frame  *)
(* agrees with the one before it, with the rules in force and with what is *)
(* worked out again from it; only the last account may be one that Restore *)
(* refuses, since no event has restored it (replay/engine.go Run,          *)
(* replay/report.go validateReport, replay/lifecycle.go).                  *)
(***************************************************************************)
THEOREM ReportsAreReadBack ==
  ASSUME StartsMean, NothingIsApart
  PROVE  ReplaySpec => []ReportsReadBack
<1>1. Telling => ReportsReadBack
  BY ToldIsValid DEF ReportsReadBack
<1>. QED
  BY <1>1, InitReplayed, NextReplayed, InitTelling, NextTelling, PTL DEF ReplaySpec, replaying
=============================================================================

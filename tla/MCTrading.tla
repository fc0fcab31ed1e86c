----------------------------- MODULE MCTrading -----------------------------
(***************************************************************************)
(* Three accounts: one of a contract whose close-todays are rewritten, one *)
(* of a contract that keeps today and history lots apart, one of two       *)
(* contracts whose margin is taken on the larger side, of a product the    *)
(* calendar has no sessions of, so that only outside trades reach it.  A   *)
(* tick is 2, the limits are 2 and 6 around a previous settlement price of *)
(* 4.  Contracts may be held until day 2, with more margin on that day.    *)
(*                                                                         *)
(* The trading days are 1, 2 and 4.  A natural day has 8 clocks: sessions  *)
(* 2..3 and 5, and a night 6, 7 and 0 that belongs to the next trading     *)
(* day; what happens in the night after day 4 is not known.                *)
(***************************************************************************)
EXTENDS Trading, TLC

CONSTANTS m, n, orderA, orderB

Rate(byMoney, byVolume) == [byMoney |-> byMoney, byVolume |-> byVolume]

Fees == [o \in {"Open", "Close", "CloseToday"} |->
           CASE o = "Open" -> Rate(1, 0) [] o = "Close" -> Rate(0, 2) [] OTHER -> Rate(0, 4)]
Margins(long, short) == [d \in {"Buy", "Sell"} |-> IF d = "Buy" THEN Rate(long, 0) ELSE Rate(short, 1)]

Dalian ==
  [product |-> "p", dateType |-> "NoUseHistory", measured |-> TRUE, maxMarginSide |-> TRUE,
   fee |-> Fees, margin |-> Margins(1, 2), addOn |-> 1,
   isTrading |-> TRUE, tick |-> 2, ratio |-> 50, minVolume |-> 1, maxVolume |-> 2,
   multiplier |-> 1, expires |-> 4]
Shanghai == [Dalian EXCEPT !.dateType = "UseHistory", !.measured = FALSE]

Step(from, long) == [from |-> from, margin |-> Margins(long, 2), addOn |-> 1]

Schedule(held, steps) ==
  [first |-> 1, last |-> 4, investor |-> "Individual",
   contracts |-> [i \in held |-> [lastTrading |-> 4, lastHolding |-> 2, steps |-> steps]]]

\* The third version is not a schedule: two of its steps begin on one day.
SchedulesOf(held) ==
  [version \in 1 .. 3 |-> IF version = 3 THEN Schedule(held, <<Step(1, 1), Step(1, 2)>>)
                                         ELSE Schedule(held, <<Step(1, 1), Step(2, 2)>>)]

-----------------------------------------------------------------------------
HistoryLot == [openDay |-> 0, openPrice |-> 2, volume |-> 1, basis |-> 4, settled |-> TRUE]

\* A morning with history lots, every price 4; lots is instrument -> direction -> lots.
Morning(base, schedules, preBalance, lots) ==
  LET today == L!DailyRules(base, schedules[1], 1, 1)
      bare  == [S(today)!NewSimulator(preBalance) EXCEPT
                  !.positions = lots, !.prices = [i \in DOMAIN lots |-> [last |-> 4, pre |-> 4]]]
  IN  [bare EXCEPT !.acc = S(today)!Revalued(@, bare.positions, bare.prices)]

Flat  == [d \in {"Buy", "Sell"} |-> <<>>]
Long  == [d \in {"Buy", "Sell"} |-> IF d = "Buy" THEN <<HistoryLot>> ELSE <<>>]
LongTwo == [Long EXCEPT !["Buy"] = <<[HistoryLot EXCEPT !.volume = 2]>>]
Short == [d \in {"Buy", "Sell"} |-> IF d = "Sell" THEN <<HistoryLot>> ELSE <<>>]

\* An account of the given instruments, with a start for each balance and lots.
AccountOf(held, contract, mornings) ==
  LET base == [version |-> 9, contracts |-> [i \in held |-> contract]] IN
  [base |-> base, schedules |-> SchedulesOf(held),
   starts |-> {Morning(base, SchedulesOf(held), x[1], x[2]) : x \in mornings}]

MCAccounts ==
  [name \in {"dalian", "shanghai", "pair"} |->
     CASE name = "dalian"   -> AccountOf({m}, Dalian, {<<30, [i \in {m} |-> Long]>>, <<12, [i \in {m} |-> Long]>>,
                                                     <<1, [i \in {m} |-> Short]>>})
       [] name = "shanghai" -> AccountOf({n}, Shanghai, {<<30, [i \in {n} |-> Flat]>>, <<30, [i \in {n} |-> Short]>>})
       [] OTHER             -> AccountOf({m, n}, [Dalian EXCEPT !.product = "q"], {<<40, [i \in {m, n} |-> IF i = m THEN LongTwo ELSE Short]>>})]

-----------------------------------------------------------------------------
Request(inst, dir, offset, price, volume) ==
  [inst |-> inst, dir |-> dir, offset |-> offset, price |-> price, volume |-> volume]

\* Prices on the tick, between two ticks and beyond the limit.
MCRequests ==
  {Request(m, "Buy", "Open", price, 1) : price \in {4, 5}}
    \cup {Request(m, "Sell", "Close", 4, volume) : volume \in {1, 2}}
    \cup {Request(m, "Sell", "CloseToday", 6, 1)}
    \cup {Request(n, "Sell", "Open", price, 1) : price \in {4, 8}}
    \cup {Request(n, "Buy", offset, 4, 1) : offset \in {"Close", "CloseToday", "CloseYesterday"}}
MCTrades ==
  {Request(m, "Sell", "Close", 4, 1)} \cup {Request(n, "Buy", offset, 4, 1) : offset \in {"Close", "CloseToday"}}

Span(start, end) == [start |-> start, end |-> end]
Table == [exchange |-> "e", Day |-> {Span(2, 4), Span(5, 6)}, Night |-> {Span(6, 1)}]
MCCalendar ==
  [days |-> {1, 2, 4}, tables |-> [product \in {"p"} |-> Table], global |-> Undeclared,
   nights |-> {[exchange |-> "e", first |-> 1, last |-> 2, suspended |-> {}]}]

\* Of day 1, in a session and at its end; of day 2; of day 4 after midnight.
MCTimes == {11, 12, 14, 24}

Bar(inst, start, end, low, close, high) ==
  [inst |-> inst, start |-> start, end |-> end, low |-> low, close |-> close, high |-> high]

\* Up to a close, over a break, into the next day's session, over midnight; beyond a limit.
MCBars ==
  UNION {{Bar(i, 10, 12, 2, 4, 6), Bar(i, 10, 14, 4, 6, 6), Bar(i, 10, 19, 4, 6, 6), Bar(i, 13, 14, 4, 6, 7),
          Bar(i, 14, 17, 2, 2, 6), Bar(i, 22, 25, 2, 2, 2)} : i \in {m, n}}

Ids == Permutations(ID)

MCLimit == [i \in {m, n} |-> 2]
InwardRounding == [i \in {m, n} |-> "Inward"]

\* What the theorems of `Trading' suppose of the accounts is so of these.
ASSUME AccountsMeanSomething == StartsMean /\ StartsRest
ASSUME GroupsAgreeInEveryBase == BasesAgree
=============================================================================

------------------------------- MODULE Probe -------------------------------
(***************************************************************************)
(* The experiments against the simulated counter of KQ                      *)
(* (src/cmd/oracle/probe): what their instructions do, and the scripts.     *)
(* Every wait has a time limit, and ends one way or the other.              *)
(***************************************************************************)
EXTENDS Runner

LegsOf(sym) == {leg \in Legs : leg.sym = sym}
Seen(leg) == view.pos[leg]

\* A check or a wait: the script goes on if the picture agrees.
Requires(do, agrees) ==
  /\ Doing(do) /\ Fresh /\ Unmoved
  /\ IF agrees THEN Done ELSE Fails({})

\* The account, or the symbol, holds nothing.
OpenLots(legs) == MapThenSumSet(LAMBDA leg : AllLots(Seen(leg)), legs)
IsFlat == Requires("flat", OpenLots(Now.legs) = 0)

LotsShow == Requires("lots", \A leg \in Now.legs : Seen(leg).today > 0)
NoneShow == Requires("none", Seen(Now.leg).today = 0)
RequireYesterday == Requires("history", Seen(Now.leg).his > 0)
ShapePrecondition == Requires("shape", Seen(Long).his > 0 /\ Seen(Long).today = 0 /\ Seen(Short).today = 0)

\* The leg holds something before an order, and one lot more after it.
Held ==
  /\ Doing("held") /\ Fresh /\ Unmoved
  /\ IF AllLots(Seen(Now.leg)) < 1 THEN Fails({})
     ELSE todo' = Tail(todo) /\ at' = [Rest EXCEPT !.p = Seen(Now.leg)] /\ UNCHANGED <<later, out>>
Grown == Requires("grown", AllLots(Seen(Now.leg)) = AllLots(at.p) + 1)

-----------------------------------------------------------------------------
(* Orders of one lot.  "leave" and "cancel" must trade, "ask" and "askAll"  *)
(* take any answer; they differ in what is done when the time is up.        *)

Send ==
  /\ Doing("order") /\ Fresh
  /\ \/ Fails({}) /\ Unmoved
     \/ Place(Now.leg, Now.off, 1, "await", at.p)

MustTrade == Now.late \in {"leave", "cancel"}
CancelsLate == \/ Now.late \in {"cancel", "askAll"}
               \/ Now.late = "ask" /\ Status = "alive"

WaitOrderFinished ==
  /\ Doing("order") /\ In("await")
  /\ \/ Filled /\ Done /\ Unmoved
     \/ Finished /\ ~Filled /\ Unmoved /\ (IF MustTrade THEN Fails({}) ELSE Done)
     \/ /\ ~Finished
        /\ IF CancelsLate THEN CancelsOrLoses({at.id}) ELSE Unmoved
        /\ IF MustTrade THEN Fails({at.id}) ELSE Tells({at.id})

-----------------------------------------------------------------------------
(* Closing the lots of today of a leg: CloseToday, and a plain Close after  *)
(* a refusal, unless the leg has history that it might take.                *)

\* Faulty variant: an order that is over has traded.
DecideFallbackHasty(p, finished, filled) == IF finished THEN "done" ELSE "timeout"

DecideFallback(p, finished, filled) ==
  CASE finished /\ filled -> "done"
    [] ~finished          -> "timeout"
    [] OTHER              -> IF p.his > 0 THEN "forbidden" ELSE "allowed"

Flatten ==
  /\ Doing("flatten") /\ Fresh
  /\ LET p == Seen(Now.leg)
     IN  \/ p.today = 0 /\ Done /\ Unmoved
         \/ p.today > 0 /\ Fails({}) /\ Unmoved
         \/ p.today > 0 /\ Place(Now.leg, "CloseToday", p.today, "first", p)

FlattenGoesOn ==
  /\ Doing("flatten") /\ at.ph \in {"first", "second"}
  /\ LET d == DecideFallback(at.p, Finished, Filled)
     IN  \/ d = "done" /\ Done /\ Unmoved
         \/ d = "timeout" /\ Fails({at.id}) /\ CancelsOrLoses({at.id})
         \/ d = "forbidden" /\ Fails({}) /\ Unmoved
         \/ d = "allowed" /\ Fails({}) /\ Unmoved
         \/ d = "allowed" /\ In("first") /\ Place(Now.leg, "Close", at.p.today, "second", at.p)

\* flattenAny: everything of a leg, lot by lot, today's lots first.
FlattenAny ==
  /\ Doing("byLot") /\ Fresh
  /\ IF AllLots(Seen(Now.leg)) = 0 THEN Done /\ Unmoved
     ELSE \/ Fails({}) /\ Unmoved
          \/ at' = [at EXCEPT !.ph = "lot", !.p = Seen(Now.leg)] /\ Unmoved /\ UNCHANGED <<todo, later, out>>

FlattenNextLot ==
  /\ Doing("byLot") /\ In("lot")
  /\ IF AllLots(at.p) = 0 THEN Done /\ Unmoved
     ELSE \/ Fails({}) /\ Unmoved
          \/ Place(Now.leg, IF at.p.today > 0 THEN "CloseToday" ELSE "Close", 1, "await", at.p)

FlattenLotEnds ==
  /\ Doing("byLot") /\ In("await")
  /\ \/ /\ Filled /\ Unmoved /\ UNCHANGED <<todo, later, out>>
        /\ at' = [at EXCEPT !.ph = "lot", !.p = IF @.today > 0 THEN [@ EXCEPT !.today = @ - 1] ELSE [@ EXCEPT !.his = @ - 1]]
     \/ Finished /\ ~Filled /\ Fails({}) /\ Unmoved
     \/ ~Finished /\ Fails({at.id}) /\ CancelsOrLoses({at.id})

-----------------------------------------------------------------------------
(* Instructions that look at the picture and become others. *)

OrderOn(leg, off, late) == [On("order", leg) EXCEPT !.off = off, !.late = late]
OpenOneLot(leg) == OrderOn(leg, "Open", "leave")
Ask(leg, off) == OrderOn(leg, off, "ask")
Lots(leg) == Of("lots", {leg})
None(leg) == On("none", leg)
Flat(legs) == Of("flat", legs)
FlattenLeg(leg) == On("flatten", leg)

SidesThat(fit(_)) == SelectSeq(<<Long, Short>>, fit)

Looks(do, failing, seq) ==
  /\ Doing(do) /\ Fresh /\ Unmoved
  /\ IF failing THEN Fails({}) ELSE Becomes(seq)

\* expCloseOrder: a lot of today is added when there is none.
TopUp == Looks("topUp", FALSE, IF Seen(Now.leg).today > 0 THEN <<>> ELSE <<OpenOneLot(Now.leg), Lots(Now.leg)>>)

\* historyLegWithSpare
CloseSpare ==
  LET legs == SidesThat(LAMBDA l : Seen(l).his >= 2)
  IN  Looks("spare", legs = <<>>, <<OrderOn(Head(legs), "Close", "leave")>>)

\* historyOnlySide
AskHistoryOnly ==
  LET legs == SidesThat(LAMBDA l : Seen(l).today = 0 /\ Seen(l).his > 0)
      ask(off) == Warned(OrderOn(Head(legs), off, "askAll"))
  IN  Looks("historyOnly", legs = <<>>, <<ask("CloseToday"), ask("Close")>>)

\* closableCandidates, in the order of the legs.
CandidatesOn(leg) ==
  LET p == Seen(leg)
      freeze(off) == [On("freeze", leg) EXCEPT !.off = off]
  IN  CASE p.today > 0 -> <<freeze("CloseToday"), freeze("Close")>>
        [] p.today = 0 /\ p.his > 0 -> <<freeze("Close")>>
        [] OTHER -> <<>>

ClosableCandidates ==
  LET all == CandidatesOn(Long) \o CandidatesOn(Short)
  IN  Looks("candidates", all = <<>>, all)

\* A leg comes into profit in time, or none does.
Winner ==
  /\ Doing("winner") /\ Fresh /\ Unmoved
  /\ \/ \E leg \in {Long, Short} : Becomes(<<Else(FlattenLeg(leg), Now.else)>>)
     \/ Fails({})

-----------------------------------------------------------------------------
(* Orders meant to stand. *)

\* expFrozen: the order stands untraded, or is cancelled at once.
StandSend ==
  /\ Doing("stand") /\ Fresh
  /\ \/ Fails({}) /\ Unmoved
     \/ Place(Now.leg, "Open", 1, "await", at.p)
Stands ==
  /\ Doing("stand") /\ In("await")
  /\ \/ Status = "alive" /\ AllLots(Seen(Now.leg)) = 0 /\ Done /\ Unmoved
     \/ ~(Status = "alive" /\ AllLots(Seen(Now.leg)) = 0) /\ Fails({at.id}) /\ CancelsOrLoses({at.id})

CancelLast == Doing("cancel") /\ Fresh /\ CancelsOrLoses({at.id}) /\ (Done \/ Fails({at.id}))
Gone ==
  /\ Doing("gone") /\ Fresh /\ Unmoved
  /\ IF Finished THEN Done ELSE Fails({at.id})

\* expPositionFrozen: one close that is meant to stand, then is taken back.
FreezeSend ==
  /\ Doing("freeze") /\ Fresh
  /\ \/ Fails({}) /\ Unmoved
     \/ Place(Now.leg, Now.off, 1, "await", at.p)

WaitFrozen ==
  /\ Doing("freeze") /\ In("await")
  /\ \/ Status = "none" /\ Fails({at.id}) /\ Unmoved
     \/ Filled /\ Fails({}) /\ Unmoved
     \/ Finished /\ ~Filled /\ Done /\ Unmoved
     \/ Status = "alive" /\ Fails({at.id}) /\ Unmoved
     \/ Status = "alive" /\ (Done \/ Goes("released")) /\ Cancels({at.id})

WaitReleased ==
  /\ Doing("freeze") /\ In("released") /\ Unmoved
  /\ \/ Finished /\ Done
     \/ ~Finished /\ (Done \/ Fails({at.id}))

\* The end of the experiments on refusals: the orders seen alive are cancelled,
\* any of those that are, for the picture may be late.
SweepAlive ==
  /\ Doing("sweep") /\ Fresh /\ Done
  /\ \E seen \in SUBSET AliveOrders(counter) : Cancels(seen)

-----------------------------------------------------------------------------
(* The scripts, by the names of the command line. *)

Status0 == <<Try, Dump>>

MarginPrice ==
  <<Try, Flat(Legs), OpenOneLot(Long), Lots(Long), Dump, FlattenLeg(Long)>>

FeeOf(leg) ==
  <<Flat(LegsOf(leg.sym)), OpenOneLot(leg), Lots(leg), FlattenLeg(leg), None(leg), Judge>>
FeeRates == <<Try>> \o FeeOf(Long) \o FeeOf(OtherLong) \o <<Dump>>
FeeForm == <<Try>> \o FeeOf(Long) \o FeeOf(OtherLong) \o <<Dump>>

FeeBase ==
  LET back == <<FlattenLeg(Long)>>
  IN  <<Try, Flat(LegsOf("a")), OpenOneLot(Long), Lots(Long),
             Else(OpenOneLot(Short), back), Else(Lots(Short), back),
             Dump, Warned(FlattenLeg(Long)), Warned(FlattenLeg(Short)), Judge>>

\* expMaxMarginSide with two symbols, expMaxMarginLock with one.
MaxMargin(short, checked) ==
  LET back == <<FlattenLeg(Long)>>
      both == <<FlattenLeg(Long), FlattenLeg(short)>>
  IN  <<Try, Flat(Legs), OpenOneLot(Long), Lots(Long),
             Else(OpenOneLot(short), back), Else(Lots(short), back)>> \o
           (IF checked THEN <<Else(Of("lots", {Long, short}), both)>> ELSE <<>>) \o
           <<Dump, FlattenLeg(Long), Else(None(Long), <<FlattenLeg(short)>>),
             Warned(FlattenLeg(short)), Judge, Flat(Legs)>>
MaxMarginSide == MaxMargin(OtherShort, FALSE)
MaxMarginLock == MaxMargin(Short, TRUE)

CloseProfitSign ==
  LET both == <<FlattenLeg(Long), FlattenLeg(Short)>>
  IN  <<Try, Flat(LegsOf("a")), OpenOneLot(Long), Else(OpenOneLot(Short), <<FlattenLeg(Long)>>),
             Else(Of("lots", {Long, Short}), both), Else(Plain("winner"), both),
             Dump, Warned(FlattenLeg(Long)), Warned(FlattenLeg(Short)), Judge>>

Frozen ==
  <<Try, Flat(LegsOf("a")), On("stand", Long), Dump, Warned(Plain("cancel")), Warned(Plain("gone"))>>

OvernightSetup ==
  LET seed(leg) == <<Try, OpenOneLot(leg), OpenOneLot(leg)>>
  IN  <<Try, Flat(Legs)>> \o seed(Long) \o seed(OtherLong) \o <<Dump>>

BaselineFull == <<Try, On("history", Long), Dump>>
YdVsHis == <<On("history", Long), Dump>>

CloseOrder ==
  <<Try, On("history", Long), On("topUp", Long), Try,
         Warned(Ask(Long, "CloseToday")), OrderOn(Long, "Close", "leave"), Dump>>

ShapeBothSides == <<Try, Plain("shape"), OpenOneLot(Long), OpenOneLot(Short), Dump>>
AvgPrice == <<Try, On("held", Long), OpenOneLot(Long), On("grown", Long), Judge, Dump>>
FeeCloseHistory == <<Try, Plain("spare"), Judge, Dump>>
PositionDateType == <<Try, Plain("historyOnly"), Dump>>
PositionFrozen == <<Try, Plain("candidates"), Dump>>
FeePredict == <<Try, Judge, Dump>>
SettleCheck == <<Try, Dump, Judge>>
SessionCheck == <<Try, Dump, Judge>>
FlattenAll ==
  <<Try, Warned(On("byLot", Long)), Warned(On("byLot", Short)),
         Warned(On("byLot", OtherLong)), Warned(On("byLot", OtherShort)), Flat(Legs)>>

\* The experiments on refusals: orders the counter is meant to refuse.  Of the
\* five of expRejectCode three are sent here, of the sixteen of tick and limit,
\* which differ in price only, two, of the nine of expRejectPriority four.
Swept(legs) == <<Plain("sweep"), Flat(legs), Dump>>
RejectCode ==
  <<Try, Flat(Legs), Warned(Ask(Long, "Open")), Warned(Ask(Long, "Close")), Warned(Ask(Long, "CloseToday"))>>
       \o Swept(Legs)
RejectTickVsLimit ==
  <<Try, Flat(LegsOf("a")), Warned(Ask(Long, "Open")), Warned(Ask(Long, "Open"))>> \o Swept(LegsOf("a"))
RejectTradable ==
  <<Try, Warned(Ask(Long, "Open")), Warned(Ask(Long, "Open")), Judge, Plain("sweep"), Dump>>
RejectPriority ==
  <<Try, Flat(LegsOf("a")), Try, Ask(Long, "Open"), Ask(Short, "Close"), Ask(Short, "CloseToday"),
         Warned(Ask(Short, "Close"))>> \o Swept(LegsOf("a"))

ProbeScripts ==
  [status |-> Status0, marginPrice |-> MarginPrice, feeRates |-> FeeRates, feeForm |-> FeeForm, feeBase |-> FeeBase,
   maxMarginSide |-> MaxMarginSide, maxMarginLock |-> MaxMarginLock, closeProfitSign |-> CloseProfitSign,
   frozen |-> Frozen, overnightSetup |-> OvernightSetup, baselineFull |-> BaselineFull, ydVsHis |-> YdVsHis,
   closeOrder |-> CloseOrder, shapeBothSides |-> ShapeBothSides, avgPrice |-> AvgPrice,
   feeCloseHistory |-> FeeCloseHistory, positionDateType |-> PositionDateType, positionFrozen |-> PositionFrozen,
   feePredict |-> FeePredict, settleCheck |-> SettleCheck, sessionCheck |-> SessionCheck, flatten |-> FlattenAll,
   rejectCode |-> RejectCode, rejectTickVsLimit |-> RejectTickVsLimit, rejectTradable |-> RejectTradable,
   rejectPriority |-> RejectPriority]

ProbeStep ==
  \/ TryIt \/ Wind \/ Defers \/ IsFlat \/ LotsShow \/ NoneShow \/ RequireYesterday \/ ShapePrecondition \/ Held \/ Grown
  \/ Send \/ WaitOrderFinished \/ Flatten \/ FlattenGoesOn \/ FlattenAny \/ FlattenNextLot \/ FlattenLotEnds
  \/ TopUp \/ CloseSpare \/ AskHistoryOnly \/ ClosableCandidates \/ Winner
  \/ StandSend \/ Stands \/ CancelLast \/ Gone \/ FreezeSend \/ WaitFrozen \/ WaitReleased \/ SweepAlive

=============================================================================

------------------------------ MODULE Commands ------------------------------
(***************************************************************************)
(* The commands against a CTP counter (src/cmd/oracle): what their          *)
(* instructions do, and the scripts.  A query is answered by the counter,   *)
(* or fails; the lots it tells may be those of a moment ago.                *)
(***************************************************************************)
EXTENDS Probe

\* Bounds.  The code sweeps six rounds, closes five lots of today, opens a
\* second lot until a time has passed, and asks for five prices.
SweepRounds == 3
CloseRounds == 3
SecondTries == 1

AnyLots == {[today |-> t, his |-> h] : t \in 0 .. 4, h \in 0 .. 4}
Exactly(t, h) == {[today |-> t, his |-> h]}

-----------------------------------------------------------------------------
(* An order that must trade at once, or be taken back: insertOrCancel. *)

IcN(leg, off, n) == [On("ic", leg) EXCEPT !.off = off, !.n = n]
Ic(leg, off) == IcN(leg, off, 1)
SweepLiveOn(leg) == Warned(On("sweepLive", leg))

OrdersOn(sym) == {i \in DOMAIN counter.orders : counter.orders[i].leg.sym = sym}
LiveOn(sym) == OrdersOn(sym) \cap AliveOrders(counter)

Insert ==
  /\ Doing("ic") /\ Fresh
  /\ \/ at' = [at EXCEPT !.ph = "sweep", !.id = 0] /\ Unmoved /\ UNCHANGED <<todo, later, out>>
     \/ Place(Now.leg, Now.off, Now.n, "await", at.p)

\* Faulty variant: time is not looked at until the order is known.
NeedsCancelPatient ==
  /\ Doing("ic") /\ In("await") /\ Status # "none"
  /\ \/ Filled /\ Done /\ Unmoved
     \/ Goes("sweep") /\ CancelsOrLoses({at.id})

\* Insert comes back when the order has settled, or time is up.
NeedsCancel ==
  /\ Doing("ic") /\ In("await")
  /\ \/ Filled /\ Done /\ Unmoved
     \/ Goes("sweep") /\ CancelsOrLoses({at.id})

\* Two empty answers in a row: the first may come before an order is accepted.
AnotherRound(live) == [at EXCEPT !.n = @ + 1, !.empty = IF live = {} THEN @ + 1 ELSE 0]
SweptClean(live) == live = {} /\ at.empty = 1

SweepLive ==
  /\ (Doing("ic") /\ In("sweep")) \/ Doing("sweepLive")
  /\ LET live == LiveOn(Now.leg.sym)
     IN  \/ Fails(OrdersOn(Now.leg.sym)) /\ Unmoved
         \/ /\ at.n < SweepRounds /\ ~SweptClean(live)
            /\ at' = AnotherRound(live) /\ UNCHANGED <<view, todo, later, out>>
            /\ \E asked \in SUBSET live : counter' = Cancelling(counter, asked)
         \/ /\ at.n < SweepRounds /\ SweptClean(live) /\ Unmoved
            /\ IF Now.do = "ic" THEN Goes("look") ELSE Done

\* Faulty variant: an order that has not traded is taken for cancelled.
AfterCancelCredulous(status) == status # "filled"

\* What the local book says of the order decides; an order it does not know, or
\* not the end of, is not taken for cancelled.
AfterCancel(status) == status \in {"refused", "cancelled"}

CancelAndConfirm ==
  /\ Doing("ic") /\ In("look") /\ Unmoved
  /\ IF at.id = 0 \/ AfterCancel(Status) \/ Filled THEN Fails({}) ELSE Fails({at.id})

-----------------------------------------------------------------------------
(* Queries of the lots. *)

\* The lots of a leg are asked for, and must be as wanted.
Expect(leg, want) == [On("expect", leg) EXCEPT !.goes = want]
Keeps == todo' = Tail(todo) /\ at' = [Rest EXCEPT !.p = Seen(Now.leg)] /\ UNCHANGED <<later, out>>

Positions ==
  /\ Doing("expect") /\ Fresh /\ Unmoved
  /\ Fails({}) \/ (IF Seen(Now.leg) \in Now.goes THEN Keeps ELSE Fails({}))

\* closeOrderPieceVerdict: exactly one lot less, of today or of history.
Piece(leg, which) == [On("piece", leg) EXCEPT !.goes = which]
Consumed(p, q) ==
  CASE q = [p EXCEPT !.today = @ - 1] -> "today"
    [] q = [p EXCEPT !.his = @ - 1]   -> "his"
    [] OTHER -> "unknown"

PieceVerdict ==
  /\ Doing("piece") /\ Fresh /\ Unmoved
  /\ Fails({}) \/ (IF Consumed(at.p, Seen(Now.leg)) \in Now.goes THEN Keeps ELSE Fails({}))

\* The lot must show, for its price is worked out of what the leg cost before
\* and costs now.  openOneLotResting differs in the price and waits longer.
FilledPrice(leg) == Expect(leg, {p \in AnyLots : p.today > 0})
OpenOne(leg) == <<Ic(leg, "Open"), FilledPrice(leg)>>

\* Closing what was opened today, lot by lot, so many rounds; history must not
\* become less.  (ctp-slices and the short side do not look at the history.)
CloseTodayOnly(leg) == Warned([On("closeToday", leg) EXCEPT !.n = CloseRounds])
FlattenLongToday == CloseTodayOnly(Long)

ClosingToday ==
  /\ Doing("closeToday") /\ Fresh /\ Unmoved
  /\ LET p == Seen(Now.leg)
         first == Now.n = CloseRounds
         kept == first \/ p.his >= at.p.his
     IN  \/ Fails({})
         \/ Now.n > 0 /\ kept /\ p.today = 0 /\ Done
         \/ /\ Now.n > 0 /\ kept /\ p.today > 0
            /\ todo' = <<Ic(Now.leg, "CloseToday"), [Now EXCEPT !.n = @ - 1]>> \o Tail(todo)
            /\ at' = IF first THEN [Rest EXCEPT !.p = p] ELSE Rest
            /\ UNCHANGED <<later, out>>

-----------------------------------------------------------------------------
(* Orders meant to be refused or to stand: their answers are what the       *)
(* command is after.  "goes" are the answers after which it goes on.        *)

Await(leg, off, goes) == [On("place", leg) EXCEPT !.off = off, !.goes = goes]

InsertOnly ==
  /\ Doing("place") /\ Fresh
  /\ \/ Unmoved /\ (IF "error" \in Now.goes THEN Done ELSE Fails({}))
     \/ Place(Now.leg, Now.off, 1, "await", at.p)

Answer == CASE Filled -> "traded" [] Status = "alive" -> "alive" [] OTHER -> "refused"

\* An order that stands is taken back, after what the command does meanwhile.
InsertAnswered ==
  /\ Doing("place") /\ In("await") /\ Unmoved
  /\ \/ IF "error" \in Now.goes THEN Tells({at.id}) ELSE Fails({at.id})
     \/ /\ Status # "none"
        /\ IF Answer \in Now.goes
           THEN Becomes(IF Answer = "alive" THEN Now.after ELSE <<>>)
           ELSE Fails({})

TakeBack == Plain("takeBack")
Stop == Requires("stop", FALSE)
TakesBack ==
  /\ Doing("takeBack") /\ Fresh
  /\ \/ Cancels({at.id}) /\ Done
     \/ Unmoved /\ Fails({at.id})

\* The cells of ctp-dup: those that the local book has alive are cancelled.
TakesAllBack ==
  /\ Doing("takeAllBack") /\ Fresh
  /\ \E seen \in SUBSET AliveOrders(counter) :
       \/ Cancels(seen) /\ Done
       \/ Cancels(seen) /\ Fails(AliveOrders(counter) \ seen)

\* ctp-cancel: whatever stands in the account, also of another session.
CancelEverything ==
  /\ Doing("cancelAll") /\ Fresh
  /\ LET live == AliveOrders(counter)
     IN  \/ Fails(live) /\ Unmoved
         \/ live = {} /\ Done /\ Unmoved
         \/ \E asked \in SUBSET live \ {live} : Cancels(asked) /\ Fails(live)
         \/ live # {} /\ Cancels(live) /\ Goes("again")
CancelLooksAgain ==
  /\ Doing("cancelAll") /\ In("again") /\ Unmoved
  /\ \/ Fails(AliveOrders(counter))
     \/ AliveOrders(counter) = {} /\ Done

-----------------------------------------------------------------------------
(* The second lot of ctp-slices: opened when the price is on the wanted     *)
(* side, and closed again if it then was not.                               *)

Second(n) == [Plain("second") EXCEPT !.n = n]
SecondLot ==
  /\ Doing("second") /\ Fresh /\ Unmoved
  /\ \/ Fails({})
     \/ Now.n > 0 /\ Becomes(OpenOne(Long) \o <<[Plain("worth") EXCEPT !.n = Now.n]>>)
FlattenOneLongToday == Ic(Long, "CloseToday")
SecondWorth ==
  /\ Doing("worth") /\ Fresh /\ Unmoved
  /\ \/ Done
     \/ Becomes(<<FlattenOneLongToday, Second(Now.n - 1)>>)

\* ctp-flatten: what the legs hold is closed, each slice by an order of its own;
\* a protected leg is left alone, as far as its protection goes.
ProtectedLots == [leg \in Legs |-> IF leg = Short THEN 1 ELSE 0]
PlanFor(leg) ==
  LET slice(off, n) == IF n = 0 THEN <<>> ELSE <<Warned(IcN(leg, off, n))>>
  IN  IF ProtectedLots[leg] > 0 THEN <<>>
      ELSE slice("CloseToday", Seen(leg).today) \o slice("CloseYesterday", Seen(leg).his)

FlattenPlan ==
  Looks("plan", FALSE, PlanFor(Long) \o PlanFor(OtherLong) \o PlanFor(OtherShort) \o PlanFor(Short))
FlattenVerdict == Requires("verdict", \A leg \in Legs : AllLots(Seen(leg)) <= ProtectedLots[leg])

\* ctp-closeorder on CZCE: a second plain close when the first took the history.
SecondClose ==
  Looks("x0", FALSE, IF Seen(Long) = [today |-> 1, his |-> 0]
                     THEN <<Try, Ic(Long, "Close"), Expect(Long, AnyLots), Dump>> ELSE <<>>)

\* -cleanup: what is held of today and was not opened today is not touched.
CleanupVerdict ==
  /\ Doing("cleanup") /\ Fresh /\ Unmoved
  /\ LET p == Seen(Long)
     IN  \/ p.today = 0 /\ Done
         \/ p.today > 0 /\ Becomes(<<[CloseTodayOnly(Long) EXCEPT !.warn = FALSE]>>)
         \/ p.today > 0 /\ p.his = 0 /\ Fails({})

-----------------------------------------------------------------------------
(* The probe of a resting price: one order, owned and never let go of. *)

Owned(leg, off, goes) == [On("owned", leg) EXCEPT !.off = off, !.goes = goes]

OwnedInsert ==
  /\ Doing("owned") /\ Fresh
  /\ \/ Unmoved /\ Fails({})
     \/ Place(Now.leg, Now.off, 1, "await", at.p)

OwnedEnds == Finished /\ Unmoved /\ (Fails({}) \/ (IF Status \in Now.goes THEN Done ELSE Fails({})))

WaitOwnedOrder ==
  /\ Doing("owned") /\ In("await")
  /\ OwnedEnds \/ (~Finished /\ Goes("ending") /\ CancelsOrLoses({at.id}))
OwnedAfterCancel ==
  /\ Doing("owned") /\ In("ending")
  /\ OwnedEnds \/ (~Finished /\ Unmoved /\ Fails({at.id}))

CheckRestingEmpty ==
  Requires("empty", OpenLots(Legs) = 0 /\ \A i \in DOMAIN counter.orders : counter.orders[i].st \in {"refused", "cancelled"})
NoOrders == Requires("noOrders", \A i \in DOMAIN counter.orders : Over(counter.orders[i].st))

FinishRestingExposure ==
  /\ Doing("finish") /\ Fresh /\ Unmoved
  /\ LET held == OpenLots(Legs)
         close == <<Try, Owned(Long, "CloseToday", {"filled"}), Try, Flat(Legs), Plain("noOrders")>>
     IN  \/ at.id = 0 /\ Done
         \/ at.id # 0 /\ Fails({})
         \/ /\ at.id \notin out.told \cup {0}
            /\ CASE held = 0 /\ ~Filled -> Becomes(<<Try, Plain("noOrders")>>)
                 [] held = 1 /\ Filled /\ Seen(Long).today = 1 -> Becomes(close)
                 [] OTHER -> Fails({})

-----------------------------------------------------------------------------
(* The scripts, by the names of the command line. *)

CtpCancel == <<Try, Plain("cancelAll")>>

CtpCloseOrder ==
  <<Try, Expect(Long, {p \in AnyLots : p.today = 0 /\ p.his > 0}), Defer(<<CloseTodayOnly(Long)>>), Dump>> \o OpenOne(Long)
  \o <<Expect(Long, AnyLots), Dump, Ic(Long, "Close"), Expect(Long, AnyLots), Dump, Plain("x0")>>
CtpCleanup == <<Try, Plain("cleanup")>>

CtpCloseFee(off) ==
  <<Try, Expect(Long, {p \in AnyLots : p.today = 0 /\ p.his > 0}), Dump, Ic(Long, off), Expect(Long, AnyLots), Dump>>
CtpCloseFeeBare == CtpCloseFee("Close")
CtpCloseFeeYd == CtpCloseFee("CloseYesterday")

\* Faulty variant: the close does not say that it means the lot of today.
FlattenNowPlain(leg) == <<Try, Ic(leg, "Close"), Try>>

\* The position and the price are looked at until a gain shows or time is up.
FlattenNow(leg) == <<Try, Ic(leg, "CloseToday"), Try>>
CtpProfit(leg) == <<Try, Ic(leg, "Open")>> \o FlattenNow(leg)
CtpProfitLong == CtpProfit(Long)
CtpProfitShort == CtpProfit(Short)
CtpRoundTrip == <<Try, Ic(Long, "Open"), Try, Ic(Long, "CloseToday"), Try>>

\* -short opens the other side, and still closes this one (main.go:1301).
CtpHoldLong == <<Try, Ic(Long, "Open"), Ic(Long, "CloseToday")>>
CtpHoldShort == <<Try, Ic(Short, "Open"), Ic(Long, "CloseToday")>>
CtpHoldKeep == <<Try, Ic(Long, "Open")>>

CtpFlatten == <<Try, Plain("plan"), Try, Plain("verdict")>>

\* ctp-order: an order far from the price, looked at while it stands.
CtpOrder(off) ==
  <<Try, Defer(<<SweepLiveOn(Long)>>), Then(Await(Long, off, {"alive"}), <<Try, TakeBack, Try>>)>>
CtpOrderOpen == CtpOrder("Open")
CtpOrderClose == CtpOrder("CloseToday")
CtpOrderCloseYd == CtpOrder("CloseYesterday")

SlicePrecondition == Expect(Long, {p \in AnyLots : p.today = 0})
SlicesJudged ==
  <<Expect(Long, {p \in AnyLots : p.today = 2}), Dump, Ic(Long, "CloseToday"), Expect(Long, {p \in AnyLots : p.today = 1}), Dump>>
CtpSlices ==
  <<Try, SlicePrecondition, Defer(<<FlattenLongToday>>)>> \o OpenOne(Long) \o <<Dump, Second(SecondTries)>> \o SlicesJudged

QuotaPremise == Expect(Long, Exactly(0, 1))
CtpQuota ==
  LET oneLess == <<Ic(Long, "Close"), Piece(Long, {"today", "his"}), Dump>>
  IN  <<Try, QuotaPremise, Defer(<<CloseTodayOnly(Long)>>), Dump>> \o OpenOne(Long) \o OpenOne(Long)
      \o <<Expect(Long, Exactly(2, 1)), Dump>> \o oneLess \o oneLess \o oneLess

\* ctp-quota-ext: four deferred calls, each whatever became of the one before.
ExtPremise == <<Expect(Long, Exactly(0, 1)), Expect(Short, Exactly(0, 0))>>
CloseShortTodayOnly == CloseTodayOnly(Short)
Ext(steps) ==
  <<Try>> \o ExtPremise \o
  <<Defer(<<SweepLiveOn(Long)>>), Defer(<<CloseShortTodayOnly>>), Defer(<<CloseTodayOnly(Long)>>),
    Defer(<<SweepLiveOn(Long)>>), Dump>> \o steps
BothHeld == <<Ic(Long, "Open"), Expect(Long, Exactly(1, 1)), Dump>>
CtpExtExplicit ==
  Ext(BothHeld \o <<Ic(Long, "CloseToday"), Piece(Long, {"today"}), Dump, Ic(Long, "Close"), Piece(Long, {"his"}), Dump>>)
CtpExtOpposite ==
  Ext(<<Ic(Short, "Open"), Expect(Short, Exactly(1, 0)), Expect(Long, Exactly(0, 1)), Dump,
        Ic(Long, "Close"), Expect(Long, Exactly(0, 0)), Expect(Short, Exactly(1, 0)), Dump, Ic(Short, "CloseToday"), Dump>>)
CtpExtMulti == Ext(BothHeld \o <<Try, IcN(Long, "Close", 2), Expect(Long, Exactly(0, 0)), Dump, Judge>>)
CtpExtRounding == Ext(<<Try>> \o BothHeld \o <<Try, IcN(Long, "Close", 2), Expect(Long, Exactly(0, 0)), Dump, Judge>>)
CtpExtRewrite ==
  Ext(BothHeld \o <<Ic(Long, "CloseToday"), Piece(Long, {"today", "his"}), Dump,
                    Warned(Ic(Long, "CloseToday")), Expect(Long, AnyLots), Dump>>)

\* The orders of the control and of the four cases on refusals; two of the cases
\* differ from the first in price only.
Control == Then(Await(Long, "Open", {"alive"}), <<Warned(TakeBack)>>)
Cases == {"error", "traded", "alive", "refused"}
Case(off) == Then(Await(Long, off, Cases), <<Warned(TakeBack)>>)
CtpReject == <<Try, Defer(<<SweepLiveOn(Long)>>), Control, Case("Open"), Case("CloseYesterday"), Dump>>
CtpPairs == <<Try, Defer(<<SweepLiveOn(Long)>>), Control, Case("Open"), Case("CloseYesterday"), Dump>>
CtpPriority ==
  <<Try, Defer(<<SweepLiveOn(Long)>>), Then(Await(Long, "Open", {"refused", "alive"}), <<Warned(TakeBack), Plain("stop")>>),
    Judge, Case("Open"), Case("CloseYesterday"), Dump>>

\* ctp-fee: of the points of the price two; ctp-dup: of the five cells two.
Point == Then(Await(Long, "Open", {"error", "alive", "refused"}), <<Try, TakeBack>>)
CtpFee == <<Try, Defer(<<SweepLiveOn(Long)>>), Point, Point, Judge>>
Cell == Await(Long, "Open", {"traded", "alive", "refused"})
CtpDup == <<Try, Defer(<<SweepLiveOn(Long)>>), Cell, Cell, Plain("takeAllBack"), Try>>

CtpFeeProbe ==
  LET round == <<Ic(Long, "Open"), Try, Ic(Long, "CloseToday"), Try>>
  IN  <<Try, Expect(Long, Exactly(0, 0))>> \o round \o round \o <<Dump>>

CtpRestingPrice ==
  <<Try, Defer(<<Plain("finish")>>), Plain("empty"), Owned(Long, "Open", {"cancelled"}), Plain("empty"), Try,
    Owned(Long, "Open", {"filled", "refused", "cancelled"}), Judge, Dump>>

CommandScripts ==
  [ctpCancel |-> CtpCancel, ctpCloseOrder |-> CtpCloseOrder, ctpCleanup |-> CtpCleanup,
   ctpCloseFeeBare |-> CtpCloseFeeBare, ctpCloseFeeYd |-> CtpCloseFeeYd, ctpProfitLong |-> CtpProfitLong,
   ctpProfitShort |-> CtpProfitShort, ctpRoundTrip |-> CtpRoundTrip, ctpHoldLong |-> CtpHoldLong,
   ctpHoldShort |-> CtpHoldShort, ctpHoldKeep |-> CtpHoldKeep, ctpFlatten |-> CtpFlatten,
   ctpOrderOpen |-> CtpOrderOpen, ctpOrderClose |-> CtpOrderClose, ctpOrderCloseYd |-> CtpOrderCloseYd,
   ctpSlices |-> CtpSlices, ctpQuota |-> CtpQuota, ctpExtExplicit |-> CtpExtExplicit,
   ctpExtOpposite |-> CtpExtOpposite, ctpExtMulti |-> CtpExtMulti, ctpExtRounding |-> CtpExtRounding,
   ctpExtRewrite |-> CtpExtRewrite, ctpReject |-> CtpReject, ctpPairs |-> CtpPairs, ctpPriority |-> CtpPriority,
   ctpFee |-> CtpFee, ctpDup |-> CtpDup, ctpFeeProbe |-> CtpFeeProbe, ctpRestingPrice |-> CtpRestingPrice]

CommandStep ==
  \/ Insert \/ NeedsCancel \/ SweepLive \/ CancelAndConfirm \/ Positions \/ PieceVerdict \/ ClosingToday
  \/ InsertOnly \/ InsertAnswered \/ TakesBack \/ TakesAllBack \/ Stop \/ CancelEverything \/ CancelLooksAgain
  \/ SecondLot \/ SecondWorth \/ FlattenPlan \/ FlattenVerdict \/ SecondClose \/ CleanupVerdict
  \/ OwnedInsert \/ WaitOwnedOrder \/ OwnedAfterCancel \/ CheckRestingEmpty \/ NoOrders \/ FinishRestingExposure

=============================================================================

-------------------------- MODULE OrderBookProofs --------------------------
(***************************************************************************)
(* What OrderBook promises, for any ids, any orders, any archives and any  *)
(* largest sequence number.  TypeOK and NumbersSound together are          *)
(* inductive: an order put back can only be given its old number because   *)
(* no other live order carries it, and that an Accept takes a free number  *)
(* follows from every number being at or below the high water.  That every *)
(* failed fill and every reload is undone exactly follows from them.       *)
(***************************************************************************)
EXTENDS OrderBook, Sequences, FiniteSetTheorems, TLAPS

IInv == TypeOK /\ NumbersSound

-----------------------------------------------------------------------------
\* An accepted order takes the number above the high water and leaves the
\* others alone.
LEMMA InsertFacts ==
  ASSUME NEW bk, NEW id, NEW order
  PROVE  LET after == Insert(bk, id, order) IN
           /\ after = [live |-> after.live, last |-> after.last]
           /\ after.last = bk.last + 1
           /\ IDs(after) = IDs(bk) \cup {id}
           /\ after.live = [x \in IDs(after) |-> IF x = id THEN Entry(order, bk.last + 1)
                                                           ELSE bk.live[x]]
BY DEF Insert, InsertAt, IDs

LEMMA RemoveFacts ==
  ASSUME NEW bk, NEW id
  PROVE  LET after == Remove(bk, id) IN
           /\ after = [live |-> after.live, last |-> after.last]
           /\ after.last = bk.last
           /\ IDs(after) = IDs(bk) \ {id}
           /\ after.live = [x \in IDs(after) |-> bk.live[x]]
BY DEF Remove, IDs, Restrict

\* Taking an order off the book and putting it back is no change at all.
LEMMA PutBack ==
  ASSUME TypeOK, NEW id \in IDs(book)
  PROVE  Reinsert(Remove(book, id), id, book.live[id]) = book
<1> DEFINE without == Remove(book, id)
           back    == Reinsert(without, id, book.live[id])
<1>1. /\ without = [live |-> without.live, last |-> book.last]
      /\ IDs(without) = IDs(book) \ {id}
      /\ without.live = [x \in IDs(without) |-> book.live[x]]
  BY RemoveFacts DEF TypeOK
<1>2. /\ back = [live |-> back.live, last |-> back.last]
      /\ back.last = book.last
      /\ back.live = [x \in IDs(book) |-> IF x = id THEN book.live[id] ELSE without.live[x]]
  BY <1>1 DEF Reinsert, InsertAt, IDs
<1>3. back.live = [x \in IDs(book) |-> book.live[x]]
  BY <1>1, <1>2
<1>4. book.live = [x \in IDs(book) |-> book.live[x]]
  BY DEF TypeOK
<1> QED
  BY <1>2, <1>3, <1>4 DEF TypeOK

\* An archive of a book restores to the book.
LEMMA ReloadIsIdentity ==
  ASSUME TypeOK
  PROVE  RestoreBook(ArchivedBook(book)) = book
<1> DEFINE archive == ArchivedBook(book)
           again   == RestoreBook(archive)
<1>1. /\ \A id \in IDs(book) : [id |-> id, entry |-> book.live[id]] \in archive.entries
      /\ \A e \in archive.entries : e.id \in IDs(book) /\ e.entry = book.live[e.id]
  BY DEF ArchivedBook
<1> HIDE DEF archive
<1>2. {e.id : e \in archive.entries} = IDs(book)
  <2>1. ASSUME NEW id \in IDs(book) PROVE \E e \in archive.entries : e.id = id
    <3>1. [id |-> id, entry |-> book.live[id]].id = id
      OBVIOUS
    <3> QED
      BY <1>1, <3>1
  <2> QED
    BY <1>1, <2>1
<1>3. ASSUME NEW id \in IDs(book)
      PROVE  ArchivedEntry(archive, id) = book.live[id]
  BY <1>1 DEF ArchivedEntry
<1>4. again.live = [id \in IDs(book) |-> book.live[id]]
  BY <1>2, <1>3 DEF RestoreBook
<1>5. again.last = book.last
  BY DEF archive, RestoreBook, ArchivedBook
<1>6. again = [live |-> again.live, last |-> again.last]
  BY DEF RestoreBook
<1>7. book.live = [id \in IDs(book) |-> book.live[id]]
  BY DEF TypeOK
<1> QED
  BY <1>4, <1>5, <1>6, <1>7 DEF TypeOK, archive

-----------------------------------------------------------------------------
\* What RestoreBook accepts is a sound book.
LEMMA InitIInv == Init => IInv
<1> SUFFICES ASSUME NEW archive \in Archives, RestorableBook(archive),
                    book = RestoreBook(archive)
             PROVE  IInv
  BY DEF Init
<1>1. /\ archive.last \in 0 .. MaxSequence
      /\ \A e \in archive.entries :
           /\ e.id \in ID
           /\ e.entry \in [order : Orders, sequence : Int]
  BY ArchivesTyped
<1>2. /\ book.last = archive.last
      /\ IDs(book) = {e.id : e \in archive.entries}
      /\ book = [live |-> book.live, last |-> book.last]
  BY DEF RestoreBook, IDs
<1>3. ASSUME NEW e \in archive.entries
      PROVE  book.live[e.id] = e.entry
  BY <1>2, <1>3 DEF RestoreBook, ArchivedEntry, RestorableBook, IDs
<1>4. ASSUME NEW id \in IDs(book)
      PROVE  \E e \in archive.entries : e.id = id /\ book.live[id] = e.entry
  BY <1>2, <1>3, <1>4
<1>5. book.live = [id \in IDs(book) |-> book.live[id]]
  BY <1>2 DEF RestoreBook, IDs
<1>6. TypeOK
  <2>1. book.live \in [IDs(book) -> [order : Orders, sequence : Int]]
    BY <1>1, <1>4, <1>5
  <2>2. IDs(book) \subseteq ID \ {NoID}
    BY <1>1, <1>4 DEF RestorableBook
  <2> QED
    BY <1>1, <1>2, <2>1, <2>2 DEF TypeOK
<1>7. NumbersSound
  BY <1>2, <1>4 DEF NumbersSound, RestorableBook, Sequence
<1> QED
  BY <1>6, <1>7 DEF IInv

\* The facts about the present book every step below starts from.
LEMMA Present ==
  ASSUME IInv
  PROVE  /\ book.last \in Nat /\ book.last <= MaxSequence
         /\ \A id \in IDs(book) : /\ id \in ID /\ id # NoID
                                 /\ book.live[id] \in [order : Orders, sequence : Int]
                                 /\ book.live[id].sequence \in 1 .. book.last
         /\ \A x, y \in IDs(book) :
              book.live[x].sequence = book.live[y].sequence => x = y
BY MaxSequenceNat DEF IInv, TypeOK, NumbersSound, Sequence

LEMMA NextIInv == IInv /\ [Next]_book => IInv'
<1> SUFFICES ASSUME IInv, [Next]_book PROVE IInv'
  OBVIOUS
<1>1. ASSUME NEW id \in ID, NEW order \in Orders, Accept(id, order) PROVE IInv'
  <2>1. /\ book' = [live |-> book'.live, last |-> book'.last]
        /\ book'.last = book.last + 1
        /\ IDs(book') = IDs(book) \cup {id}
        /\ book'.live = [x \in IDs(book') |-> IF x = id THEN Entry(order, book.last + 1)
                                                       ELSE book.live[x]]
    BY <1>1, InsertFacts DEF Accept
  <2>2. id # NoID /\ id \notin IDs(book) /\ book.last < MaxSequence
    BY <1>1 DEF Accept, CanInsert, IDFree
  <2>3. \A x \in IDs(book') : \/ x \in IDs(book) /\ book'.live[x] = book.live[x]
                              \/ x = id /\ book'.live[x] = Entry(order, book.last + 1)
    BY <2>1, <2>2
  <2>4. Entry(order, book.last + 1) \in [order : Orders, sequence : Int]
    BY Present DEF Entry
  <2>5. book'.live \in [IDs(book') -> [order : Orders, sequence : Int]]
    BY <2>1, <2>3, <2>4, Present
  <2>6. TypeOK'
    BY <2>1, <2>2, <2>5, Present, MaxSequenceNat DEF TypeOK, IDs
  <2>7. NumbersSound'
    <3>1. Entry(order, book.last + 1).sequence = book.last + 1
      BY DEF Entry
    <3> QED
      BY <2>1, <2>3, <3>1, Present DEF NumbersSound, Sequence
  <2> QED
    BY <2>6, <2>7 DEF IInv
<1>2. ASSUME NEW id \in ID, Release(id) PROVE IInv'
  <2>1. /\ book' = [live |-> book'.live, last |-> book'.last]
        /\ book'.last = book.last
        /\ IDs(book') = IDs(book) \ {id}
        /\ book'.live = [x \in IDs(book') |-> book.live[x]]
    BY <1>2, RemoveFacts DEF Release
  <2>2. TypeOK'
    BY <2>1, Present, MaxSequenceNat DEF TypeOK, IDs
  <2>3. NumbersSound'
    BY <2>1, Present DEF NumbersSound, Sequence
  <2> QED
    BY <2>2, <2>3 DEF IInv
<1>3. ASSUME NEW id \in ID, FillFails(id) PROVE IInv'
  <2>1. book' = book
    BY <1>3, PutBack DEF FillFails, IInv
  <2> QED
    BY <2>1 DEF IInv, TypeOK, NumbersSound, IDs, Sequence
<1>4. CASE Reload
  <2>1. book' = book
    BY <1>4, ReloadIsIdentity DEF Reload, IInv
  <2> QED
    BY <2>1 DEF IInv, TypeOK, NumbersSound, IDs, Sequence
<1>5. CASE UNCHANGED book
  BY <1>5 DEF IInv, TypeOK, NumbersSound, IDs, Sequence
<1> QED
  BY <1>1, <1>2, <1>3, <1>4, <1>5 DEF Next

LEMMA Invariance == Spec => []IInv
BY InitIInv, NextIInv, PTL DEF Spec

(***************************************************************************)
(* The book always has the shape of the Go struct: no empty id, no number  *)
(* beyond the largest, the high water included.                            *)
(***************************************************************************)
THEOREM TypeCorrect == Spec => []TypeOK
<1>1. IInv => TypeOK
  BY DEF IInv
<1> QED
  BY <1>1, Invariance, PTL

(***************************************************************************)
(* No two live orders ever share a number, and none is above the high      *)
(* water.                                                                  *)
(***************************************************************************)
THEOREM NumbersAlwaysSound == Spec => []NumbersSound
<1>1. IInv => NumbersSound
  BY DEF IInv
<1> QED
  BY <1>1, Invariance, PTL

(***************************************************************************)
(* RestoreBook takes back every book this code wrote, and Reinsert every   *)
(* order a fill has just removed.                                          *)
(***************************************************************************)
THEOREM AlwaysUndoable == Spec => []NeverStuck
<1>1. ASSUME IInv PROVE NeverStuck
  <2>1. RestorableBook(ArchivedBook(book))
    <3> DEFINE archive == ArchivedBook(book)
    <3>1. /\ archive.last = book.last
          /\ \A e \in archive.entries : e.id \in IDs(book) /\ e.entry = book.live[e.id]
      BY DEF ArchivedBook
    <3>2. \A e \in archive.entries : e = [id |-> e.id, entry |-> book.live[e.id]]
      BY DEF ArchivedBook
    <3> HIDE DEF archive
    <3>3. \A e \in archive.entries : e.id # NoID /\ e.entry.sequence \in 1 .. archive.last
      BY <1>1, <3>1, Present
    <3>4. ASSUME NEW e \in archive.entries, NEW f \in archive.entries, e # f
          PROVE  e.id # f.id /\ e.entry.sequence # f.entry.sequence
      BY <1>1, <3>1, <3>2, <3>4, Present
    <3>5. RestorableBook(archive)
      BY <3>3, <3>4 DEF RestorableBook
    <3> QED
      BY <3>5 DEF archive
  <2>2. ASSUME NEW id \in IDs(book)
        PROVE  CanReinsert(Remove(book, id), id, Sequence(book, id))
    <3>1. /\ IDs(Remove(book, id)) = IDs(book) \ {id}
          /\ Remove(book, id).last = book.last
          /\ Remove(book, id).live = [x \in IDs(book) \ {id} |-> book.live[x]]
      BY DEF Remove, IDs, Restrict
    <3> QED
      BY <1>1, <3>1, Present DEF CanReinsert, IDFree, Sequence
  <2> QED
    BY <2>1, <2>2 DEF NeverStuck
<1> QED
  BY <1>1, Invariance, PTL

(***************************************************************************)
(* A live order never changes its number, the high water never falls, and  *)
(* every number given is above all numbers ever given.                     *)
(***************************************************************************)
THEOREM NumbersGivenOnce == Spec => NumbersNeverReissued
<1> DEFINE Step ==
      /\ book'.last >= book.last
      /\ \A id \in IDs(book)' :
           \/ id \in IDs(book) /\ book'.live[id] = book.live[id]
           \/ book'.live[id].sequence > book.last
<1>1. IInv /\ [Next]_book => [Step]_book
  <2> SUFFICES ASSUME IInv, Next PROVE Step
    OBVIOUS
  <2>1. ASSUME NEW id \in ID, NEW order \in Orders, Accept(id, order) PROVE Step
    <3>1. /\ book'.last = book.last + 1
          /\ IDs(book') = IDs(book) \cup {id}
          /\ book'.live = [x \in IDs(book') |-> IF x = id THEN Entry(order, book.last + 1)
                                                         ELSE book.live[x]]
      BY <2>1, InsertFacts DEF Accept
    <3>2. Entry(order, book.last + 1).sequence > book.last
      BY Present DEF Entry
    <3> QED
      BY <3>1, <3>2, Present DEF IDs
  <2>2. ASSUME NEW id \in ID, Release(id) PROVE Step
    <3>1. /\ book'.last = book.last
          /\ IDs(book') = IDs(book) \ {id}
          /\ book'.live = [x \in IDs(book') |-> book.live[x]]
      BY <2>2, RemoveFacts DEF Release
    <3> QED
      BY <3>1, Present DEF IDs
  <2>3. ASSUME book' = book PROVE Step
    BY <2>3, Present DEF IDs
  <2>4. ASSUME NEW id \in ID, FillFails(id) PROVE Step
    BY <2>3, <2>4, PutBack DEF FillFails, IInv
  <2>5. CASE Reload
    BY <2>3, <2>5, ReloadIsIdentity DEF Reload, IInv
  <2> QED
    BY <2>1, <2>2, <2>4, <2>5 DEF Next
<1> QED
  BY <1>1, Invariance, PTL DEF Spec, NumbersNeverReissued

-----------------------------------------------------------------------------
(***************************************************************************)
(* The book as a queue.  The places of the live orders are the numbers     *)
(* from one to how many there are, each taken once, so OrderedIDs is the   *)
(* one sequence with every id at its place.  An order with a new number    *)
(* takes the last place and moves no other; one that leaves moves those    *)
(* behind it up by one.                                                    *)
(***************************************************************************)
\* Finitely many live orders, each with a number of its own.
Numbered(bk) ==
  /\ IsFiniteSet(IDs(bk))
  /\ \A x \in IDs(bk) : Sequence(bk, x) \in Int
  /\ \A x, y \in IDs(bk) : Sequence(bk, x) = Sequence(bk, y) => x = y

\* Numbers up to the high water suffice for finitely many orders only.
LEMMA BookNumbered == IInv => Numbered(book)
<1> SUFFICES ASSUME IInv PROVE IsFiniteSet(IDs(book))
  BY Present DEF Numbered, Sequence
<1> DEFINE number == [id \in IDs(book) |-> Sequence(book, id)]
<1>1. number \in Injection(IDs(book), 1 .. book.last)
  BY Present DEF Sequence, Injection, IsInjective
<1>2. IsFiniteSet(1 .. book.last)
  BY Present, FS_Interval
<1> QED
  BY <1>1, <1>2, FS_Injection

\* The places are taken in the order of the numbers, and none is left out.
LEMMA PlacesTaken ==
  ASSUME NEW bk, Numbered(bk)
  PROVE  LET n == Cardinality(IDs(bk)) IN
           /\ n \in Nat
           /\ \A x \in IDs(bk) : Place(bk, x) \in 1 .. n
           /\ \A x, y \in IDs(bk) : Sequence(bk, x) < Sequence(bk, y) => Place(bk, x) < Place(bk, y)
           /\ \A k \in 1 .. n : \E x \in IDs(bk) : Place(bk, x) = k
<1> DEFINE n == Cardinality(IDs(bk))
           Earlier(y) == {x \in IDs(bk) : Sequence(bk, x) <= Sequence(bk, y)}
<1>1. n \in Nat
  BY FS_CardinalityType DEF Numbered
<1>2. ASSUME NEW y \in IDs(bk)
      PROVE  /\ IsFiniteSet(Earlier(y)) /\ y \in Earlier(y)
             /\ Place(bk, y) = Cardinality(Earlier(y)) /\ Place(bk, y) \in 1 .. n
  <2>1. Earlier(y) \in SUBSET IDs(bk) /\ y \in Earlier(y)
    BY DEF Numbered
  <2>2. Place(bk, y) = Cardinality(Earlier(y))
    BY DEF Place
  <2> HIDE DEF Earlier
  <2>3. IsFiniteSet(Earlier(y)) /\ Cardinality(Earlier(y)) <= n
    BY <2>1, FS_Subset DEF Numbered
  <2>4. Cardinality(Earlier(y)) \in Nat /\ Cardinality(Earlier(y)) # 0
    BY <2>1, <2>3, FS_CardinalityType, FS_EmptySet
  <2> QED
    BY <1>1, <2>1, <2>2, <2>3, <2>4
<1>3. ASSUME NEW x \in IDs(bk), NEW y \in IDs(bk), Sequence(bk, x) < Sequence(bk, y)
      PROVE  Place(bk, x) < Place(bk, y)
  <2>1. Earlier(x) \in SUBSET Earlier(y) /\ y \notin Earlier(x)
    BY <1>3 DEF Numbered
  <2> HIDE DEF Earlier
  <2>2. Cardinality(Earlier(x)) <= Cardinality(Earlier(y)) /\ Cardinality(Earlier(x)) # Cardinality(Earlier(y))
    BY <1>2, <2>1, FS_Subset
  <2> QED
    BY <1>1, <1>2, <2>2
<1>4. \A k \in 1 .. n : \E x \in IDs(bk) : Place(bk, x) = k
  <2> DEFINE place == [x \in IDs(bk) |-> Place(bk, x)]
  <2>1. \A x, y \in IDs(bk) : Place(bk, x) = Place(bk, y) => x = y
    <3> SUFFICES ASSUME NEW x \in IDs(bk), NEW y \in IDs(bk), x # y PROVE Place(bk, x) # Place(bk, y)
      OBVIOUS
    <3>1. Sequence(bk, x) < Sequence(bk, y) \/ Sequence(bk, y) < Sequence(bk, x)
      BY DEF Numbered
    <3>2. Place(bk, x) \in 1 .. n /\ Place(bk, y) \in 1 .. n
      BY <1>2
    <3> HIDE DEF Earlier
    <3> QED
      BY <1>1, <1>3, <3>1, <3>2
  <2>2. place \in Injection(IDs(bk), 1 .. n)
    BY <1>2, <2>1 DEF Injection, IsInjective
  <2>3. IsFiniteSet(1 .. n) /\ Cardinality(1 .. n) = n
    BY <1>1, FS_Interval
  <2> HIDE DEF place
  <2>4. place \in Surjection(IDs(bk), 1 .. n)
    BY <2>2, <2>3, FS_Injection
  <2> QED
    BY <2>4 DEF Surjection, place
<1> QED
  BY <1>1, <1>2, <1>3, <1>4

\* OrderedIDs has every id at its place, and nothing else does.
LEMMA OrderIs ==
  ASSUME NEW bk, Numbered(bk), NEW q
  PROVE  LET n == Cardinality(IDs(bk)) IN
           q = OrderedIDs(bk) <=> /\ q \in [1 .. n -> IDs(bk)]
                                  /\ \A k \in 1 .. n : Place(bk, q[k]) = k
<1> DEFINE n == Cardinality(IDs(bk))
           At(k) == CHOOSE id \in IDs(bk) : Place(bk, id) = k
<1>1. \A x, y \in IDs(bk) : Place(bk, x) = Place(bk, y) => x = y
  <2> SUFFICES ASSUME NEW x \in IDs(bk), NEW y \in IDs(bk), x # y PROVE Place(bk, x) # Place(bk, y)
    OBVIOUS
  <2>1. Sequence(bk, x) < Sequence(bk, y) \/ Sequence(bk, y) < Sequence(bk, x)
    BY DEF Numbered
  <2>2. Place(bk, x) \in Int /\ Place(bk, y) \in Int
    BY PlacesTaken
  <2> QED
    BY <2>1, <2>2, PlacesTaken
<1>2. \A k \in 1 .. n : At(k) \in IDs(bk) /\ Place(bk, At(k)) = k
  BY PlacesTaken
<1>3. OrderedIDs(bk) = [k \in 1 .. n |-> At(k)]
  BY DEF OrderedIDs
<1> HIDE DEF At, n
<1>4. ASSUME q \in [1 .. n -> IDs(bk)], \A k \in 1 .. n : Place(bk, q[k]) = k
      PROVE  q = OrderedIDs(bk)
  <2>1. \A k \in 1 .. n : q[k] = At(k)
    BY <1>1, <1>2, <1>4
  <2> QED
    BY <1>3, <1>4, <2>1
<1> QED
  BY <1>2, <1>3, <1>4 DEF n

\* An order with the highest number joins the queue at its end.
LEMMA InsertJoins ==
  ASSUME NEW bk, NEW after, NEW id, Numbered(bk), Numbered(after),
         id \notin IDs(bk), IDs(after) = IDs(bk) \cup {id},
         \A x \in IDs(bk) : /\ Sequence(after, x) = Sequence(bk, x)
                            /\ Sequence(after, x) < Sequence(after, id)
  PROVE  OrderedIDs(after) = Append(OrderedIDs(bk), id)
<1> DEFINE n == Cardinality(IDs(bk))
           q == OrderedIDs(bk)
           longer == Append(q, id)
<1>1. n \in Nat /\ Cardinality(IDs(after)) = n + 1
  BY PlacesTaken, FS_AddElement DEF Numbered
<1>2. q \in [1 .. n -> IDs(bk)] /\ \A k \in 1 .. n : Place(bk, q[k]) = k
  BY OrderIs
<1>3. \A x \in IDs(bk) : Place(after, x) = Place(bk, x)
  <2> SUFFICES ASSUME NEW x \in IDs(bk)
               PROVE  {y \in IDs(after) : Sequence(after, y) <= Sequence(after, x)}
                        = {y \in IDs(bk) : Sequence(bk, y) <= Sequence(bk, x)}
    BY DEF Place
  <2>1. Sequence(after, id) \in Int /\ Sequence(after, x) \in Int
    BY DEF Numbered
  <2>2. ~(Sequence(after, id) <= Sequence(after, x))
    BY <2>1
  <2> QED
    BY <2>2
<1>4. Place(after, id) = n + 1
  <2>1. \A y \in IDs(after) : Sequence(after, y) <= Sequence(after, id)
    BY DEF Numbered
  <2>2. {y \in IDs(after) : Sequence(after, y) <= Sequence(after, id)} = IDs(after)
    BY <2>1
  <2> QED
    BY <1>1, <2>2 DEF Place
<1> HIDE DEF n, q
<1>5. q \in Seq(IDs(bk)) /\ Len(q) = n
  BY <1>1, <1>2
<1>6. longer \in [1 .. n + 1 -> IDs(after)] /\ longer[n + 1] = id /\ \A k \in 1 .. n : longer[k] = q[k]
  <2>1. q \in Seq(IDs(after))
    BY <1>1, <1>2
  <2>2. longer \in Seq(IDs(after)) /\ Len(longer) = n + 1
    BY <1>5, <2>1
  <2>3. longer[n + 1] = id /\ \A k \in 1 .. n : longer[k] = q[k]
    BY <1>1, <1>5, <2>1
  <2> HIDE DEF longer
  <2>4. longer \in [1 .. n + 1 -> IDs(after)]
    BY <2>2
  <2> QED
    BY <2>3, <2>4
<1> HIDE DEF longer
<1>7. \A k \in 1 .. n + 1 : Place(after, longer[k]) = k
  BY <1>1, <1>2, <1>3, <1>4, <1>6
<1>8. longer = OrderedIDs(after)
  BY <1>1, <1>6, <1>7, OrderIs
<1> QED
  BY <1>8 DEF longer, q

\* r is the sequence q of n elements without its k-th.
IsWithout(r, q, n, k) ==
  /\ DOMAIN r = 1 .. n - 1
  /\ \A m \in 1 .. n - 1 : r[m] = IF m < k THEN q[m] ELSE q[m + 1]

LEMMA RemovedAt ==
  ASSUME NEW S, NEW n \in Nat, NEW q \in [1 .. n -> S], NEW k \in 1 .. n
  PROVE  /\ Queue!RemoveAt(q, k) \in [1 .. n - 1 -> S]
         /\ IsWithout(Queue!RemoveAt(q, k), q, n, k)
<1> DEFINE before == SubSeq(q, 1, k - 1)
           behind == SubSeq(q, k + 1, n)
<1>1. q \in Seq(S) /\ Len(q) = n
  OBVIOUS
<1>2. before \in Seq(S) /\ Len(before) = k - 1 /\ \A m \in 1 .. k - 1 : before[m] = q[m]
  BY <1>1
<1>3. behind \in Seq(S) /\ Len(behind) = n - k /\ \A m \in 1 .. n - k : behind[m] = q[m + k]
  BY <1>1
<1>4. Queue!RemoveAt(q, k) = before \o behind
  BY <1>1 DEF Queue!RemoveAt
<1> HIDE DEF before, behind
<1>5. before \o behind \in [1 .. n - 1 -> S]
  <2>1. before \o behind \in Seq(S) /\ Len(before \o behind) = Len(before) + Len(behind)
    BY <1>2, <1>3
  <2>2. Len(before) + Len(behind) = n - 1
    BY <1>2, <1>3
  <2> DEFINE joined == before \o behind
  <2>3. joined \in Seq(S) /\ Len(joined) = n - 1
    BY <2>1, <2>2
  <2> HIDE DEF joined
  <2>4. joined \in [1 .. n - 1 -> S]
    BY <2>3
  <2> QED
    BY <2>4 DEF joined
<1>6. ASSUME NEW m \in 1 .. n - 1 PROVE (before \o behind)[m] = IF m < k THEN q[m] ELSE q[m + 1]
  <2>1. CASE m < k
    BY <1>2, <1>3, <2>1
  <2>2. CASE ~(m < k)
    <3>1. m - (k - 1) \in 1 .. n - k /\ (before \o behind)[m] = behind[m - (k - 1)]
      BY <1>2, <1>3, <2>2
    <3> QED
      BY <1>3, <2>2, <3>1
  <2> QED
    BY <2>1, <2>2
<1> QED
  BY <1>4, <1>5, <1>6 DEF IsWithout

\* An order that leaves the book leaves the queue, from where it is.
LEMMA RemoveLeaves ==
  ASSUME NEW bk, NEW after, NEW id \in IDs(bk), Numbered(bk), Numbered(after),
         IDs(after) = IDs(bk) \ {id},
         \A x \in IDs(after) : Sequence(after, x) = Sequence(bk, x)
  PROVE  LET q == OrderedIDs(bk) IN
           \E k \in DOMAIN q : q[k] = id /\ OrderedIDs(after) = Queue!RemoveAt(q, k)
<1> DEFINE n == Cardinality(IDs(bk))
           q == OrderedIDs(bk)
           k == Place(bk, id)
           without == Queue!RemoveAt(q, k)
           Earlier(b, x) == {y \in IDs(b) : Sequence(b, y) <= Sequence(b, x)}
<1>1. n \in Nat /\ k \in 1 .. n /\ Cardinality(IDs(after)) = n - 1
  BY PlacesTaken, FS_RemoveElement DEF Numbered
<1>2. q \in [1 .. n -> IDs(bk)] /\ \A m \in 1 .. n : Place(bk, q[m]) = m
  BY OrderIs
<1>3. \A x, y \in IDs(bk) : Place(bk, x) = Place(bk, y) => x = y
  <2> SUFFICES ASSUME NEW x \in IDs(bk), NEW y \in IDs(bk), x # y PROVE Place(bk, x) # Place(bk, y)
    OBVIOUS
  <2>1. Sequence(bk, x) < Sequence(bk, y) \/ Sequence(bk, y) < Sequence(bk, x)
    BY DEF Numbered
  <2>2. Place(bk, x) \in Int /\ Place(bk, y) \in Int
    BY PlacesTaken
  <2> QED
    BY <2>1, <2>2, PlacesTaken
<1>4. q[k] = id
  BY <1>1, <1>2, <1>3
<1>5. ASSUME NEW x \in IDs(after)
      PROVE  Place(after, x) = IF Place(bk, x) < k THEN Place(bk, x) ELSE Place(bk, x) - 1
  <2>1. x \in IDs(bk) /\ x # id /\ Sequence(bk, x) \in Int /\ Sequence(bk, id) \in Int
        /\ Sequence(bk, x) # Sequence(bk, id)
    BY DEF Numbered
  <2>2. IsFiniteSet(Earlier(bk, x)) /\ Place(bk, x) = Cardinality(Earlier(bk, x))
    <3>1. Earlier(bk, x) \in SUBSET IDs(bk)
      OBVIOUS
    <3> QED
      BY <3>1, FS_Subset DEF Numbered, Place
  <2>3. Earlier(after, x) = Earlier(bk, x) \ {id} /\ Place(after, x) = Cardinality(Earlier(after, x))
    BY DEF Place
  <2>4. Place(bk, x) \in Int /\ k \in Int
    BY <2>1, PlacesTaken
  <2>5. CASE Sequence(bk, x) < Sequence(bk, id)
    <3>1. Place(bk, x) < k
      BY <2>1, <2>5, PlacesTaken
    <3>2. id \notin Earlier(bk, x)
      BY <2>1, <2>5
    <3> HIDE DEF Earlier, k
    <3>3. Place(after, x) = Place(bk, x)
      BY <2>2, <2>3, <3>2, FS_RemoveElement
    <3> QED
      BY <3>1, <3>3
  <2>6. CASE Sequence(bk, id) < Sequence(bk, x)
    <3>1. k < Place(bk, x)
      BY <2>1, <2>6, PlacesTaken
    <3>2. id \in Earlier(bk, x)
      BY <2>1, <2>6
    <3> HIDE DEF Earlier, k
    <3>3. Place(after, x) = Place(bk, x) - 1
      BY <2>2, <2>3, <3>2, FS_RemoveElement
    <3> QED
      BY <2>4, <3>1, <3>3
  <2> QED
    BY <2>1, <2>5, <2>6
<1>6. without \in [1 .. n - 1 -> IDs(bk)] /\ IsWithout(without, q, n, k)
  <2> HIDE DEF n, q, k
  <2> QED
    BY <1>1, <1>2, RemovedAt
<1> HIDE DEF n, q, k, without
<1>7. ASSUME NEW m \in 1 .. n - 1 PROVE without[m] \in IDs(after) /\ Place(after, without[m]) = m
  <2>1. CASE m < k
    <3>1. without[m] = q[m] /\ Place(bk, q[m]) = m /\ q[m] \in IDs(bk)
      BY <1>1, <1>2, <1>6, <2>1 DEF IsWithout
    <3>2. q[m] # id
      BY <1>1, <2>1, <3>1 DEF k
    <3> QED
      BY <1>5, <2>1, <3>1, <3>2
  <2>2. CASE ~(m < k)
    <3>1. without[m] = q[m + 1] /\ Place(bk, q[m + 1]) = m + 1 /\ q[m + 1] \in IDs(bk)
      BY <1>1, <1>2, <1>6, <2>2 DEF IsWithout
    <3>2. q[m + 1] # id /\ ~(m + 1 < k) /\ m + 1 - 1 = m
      BY <1>1, <2>2, <3>1 DEF k
    <3> QED
      BY <1>5, <3>1, <3>2
  <2> QED
    BY <2>1, <2>2
<1>8. without \in [1 .. n - 1 -> IDs(after)]
  BY <1>6, <1>7
<1>9. without = OrderedIDs(after)
  BY <1>1, <1>7, <1>8, OrderIs
<1>10. k \in DOMAIN q
  BY <1>1, <1>2
<1> QED
  BY <1>4, <1>9, <1>10 DEF q, without

(***************************************************************************)
(* The book implements the queue of OrderQueue, for any ids, any number of *)
(* orders and any history: an accepted order joins the ids in the order of *)
(* acceptance at the end, a cancelled or filled one leaves them, and a     *)
(* refused fill, a save and a restore are no step at all                   *)
(* (order/freeze.go Insert and Remove, order/sequence.go OrderedIDs).      *)
(***************************************************************************)
THEOREM BookIsQueue == Spec => ImplementsQueue
<1>1. Init => Queue!Init
  <2> SUFFICES ASSUME Init PROVE OrderedIDs(book) \in Seq(ID)
    BY DEF Queue!Init
  <2>1. Numbered(book) /\ IDs(book) \subseteq ID
    BY InitIInv, BookNumbered DEF IInv, TypeOK
  <2>2. /\ OrderedIDs(book) \in [1 .. Cardinality(IDs(book)) -> IDs(book)]
        /\ Cardinality(IDs(book)) \in Nat
    BY <2>1, OrderIs, PlacesTaken
  <2> QED
    BY <2>1, <2>2
<1>2. IInv /\ IInv' /\ [Next]_book => [Queue!Next]_(OrderedIDs(book))
  <2> SUFFICES ASSUME IInv, IInv', [Next]_book
               PROVE  Queue!Next \/ OrderedIDs(book') = OrderedIDs(book)
    OBVIOUS
  <2>1. Numbered(book) /\ Numbered(book')
    <3>1. IInv' => Numbered(book)'
      BY BookNumbered, PTL
    <3>2. Numbered(book)' <=> Numbered(book')
      BY DEF Numbered, IDs, Sequence
    <3> QED
      BY <3>1, <3>2, BookNumbered
  <2>2. OrderedIDs(book)' = OrderedIDs(book')
    BY DEF OrderedIDs, Place, IDs, Sequence
  <2>3. ASSUME NEW id \in ID, NEW order \in Orders, Accept(id, order) PROVE Queue!Next
    <3>1. /\ IDs(book') = IDs(book) \cup {id} /\ id \notin IDs(book)
          /\ book'.live = [x \in IDs(book') |-> IF x = id THEN Entry(order, book.last + 1)
                                                         ELSE book.live[x]]
      BY <2>3, InsertFacts DEF Accept, CanInsert, IDFree
    <3>2. \A x \in IDs(book) : /\ Sequence(book', x) = Sequence(book, x)
                               /\ Sequence(book', x) < Sequence(book', id)
      BY <3>1, Present DEF Sequence, Entry
    <3>3. OrderedIDs(book') = Append(OrderedIDs(book), id)
      BY <2>1, <3>1, <3>2, InsertJoins
    <3>4. ~Queue!Queued(id)
      <4>1. OrderedIDs(book) \in [1 .. Cardinality(IDs(book)) -> IDs(book)]
        BY <2>1, OrderIs
      <4> QED
        BY <3>1, <4>1 DEF Queue!Queued
    <3> QED
      BY <2>2, <3>3, <3>4 DEF Queue!Next, Queue!Join
  <2>4. ASSUME NEW id \in ID, Release(id) PROVE Queue!Next
    <3>1. /\ IDs(book') = IDs(book) \ {id} /\ id \in IDs(book)
          /\ book'.live = [x \in IDs(book') |-> book.live[x]]
      BY <2>4, RemoveFacts DEF Release
    <3>2. \A x \in IDs(book') : Sequence(book', x) = Sequence(book, x)
      BY <3>1 DEF Sequence
    <3>3. \E k \in DOMAIN OrderedIDs(book) :
            /\ OrderedIDs(book)[k] = id
            /\ OrderedIDs(book') = Queue!RemoveAt(OrderedIDs(book), k)
      BY <2>1, <3>1, <3>2, RemoveLeaves
    <3> QED
      BY <2>2, <3>3 DEF Queue!Next, Queue!Leave
  <2>5. ASSUME NEW id \in ID, FillFails(id) PROVE OrderedIDs(book') = OrderedIDs(book)
    BY <2>5, PutBack DEF FillFails, IInv
  <2>6. CASE Reload
    BY <2>6, ReloadIsIdentity DEF Reload, IInv
  <2>7. CASE UNCHANGED book
    BY <2>7
  <2> QED
    BY <2>3, <2>4, <2>5, <2>6, <2>7 DEF Next
<1> QED
  BY <1>1, <1>2, Invariance, PTL DEF Spec, ImplementsQueue, Queue!Spec
=============================================================================

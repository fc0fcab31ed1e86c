------------------------------ MODULE BookOps ------------------------------
(***************************************************************************)
(* The book of live orders as a value (order/freeze.go, order/sequence.go):*)
(* order id -> what is remembered of the order and the sequence number it  *)
(* was accepted under, plus the high water of those numbers.  An emptied   *)
(* book keeps its high water.                                              *)
(***************************************************************************)
EXTENDS Integers, FiniteSets, Functions

CONSTANTS
  MaxSequence,   \* the largest sequence number (2^64 - 1 in the code)
  NoID           \* the empty id

ASSUME MaxSequenceNat == MaxSequence \in Nat

EmptyBook == [live |-> [id \in {} |-> {}], last |-> 0]

Entry(order, sequence) == [order |-> order, sequence |-> sequence]

IDs(book) == DOMAIN book.live
Sequence(book, id) == book.live[id].sequence

\* The place of a live order: so many of them were accepted no later.
Place(book, id) == Cardinality({x \in IDs(book) : Sequence(book, x) <= Sequence(book, id)})

\* The live ids in the order they were accepted.
OrderedIDs(book) ==
  [n \in 1 .. Cardinality(IDs(book)) |-> CHOOSE id \in IDs(book) : Place(book, id) = n]

\* The entries with one more among them, whatever number it carries.
InsertAt(book, id, entry) ==
  [x \in IDs(book) \cup {id} |-> IF x = id THEN entry ELSE book.live[x]]

IDFree(book, id) == id # NoID /\ id \notin IDs(book)

\* Faulty variant: the last number is not kept back from the next order.
CanInsertPastTheEnd(book, id) == IDFree(book, id)

CanInsert(book, id) == IDFree(book, id) /\ book.last < MaxSequence

Insert(book, id, order) ==
  [live |-> InsertAt(book, id, Entry(order, book.last + 1)), last |-> book.last + 1]

Remove(book, id) ==
  [live |-> Restrict(book.live, IDs(book) \ {id}), last |-> book.last]

CanReinsert(book, id, sequence) ==
  /\ IDFree(book, id)
  /\ sequence \in 1 .. book.last
  /\ \A x \in IDs(book) : Sequence(book, x) # sequence

\* Faulty variant: an order put back is numbered like a new one.
ReinsertAtTheEnd(book, id, entry) == Insert(book, id, entry.order)

\* An order a failed fill puts back keeps the number it was accepted under.
Reinsert(book, id, entry) ==
  [live |-> InsertAt(book, id, entry), last |-> book.last]

-----------------------------------------------------------------------------
(***************************************************************************)
(* A book in an archive: the entries and the high water.                   *)
(***************************************************************************)
ArchivedBook(book) ==
  [last    |-> book.last,
   entries |-> {[id |-> id, entry |-> book.live[id]] : id \in IDs(book)}]

\* Faulty variant: two archived orders may carry the same number.
RestorableBookUnchecked(archive) ==
  /\ \A e \in archive.entries : e.id # NoID /\ e.entry.sequence \in 1 .. archive.last
  /\ \A e, f \in archive.entries : e # f => e.id # f.id

\* RestoreBook accepts it.
RestorableBook(archive) ==
  /\ \A e \in archive.entries : e.id # NoID /\ e.entry.sequence \in 1 .. archive.last
  /\ \A e, f \in archive.entries :
       e # f => e.id # f.id /\ e.entry.sequence # f.entry.sequence

ArchivedEntry(archive, id) == (CHOOSE e \in archive.entries : e.id = id).entry

\* Faulty variant: the high water is worked out from the orders still live.
RestoreBookFromLive(archive) ==
  [live |-> [id \in {e.id : e \in archive.entries} |-> ArchivedEntry(archive, id)],
   last |-> CHOOSE n \in 0 .. archive.last :
              /\ \A e \in archive.entries : e.entry.sequence <= n
              /\ n = 0 \/ \E e \in archive.entries : e.entry.sequence = n]

RestoreBook(archive) ==
  [live |-> [id \in {e.id : e \in archive.entries} |-> ArchivedEntry(archive, id)],
   last |-> archive.last]
=============================================================================

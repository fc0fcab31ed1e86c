----------------------------- MODULE OrderBook -----------------------------
(***************************************************************************)
(* The book of live orders as the facade drives it (place.go, state.go):   *)
(* accepting an order, removing it on a cancel or a fill, putting it back  *)
(* when the fill fails after the removal, saving the book and restoring    *)
(* another one from the archive.                                           *)
(***************************************************************************)
EXTENDS BookOps

CONSTANTS
  ID,         \* order ids, the empty one among them
  Orders,     \* what is remembered of an order
  Archives    \* archived books a program may start from

ASSUME ArchivesTyped ==
  Archives \subseteq
    [last    : 0 .. MaxSequence,
     entries : SUBSET [id : ID, entry : [order : Orders, sequence : Int]]]

VARIABLE book

Init == \E archive \in Archives : RestorableBook(archive) /\ book = RestoreBook(archive)

Accept(id, order) == CanInsert(book, id) /\ book' = Insert(book, id, order)

\* Cancel, or a fill that went through.
Release(id) == id \in IDs(book) /\ book' = Remove(book, id)

\* A fill whose trade is refused after the order has been taken off the book.
FillFails(id) ==
  /\ id \in IDs(book)
  /\ LET entry   == book.live[id]
         without == Remove(book, id)
     IN  /\ CanReinsert(without, id, entry.sequence)
         /\ book' = Reinsert(without, id, entry)

\* State followed by Restore.
Reload ==
  LET archive == ArchivedBook(book) IN
    RestorableBook(archive) /\ book' = RestoreBook(archive)

Next ==
  \/ \E id \in ID : \/ \E order \in Orders : Accept(id, order)
                    \/ Release(id)
                    \/ FillFails(id)
  \/ Reload

Spec == Init /\ [][Next]_book

-----------------------------------------------------------------------------
\* The book has the shape of the Go struct.
TypeOK ==
  /\ book.last \in 0 .. MaxSequence
  /\ IDs(book) \subseteq ID \ {NoID}
  /\ book = [live |-> book.live, last |-> book.last]
  /\ book.live \in [IDs(book) -> [order : Orders, sequence : Int]]

(***************************************************************************)
(* Every live order carries a number of its own, and none above the high   *)
(* water, whatever was placed, filled, refused or restored.                *)
(***************************************************************************)
NumbersSound ==
  /\ \A id \in IDs(book) : Sequence(book, id) \in 1 .. book.last
  /\ \A x, y \in IDs(book) : Sequence(book, x) = Sequence(book, y) => x = y

(***************************************************************************)
(* Saving and failed fills are always undone: neither RestoreBook nor      *)
(* Reinsert ever refuses what the book itself held (place.go Fill turns    *)
(* such a refusal into a broken simulator).                                *)
(***************************************************************************)
NeverStuck ==
  /\ RestorableBook(ArchivedBook(book))
  /\ \A id \in IDs(book) : CanReinsert(Remove(book, id), id, Sequence(book, id))

(***************************************************************************)
(* An order keeps the number it was accepted under for as long as it is    *)
(* live, the high water never falls, and a number once given is never      *)
(* given again, not even after its order left the book and the book was    *)
(* saved and restored.                                                     *)
(***************************************************************************)
NumbersNeverReissued ==
  [][/\ book'.last >= book.last
     /\ \A id \in IDs(book)' :
          \/ id \in IDs(book) /\ book'.live[id] = book.live[id]
          \/ book'.live[id].sequence > book.last]_book

Queue == INSTANCE OrderQueue WITH queue <- OrderedIDs(book)

(***************************************************************************)
(* The live ids in the order of acceptance are the queue of OrderQueue:    *)
(* whatever happens to the book, an id joins them at the end or leaves     *)
(* them, and nothing else changes (order/sequence.go OrderedIDs).          *)
(***************************************************************************)
ImplementsQueue == Queue!Spec
=============================================================================

------------------------------- MODULE Arrivals -------------------------------
(***************************************************************************)
(* How a rebuild of the library index numbers the books: a book keeps the  *)
(* number it arrived with ("Recently added" sorts by it), a book found     *)
(* under a new path inherits the number of a row nothing claimed that has  *)
(* exactly its size, and the others get the numbers that follow.           *)
(***************************************************************************)
EXTENDS Naturals, FiniteSets

CONSTANTS Paths,  \* paths a book can have on the card
          Sizes,  \* file sizes
          NoBook

ASSUME NoBookAssumption == NoBook \notin Paths /\ NoBook \notin Sizes
ASSUME RowAssumption == NoBook \notin [size : Sizes, seen : Nat]
ASSUME PathsAssumption == IsFiniteSet(Paths)

\* What stands on a card: at each path the size of its file, if there is one.
Cards == [Paths -> Sizes \cup {NoBook}]
Books(card) == {p \in Paths : card[p] # NoBook}

\* The rows of an index, by path, and the next arrival number its header keeps.
Row == [size : Sizes, seen : Nat]
Shelf == [rows : [Paths -> Row \cup {NoBook}], next : Nat]
EmptyShelf == [rows |-> [p \in Paths |-> NoBook], next |-> 0]

Rows(shelf) == {p \in Paths : shelf.rows[p] # NoBook}
Lists(shelf, card) == /\ Rows(shelf) = Books(card)
                      /\ \A p \in Rows(shelf) : shelf.rows[p].size = card[p]

\* Books no row has the path of, and rows whose path has no book any more.
Unresolved(shelf, card) == Books(card) \ Rows(shelf)
Leftover(shelf, card) == Rows(shelf) \ Books(card)

\* As Claims, with a claimed row not marked.
ClaimsUnmarked(shelf, card) ==
  {c \in [Unresolved(shelf, card) -> Leftover(shelf, card) \cup {NoBook}] :
     \A p \in DOMAIN c : c[p] # NoBook => shelf.rows[c[p]].size = card[p]}

\* Every way the unresolved books can claim leftover rows of their size: each
\* takes the first one still unmatched, so no row of a size is left while a
\* book of that size goes without.
Claims(shelf, card) ==
  {c \in [Unresolved(shelf, card) -> Leftover(shelf, card) \cup {NoBook}] :
     /\ \A p \in DOMAIN c : c[p] # NoBook => shelf.rows[c[p]].size = card[p]
     /\ \A p, q \in DOMAIN c : c[p] = c[q] /\ c[p] # NoBook => p = q
     /\ \A p \in DOMAIN c, r \in Leftover(shelf, card) :
          c[p] = NoBook /\ shelf.rows[r].size = card[p] => \E q \in DOMAIN c : c[q] = r}

Added(claim) == {p \in DOMAIN claim : claim[p] = NoBook}

\* The order the walk of the card meets the added books in: any.
Orders(books) == {o \in [books -> 0..(Cardinality(books) - 1)] :
                    \A p, q \in books : o[p] = o[q] => p = q}

Arrival(shelf, claim, order, p) ==
  IF p \in Rows(shelf) THEN shelf.rows[p].seen
  ELSE IF claim[p] # NoBook THEN shelf.rows[claim[p]].seen
  ELSE shelf.next + order[p]

Reconciled(shelf, card, claim, order) ==
  [rows |-> [p \in Paths |->
               IF card[p] = NoBook THEN NoBook
               ELSE [size |-> card[p], seen |-> Arrival(shelf, claim, order, p)]],
   next |-> shelf.next + Cardinality(Added(claim))]

\* Every index a rebuild of this card over this shelf can come to.
Rebuilds(shelf, card) ==
  UNION {{Reconciled(shelf, card, c, o) : o \in Orders(Added(c))} : c \in Claims(shelf, card)}

\* No two rows share an arrival number, and all are below the next one.
Numbered(shelf) ==
  /\ \A p \in Rows(shelf) : shelf.rows[p].seen < shelf.next
  /\ \A p, q \in Rows(shelf) : shelf.rows[p].seen = shelf.rows[q].seen => p = q
=============================================================================

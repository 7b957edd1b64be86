-------------------------- MODULE LibraryIndexProofs --------------------------
(***************************************************************************)
(* For any paths, sizes and index formats: no unfinished file becomes the  *)
(* index, arrival numbers stay distinct and are kept over rebuilds, and    *)
(* the file-level build with its failures and power losses implements the  *)
(* one-step rebuild of LibraryShelf.                                       *)
(***************************************************************************)
EXTENDS LibraryIndex, FiniteSetTheorems, TLAPS

\* The rebuilds of the shelf a file gives, written as the firmware's own file.
RebuildOf(file, prior) ==
  file \in Index /\ file.format = firmware /\ file.shelf \in Rebuilds(Prior(prior), card)

\* What each step of a build may rely on.
StepInv ==
  /\ step \in {"walk", "emit", "park"} => backup = None
  /\ step = "restore" => live = None /\ Readable(backup)
  /\ step = "emit" => RebuildOf(built, live)
  /\ step = "park" => RebuildOf(fresh, live) /\ live # None
  /\ step = "swap" => RebuildOf(fresh, backup) /\ live = None
  /\ step = "clean" => Readable(live)
  /\ step = "clear" => Readable(live) \/ (backup = None /\ Reconcilable(live))
  /\ step \in {"clean", "clear"} => Lists(live.shelf, card)

BuiltNumbered == built \in Index => Numbered(built.shelf)

IInv == TypeOK /\ ArrivalsDistinct /\ BuiltNumbered /\ StepInv

-----------------------------------------------------------------------------
(* What a rebuild comes to. *)

\* The books of a card, and those a claim leaves without a row, can be counted.
LEMMA AddedCount ==
  ASSUME NEW shelf, NEW crd, NEW c \in Claims(shelf, crd)
  PROVE  IsFiniteSet(Added(c)) /\ Cardinality(Added(c)) \in Nat
<1>1. Added(c) \subseteq Paths
  BY DEF Added, Claims, Unresolved, Books
<1> QED BY <1>1, PathsAssumption, FS_Subset, FS_CardinalityType

\* The number a book gets is a number of the old shelf or one of the next ones.
LEMMA ArrivalValues ==
  ASSUME NEW shelf \in Shelf, NEW crd \in Cards, NEW c \in Claims(shelf, crd),
         NEW o \in Orders(Added(c)), NEW p \in Books(crd)
  PROVE  /\ Arrival(shelf, c, o, p) \in Nat
         /\ p \in Rows(shelf) => Arrival(shelf, c, o, p) = shelf.rows[p].seen
         /\ p \notin Rows(shelf) /\ c[p] # NoBook =>
              /\ c[p] \in Leftover(shelf, crd)
              /\ Arrival(shelf, c, o, p) = shelf.rows[c[p]].seen
         /\ p \notin Rows(shelf) /\ c[p] = NoBook =>
              /\ p \in Added(c)
              /\ o[p] \in 0..(Cardinality(Added(c)) - 1)
              /\ Arrival(shelf, c, o, p) = shelf.next + o[p]
<1>1. shelf.next \in Nat /\ \A r \in Rows(shelf) : r \in Paths /\ shelf.rows[r].seen \in Nat
  BY DEF Shelf, Rows, Row
<1>2. CASE p \in Rows(shelf)
  BY <1>1, <1>2 DEF Arrival
<1>3. CASE p \notin Rows(shelf) /\ c[p] # NoBook
  <2>1. p \in Unresolved(shelf, crd)
    BY <1>3 DEF Unresolved
  <2>2. c[p] \in Leftover(shelf, crd)
    BY <1>3, <2>1 DEF Claims
  <2>3. c[p] \in Rows(shelf)
    BY <2>2 DEF Leftover
  <2> QED BY <1>1, <1>3, <2>2, <2>3 DEF Arrival
<1>4. CASE p \notin Rows(shelf) /\ c[p] = NoBook
  <2>1. p \in Unresolved(shelf, crd)
    BY <1>4 DEF Unresolved
  <2>2. p \in Added(c)
    BY <1>4, <2>1 DEF Added, Claims
  <2>3. o[p] \in 0..(Cardinality(Added(c)) - 1)
    BY <2>2 DEF Orders
  <2>4. o[p] \in Nat
    BY <2>3, AddedCount
  <2> QED BY <1>1, <1>4, <2>2, <2>3, <2>4 DEF Arrival
<1> QED BY <1>2, <1>3, <1>4

\* A rebuild lists exactly the books of the card with their sizes, whatever
\* claims and walk order it comes to, and keeps arrival numbers distinct.
LEMMA RebuildResult ==
  ASSUME NEW shelf \in Shelf, NEW crd \in Cards, NEW new \in Rebuilds(shelf, crd), Numbered(shelf)
  PROVE  new \in Shelf /\ Lists(new, crd) /\ Numbered(new)
<1>0. PICK c \in Claims(shelf, crd) : \E o \in Orders(Added(c)) : new = Reconciled(shelf, crd, c, o)
  BY DEF Rebuilds
<1>1. PICK o \in Orders(Added(c)) : new = Reconciled(shelf, crd, c, o)
  BY <1>0
<1> DEFINE n == Cardinality(Added(c))
<1>2. n \in Nat
  BY AddedCount
<1>3. shelf.next \in Nat
  BY DEF Shelf
<1>4. /\ new.next = shelf.next + n
      /\ new.rows = [p \in Paths |->
                      IF crd[p] = NoBook THEN NoBook
                      ELSE [size |-> crd[p], seen |-> Arrival(shelf, c, o, p)]]
  BY <1>1 DEF Reconciled
<1>5. \A p \in Books(crd) : p \in Paths /\ crd[p] \in Sizes /\ Arrival(shelf, c, o, p) \in Nat
  BY ArrivalValues DEF Books, Cards
<1>6. new.rows \in [Paths -> Row \cup {NoBook}]
  BY <1>4, <1>5 DEF Row, Books
<1>7. new \in Shelf
  BY <1>1, <1>2, <1>3, <1>4, <1>6 DEF Reconciled, Shelf
<1>8. ASSUME NEW p \in Books(crd)
      PROVE  /\ new.rows[p] \in Row
             /\ new.rows[p].size = crd[p]
             /\ new.rows[p].seen = Arrival(shelf, c, o, p)
  <2>1. new.rows[p] = [size |-> crd[p], seen |-> Arrival(shelf, c, o, p)]
    BY <1>4, <1>5 DEF Books
  <2> QED BY <1>5, <2>1 DEF Row
<1>9. Rows(new) = Books(crd)
  BY <1>4, <1>8, RowAssumption DEF Rows, Books, Row
<1>10. Lists(new, crd)
  BY <1>8, <1>9 DEF Lists
<1>11. \A p \in Rows(shelf) : p \in Paths /\ shelf.rows[p].seen \in Nat /\ shelf.rows[p].seen < shelf.next
  BY DEF Numbered, Rows, Shelf, Row
<1>12. \A p \in Books(crd) : Arrival(shelf, c, o, p) < new.next
  <2> SUFFICES ASSUME NEW p \in Books(crd) PROVE Arrival(shelf, c, o, p) < new.next
    OBVIOUS
  <2>1. CASE p \in Rows(shelf)
    BY <1>2, <1>3, <1>4, <1>11, <2>1, ArrivalValues
  <2>2. CASE p \notin Rows(shelf) /\ c[p] # NoBook
    BY <1>2, <1>3, <1>4, <1>11, <2>2, ArrivalValues DEF Leftover
  <2>3. CASE p \notin Rows(shelf) /\ c[p] = NoBook
    BY <1>2, <1>3, <1>4, <2>3, ArrivalValues
  <2> QED BY <2>1, <2>2, <2>3
<1>13. ASSUME NEW p \in Books(crd), NEW q \in Books(crd),
              Arrival(shelf, c, o, p) = Arrival(shelf, c, o, q)
       PROVE  p = q
  <2> DEFINE Old(r) == r \in Rows(shelf)
             Renamed(r) == r \notin Rows(shelf) /\ c[r] # NoBook
             New(r) == r \notin Rows(shelf) /\ c[r] = NoBook
             From(r) == IF Old(r) THEN r ELSE c[r]
  <2>1. \A r \in Books(crd) : Old(r) \/ Renamed(r) =>
          From(r) \in Rows(shelf) /\ Arrival(shelf, c, o, r) = shelf.rows[From(r)].seen
    BY ArrivalValues DEF Leftover
  <2>2. \A r \in Books(crd) : New(r) => Arrival(shelf, c, o, r) >= shelf.next
    BY <1>2, <1>3, ArrivalValues
  <2>3. CASE ~New(p) /\ ~New(q)
    <3>1. From(p) = From(q)
      BY <2>1, <2>3, <1>13 DEF Numbered
    <3>2. CASE Old(p) /\ Old(q)
      BY <3>1, <3>2
    <3>3. CASE Renamed(p) /\ Renamed(q)
      <4>1. p \in DOMAIN c /\ q \in DOMAIN c
        BY <3>3 DEF Claims, Unresolved
      <4> QED BY <3>1, <3>3, <4>1 DEF Claims
    <3>4. \A r, s \in Books(crd) : Old(r) /\ Renamed(s) => From(r) # From(s)
      BY ArrivalValues DEF Leftover
    <3> QED BY <2>3, <3>1, <3>2, <3>3, <3>4
  <2>4. CASE New(p) /\ New(q)
    <3>1. o[p] \in Nat /\ o[q] \in Nat
      BY <2>4, <1>2, ArrivalValues
    <3>2. o[p] = o[q]
      BY <2>4, <1>3, <1>13, <3>1, ArrivalValues
    <3> QED BY <2>4, <3>2, ArrivalValues DEF Orders
  <2>5. \A r, s \in Books(crd) : New(r) /\ ~New(s) => Arrival(shelf, c, o, r) # Arrival(shelf, c, o, s)
    <3> SUFFICES ASSUME NEW r \in Books(crd), NEW s \in Books(crd), New(r), ~New(s)
                 PROVE  Arrival(shelf, c, o, r) # Arrival(shelf, c, o, s)
      OBVIOUS
    <3>1. Arrival(shelf, c, o, r) >= shelf.next
      BY <2>2
    <3>2. From(s) \in Rows(shelf) /\ Arrival(shelf, c, o, s) = shelf.rows[From(s)].seen
      BY <2>1
    <3>3. Arrival(shelf, c, o, r) \in Nat
      BY ArrivalValues
    <3> HIDE DEF From, New
    <3> QED BY <1>3, <1>11, <3>1, <3>2, <3>3
  <2> QED BY <1>13, <2>3, <2>4, <2>5
<1>14. Numbered(new)
  <2>1. \A p \in Rows(new) : new.rows[p].seen < new.next
    BY <1>8, <1>9, <1>12
  <2>2. \A p, q \in Rows(new) : new.rows[p].seen = new.rows[q].seen => p = q
    BY <1>8, <1>9, <1>13
  <2> QED BY <2>1, <2>2 DEF Numbered
<1> QED BY <1>7, <1>10, <1>14

\* LibraryBuilder.cpp:1268-1292, the order of "Recently added" over a rebuild: a book that stays keeps its
\* number, a book under a new path takes over one row of its size that is left, or follows
\* everything that was there before, and then no row of its size is left without a book; no number is
\* given out a second time.
THEOREM RecentlyAddedKeepsItsOrder ==
  ASSUME NEW shelf \in Shelf, NEW crd \in Cards, NEW new \in Rebuilds(shelf, crd), Numbered(shelf)
  PROVE  /\ new.next >= shelf.next
         /\ \A p \in Rows(shelf) \cap Books(crd) : new.rows[p].seen = shelf.rows[p].seen
         /\ \A p \in Unresolved(shelf, crd) :
              \/ \E r \in Leftover(shelf, crd) : new.rows[p] = shelf.rows[r]
              \/ /\ new.rows[p].seen >= shelf.next
                 /\ \A r \in Leftover(shelf, crd) : shelf.rows[r].size = crd[p] =>
                      \E q \in Unresolved(shelf, crd) : new.rows[q] = shelf.rows[r]
<1>0. PICK c \in Claims(shelf, crd) : \E o \in Orders(Added(c)) : new = Reconciled(shelf, crd, c, o)
  BY DEF Rebuilds
<1>1. PICK o \in Orders(Added(c)) : new = Reconciled(shelf, crd, c, o)
  BY <1>0
<1>2. shelf.next \in Nat /\ Cardinality(Added(c)) \in Nat
  BY AddedCount DEF Shelf
<1>3. new.next = shelf.next + Cardinality(Added(c))
  BY <1>1 DEF Reconciled
<1>4. ASSUME NEW p \in Books(crd)
      PROVE  /\ new.rows[p] = [size |-> crd[p], seen |-> Arrival(shelf, c, o, p)]
             /\ new.rows[p].seen = Arrival(shelf, c, o, p)
  <2>1. new.rows[p] = [size |-> crd[p], seen |-> Arrival(shelf, c, o, p)]
    BY <1>1 DEF Reconciled, Books
  <2>2. Arrival(shelf, c, o, p) \in Nat /\ crd[p] \in Sizes
    BY ArrivalValues DEF Books, Cards
  <2>3. new.rows[p] \in [size : Sizes, seen : Nat]
    BY <2>1, <2>2
  <2> QED BY <2>1, <2>3
<1>5. \A p \in Rows(shelf) \cap Books(crd) : new.rows[p].seen = shelf.rows[p].seen
  <2> SUFFICES ASSUME NEW p \in Rows(shelf) \cap Books(crd) PROVE new.rows[p].seen = shelf.rows[p].seen
    OBVIOUS
  <2>1. new.rows[p].seen = Arrival(shelf, c, o, p)
    BY <1>4
  <2> QED BY <2>1, ArrivalValues
\* A claimed row becomes the row of the book that claimed it.
<1>6. ASSUME NEW p \in Unresolved(shelf, crd), NEW r \in Leftover(shelf, crd), c[p] = r
      PROVE  new.rows[p] = shelf.rows[r]
  <2>1. p \in Books(crd) \ Rows(shelf) /\ r # NoBook /\ r \in Rows(shelf)
    BY <1>6, NoBookAssumption DEF Unresolved, Leftover, Rows
  <2>2. shelf.rows[r].size = crd[p]
    BY <1>6, <2>1 DEF Claims
  <2>3. shelf.rows[r] \in [size : Sizes, seen : Nat]
    BY <2>1 DEF Shelf, Rows, Row
  <2>4. shelf.rows[r] = [size |-> shelf.rows[r].size, seen |-> shelf.rows[r].seen]
    BY <2>3
  <2>5. Arrival(shelf, c, o, p) = shelf.rows[r].seen
    BY <1>6, <2>1 DEF Arrival
  <2> QED BY <1>4, <2>1, <2>2, <2>4, <2>5
<1>7. ASSUME NEW p \in Unresolved(shelf, crd)
      PROVE  \/ \E r \in Leftover(shelf, crd) : new.rows[p] = shelf.rows[r]
             \/ /\ new.rows[p].seen >= shelf.next
                /\ \A r \in Leftover(shelf, crd) : shelf.rows[r].size = crd[p] =>
                     \E q \in Unresolved(shelf, crd) : new.rows[q] = shelf.rows[r]
  <2>1. p \in Books(crd) \ Rows(shelf) /\ p \in DOMAIN c /\ DOMAIN c = Unresolved(shelf, crd)
    BY <1>7 DEF Unresolved, Claims
  <2>2. CASE c[p] # NoBook
    <3>1. c[p] \in Leftover(shelf, crd)
      BY <2>1, <2>2 DEF Claims
    <3> QED BY <1>6, <3>1
  <2>3. CASE c[p] = NoBook
    <3>1. Arrival(shelf, c, o, p) = shelf.next + o[p] /\ o[p] \in 0..(Cardinality(Added(c)) - 1)
      BY <2>1, <2>3, ArrivalValues
    <3>2. new.rows[p].seen >= shelf.next
      <4>1. new.rows[p].seen = Arrival(shelf, c, o, p)
        BY <1>4, <2>1
      <4> QED BY <1>2, <3>1, <4>1
    <3>3. ASSUME NEW r \in Leftover(shelf, crd), shelf.rows[r].size = crd[p]
          PROVE  \E q \in Unresolved(shelf, crd) : new.rows[q] = shelf.rows[r]
      <4>1. PICK q \in DOMAIN c : c[q] = r
        BY <2>1, <2>3, <3>3 DEF Claims
      <4> QED BY <1>6, <2>1, <4>1
    <3> QED BY <3>2, <3>3
  <2> QED BY <2>2, <2>3
<1>8. new.next >= shelf.next
  BY <1>2, <1>3
<1> QED BY <1>5, <1>7, <1>8

\* A shelf reconciled with, the one of a file or an empty one, is well numbered.
LEMMA PriorResult ==
  ASSUME NEW file \in Index \cup {None, Torn}, file \in Index => Numbered(file.shelf)
  PROVE  Prior(file) \in Shelf /\ Numbered(Prior(file))
<1>1. EmptyShelf \in Shelf
  BY DEF EmptyShelf, Shelf
<1>2. Rows(EmptyShelf) = {}
  BY DEF Rows, EmptyShelf
<1>3. Numbered(EmptyShelf)
  BY <1>2 DEF Numbered
<1> QED BY <1>1, <1>3 DEF Prior, Reconcilable, Index

LEMMA NotFiles == None \notin Index /\ Torn \notin Index /\ None \notin Shelf /\ Torn # None
BY NoneAssumption DEF Index

-----------------------------------------------------------------------------
(* The inductive invariant. *)

LEMMA InitInv == Init => IInv
BY NotFiles DEF Init, IInv, TypeOK, ArrivalsDistinct, BuiltNumbered, StepInv, Steps

\* What a walk hands to the writer is a well-numbered file of this firmware.
LEMMA EmittedIsIndex ==
  ASSUME IInv, NEW shelf \in Rebuilds(Prior(live), card), firmware \in Formats
  PROVE  /\ [format |-> firmware, shelf |-> shelf] \in Index
         /\ Numbered(shelf)
<1>1. Prior(live) \in Shelf /\ Numbered(Prior(live))
  BY PriorResult DEF IInv, TypeOK, ArrivalsDistinct
<1> QED BY <1>1, RebuildResult DEF Index, IInv, TypeOK

LEMMA TransferBookInv == ASSUME IInv, NEW p \in Paths, NEW size \in Sizes, TransferBook(p, size) PROVE IInv'
BY DEF TransferBook, files, marks, IInv, TypeOK, ArrivalsDistinct, BuiltNumbered, StepInv, Steps, Cards

LEMMA MarkInv == ASSUME IInv, markLibraryIndexDirty PROVE IInv'
BY DEF markLibraryIndexDirty, files, marks, IInv, TypeOK, ArrivalsDistinct, BuiltNumbered, StepInv, Steps

LEMMA EditCardInv == ASSUME IInv, EditCard PROVE IInv'
<1>1. card' \in Cards
  BY DEF EditCard, IInv, TypeOK, Cards, Books
<1> QED BY <1>1 DEF EditCard, files, marks, IInv, TypeOK, ArrivalsDistinct, BuiltNumbered, StepInv, Steps

LEMMA StartBuildInv == ASSUME IInv, StartBuild PROVE IInv'
BY DEF StartBuild, files, marks, IInv, TypeOK, ArrivalsDistinct, BuiltNumbered, StepInv, Steps

LEMMA DeleteInLibraryInv == ASSUME IInv, NEW p \in Paths, DeleteInLibrary(p) PROVE IInv'
BY DEF DeleteInLibrary, files, marks, IInv, TypeOK, ArrivalsDistinct, BuiltNumbered, StepInv, Steps, Cards

LEMMA GiveUpInv == ASSUME IInv, GiveUp PROVE IInv'
BY DEF GiveUp, files, marks, IInv, TypeOK, ArrivalsDistinct, BuiltNumbered, StepInv, Steps

LEMMA RecoverInv == ASSUME IInv, Recover \/ RestoreBackup PROVE IInv'
BY NotFiles DEF Recover, RestoreBackup, Recovering, files, marks, IInv, TypeOK, ArrivalsDistinct,
                BuiltNumbered, StepInv, Steps, Readable

LEMMA WalkInv == ASSUME IInv, WalkUnchanged \/ WalkAndEmit PROVE IInv'
<1>1. CASE WalkUnchanged
  BY <1>1 DEF WalkUnchanged, files, marks, IInv, TypeOK, ArrivalsDistinct, BuiltNumbered, StepInv,
              Steps, Readable, Reconcilable
<1>2. CASE WalkAndEmit
  <2>1. PICK shelf \in Rebuilds(Prior(live), card) : built' = [format |-> firmware, shelf |-> shelf]
    BY <1>2 DEF WalkAndEmit
  <2>2. built' \in Index /\ Numbered(shelf) /\ built'.shelf = shelf /\ built'.format = firmware
    BY <2>1, EmittedIsIndex DEF IInv, TypeOK
  <2>3. Prior(live)' = Prior(live) /\ card' = card /\ firmware' = firmware
    BY <1>2 DEF WalkAndEmit, Prior, Reconcilable
  <2>4. (RebuildOf(built, live))'
    BY <2>1, <2>2, <2>3 DEF RebuildOf, Rebuilds, Claims, Orders, Reconciled, Index
  <2>5. (BuiltNumbered)'
    BY <2>2 DEF BuiltNumbered
  <2>6. TypeOK' /\ ArrivalsDistinct'
    BY <1>2, <2>2, NotFiles DEF WalkAndEmit, marks, IInv, TypeOK, ArrivalsDistinct, Steps
  <2>7. StepInv'
    BY <1>2, <2>4 DEF WalkAndEmit, marks, IInv, StepInv
  <2> QED BY <2>5, <2>6, <2>7 DEF IInv
<1> QED BY <1>1, <1>2

LEMMA EmitInv == ASSUME IInv, EmitDone \/ EmitFails PROVE IInv'
<1>1. CASE EmitDone
  <2>1. RebuildOf(built, live) /\ backup = None
    BY <1>1 DEF EmitDone, IInv, StepInv
  <2>2. (RebuildOf(fresh, live))' /\ (live = None => (RebuildOf(fresh, backup))')
    BY <1>1, <2>1 DEF EmitDone, marks, RebuildOf, Prior, Reconcilable
  <2> QED BY <1>1, <2>1, <2>2, NotFiles
          DEF EmitDone, marks, IInv, TypeOK, ArrivalsDistinct, BuiltNumbered, StepInv, Steps, RebuildOf
<1>2. CASE EmitFails
  BY <1>2, NotFiles DEF EmitFails, marks, IInv, TypeOK, ArrivalsDistinct, BuiltNumbered, StepInv, Steps
<1> QED BY <1>1, <1>2

LEMMA ParkInv == ASSUME IInv, ParkLive \/ ParkFails PROVE IInv'
<1>1. CASE ParkLive
  <2>1. RebuildOf(fresh, live)
    BY <1>1 DEF ParkLive, IInv, StepInv
  <2>2. (RebuildOf(fresh, backup))'
    BY <1>1, <2>1 DEF ParkLive, marks, RebuildOf, Prior, Reconcilable
  <2> QED BY <1>1, <2>2, NotFiles
          DEF ParkLive, marks, IInv, TypeOK, ArrivalsDistinct, BuiltNumbered, StepInv, Steps
<1>2. CASE ParkFails
  BY <1>2, NotFiles DEF ParkFails, marks, IInv, TypeOK, ArrivalsDistinct, BuiltNumbered, StepInv, Steps
<1> QED BY <1>1, <1>2

\* What is swapped in is read by this firmware and lists the card.
LEMMA FreshReadable ==
  ASSUME IInv, step = "swap"
  PROVE  Readable(fresh) /\ Lists(fresh.shelf, card) /\ Numbered(fresh.shelf)
<1>1. RebuildOf(fresh, backup)
  BY DEF IInv, StepInv
<1>2. Prior(backup) \in Shelf /\ Numbered(Prior(backup))
  BY PriorResult DEF IInv, TypeOK, ArrivalsDistinct
<1> QED BY <1>1, <1>2, RebuildResult DEF RebuildOf, Readable, IInv, TypeOK

LEMMA SwapInv == ASSUME IInv, SwapIn \/ SwapFails PROVE IInv'
<1>1. CASE SwapIn
  <2>1. Readable(fresh) /\ Lists(fresh.shelf, card)
    BY <1>1, FreshReadable DEF SwapIn
  <2>2. (Readable(live) /\ Lists(live.shelf, card))'
    BY <1>1, <2>1 DEF SwapIn, marks, Readable, Lists, Rows, Books
  <2> QED BY <1>1, <2>1, <2>2, NotFiles
          DEF SwapIn, marks, IInv, TypeOK, ArrivalsDistinct, BuiltNumbered, StepInv, Steps, Readable
<1>2. CASE SwapFails
  BY <1>2, NotFiles DEF SwapFails, marks, IInv, TypeOK, ArrivalsDistinct, BuiltNumbered, StepInv, Steps
<1> QED BY <1>1, <1>2

LEMMA CleanInv == ASSUME IInv, CleanBackup \/ clearLibraryIndexDirty PROVE IInv'
BY NotFiles DEF CleanBackup, clearLibraryIndexDirty, files, marks, IInv, TypeOK, ArrivalsDistinct,
                BuiltNumbered, StepInv, Steps, Readable

LEMMA RestartInv == ASSUME IInv, PowerLoss \/ Reflash PROVE IInv'
BY NotFiles DEF PowerLoss, Reflash, files, IInv, TypeOK, ArrivalsDistinct, BuiltNumbered, StepInv, Steps

LEMMA StutterInv == ASSUME IInv, UNCHANGED vars PROVE IInv'
BY DEF vars, IInv, TypeOK, ArrivalsDistinct, BuiltNumbered, StepInv, RebuildOf, Prior, Readable, Reconcilable

LEMMA NextInv == ASSUME IInv, [Next]_vars PROVE IInv'
BY TransferBookInv, MarkInv, EditCardInv, StartBuildInv, DeleteInLibraryInv, GiveUpInv, RecoverInv,
   WalkInv, EmitInv, ParkInv, SwapInv, CleanInv, RestartInv, StutterInv DEF Next, Build

LEMMA Inductive == Spec => []IInv
BY InitInv, NextInv, PTL DEF Spec

\* No file under the name of the index or of its backup was left unfinished.
THEOREM TypeCorrect == Spec => []TypeOK
BY Inductive, PTL DEF IInv

\* For any card and any number of renames and rebuilds, no two books of an
\* index share an arrival number.
THEOREM DistinctArrivals == Spec => []ArrivalsDistinct
BY Inductive, PTL DEF IInv

-----------------------------------------------------------------------------
(* The refinement. *)

ShelfSeen == IF Reconcilable(Recovered) THEN Recovered.shelf ELSE None

\* Both levels number arrivals by the same operators.
LEMMA SameArrivals ==
  /\ Abstract!Cards = Cards
  /\ Abstract!EmptyShelf = EmptyShelf
  /\ \A shelf, crd : Abstract!Lists(shelf, crd) = Lists(shelf, crd)
  /\ \A shelf, crd : Abstract!Rebuilds(shelf, crd) = Rebuilds(shelf, crd)
<1>0. \A S : Abstract!Cardinality(S) = Cardinality(S)
  BY DEF Abstract!Cardinality, Cardinality
<1>1. \A shelf, crd : Abstract!Claims(shelf, crd) = Claims(shelf, crd)
  BY DEF Abstract!Claims, Claims, Abstract!Unresolved, Unresolved, Abstract!Leftover, Leftover,
         Abstract!Rows, Rows, Abstract!Books, Books
<1>2. \A shelf, crd, c, o : Abstract!Reconciled(shelf, crd, c, o) = Reconciled(shelf, crd, c, o)
  BY <1>0 DEF Abstract!Reconciled, Reconciled, Abstract!Arrival, Arrival, Abstract!Added, Added, Abstract!Rows, Rows
<1>3. \A c : Abstract!Orders(Abstract!Added(c)) = Orders(Added(c))
  BY <1>0 DEF Abstract!Orders, Orders, Abstract!Added, Added
<1>4. \A shelf, crd : Abstract!Rebuilds(shelf, crd) = Rebuilds(shelf, crd)
  BY <1>1, <1>2, <1>3 DEF Abstract!Rebuilds, Rebuilds
<1> QED BY <1>4 DEF Abstract!Cards, Cards, Abstract!EmptyShelf, EmptyShelf, Abstract!Lists, Lists,
            Abstract!Rows, Rows, Abstract!Books, Books

LEMMA AbstractInit == Init => Abstract!Init
BY NotFiles, SameArrivals DEF Init, Abstract!Init, Recovered, Reconcilable

\* What a reader of the card has depends on the two files and the firmware alone.
LEMMA FilesKeepShelf ==
  ASSUME live' = live, backup' = backup, firmware' = firmware
  PROVE  ShelfSeen' = ShelfSeen
BY DEF ShelfSeen, Recovered, Readable, Reconcilable

\* Recovery and a failed swap leave what recovery would find.
LEMMA RecoveryKeepsShelf ==
  ASSUME IInv, Recover \/ RestoreBackup \/ SwapFails
  PROVE  ShelfSeen' = ShelfSeen
<1>1. Recovered' = Recovered
  BY NotFiles DEF Recover, RestoreBackup, SwapFails, Recovering, IInv, StepInv, TypeOK, Recovered, Readable
<1>2. firmware' = firmware
  BY DEF Recover, RestoreBackup, SwapFails, Recovering
<1> QED BY <1>1, <1>2 DEF ShelfSeen, Reconcilable

\* Putting the live index aside leaves it what recovery finds.
LEMMA ParkKeepsShelf ==
  ASSUME IInv, ParkLive
  PROVE  ShelfSeen' = ShelfSeen
<1>1. backup = None /\ live # None
  BY DEF ParkLive, IInv, StepInv
<1>2. Recovered' = Recovered
  BY <1>1 DEF ParkLive, Recovered, Readable
<1> QED BY <1>2 DEF ParkLive, ShelfSeen, Reconcilable

\* Once the new index is live, the backup no longer counts.
LEMMA CleanKeepsShelf ==
  ASSUME IInv, CleanBackup
  PROVE  ShelfSeen' = ShelfSeen
<1>1. Readable(live) /\ live # None
  BY NotFiles DEF CleanBackup, IInv, StepInv, Readable
<1>2. Recovered = live /\ Recovered' = live
  BY <1>1 DEF CleanBackup, Recovered, Readable
<1> QED BY <1>2 DEF CleanBackup, ShelfSeen, Reconcilable

\* The swap is the abstract rebuild.
LEMMA SwapRebuilds ==
  ASSUME IInv, SwapIn
  PROVE  Abstract!Rebuild
<1>1. live = None /\ RebuildOf(fresh, backup)
  BY DEF SwapIn, IInv, StepInv
<1>2. Recovered = backup
  BY <1>1 DEF Recovered
<1>3. Prior(backup) = IF ShelfSeen = None THEN EmptyShelf ELSE ShelfSeen
  BY <1>2, NotFiles DEF Prior, ShelfSeen, Reconcilable, Index
<1>4. Readable(fresh)
  BY FreshReadable DEF SwapIn
<1>5. Recovered' = fresh
  BY <1>4, NotFiles DEF SwapIn, Recovered, Readable
<1>6. ShelfSeen' = fresh.shelf
  BY <1>4, <1>5 DEF SwapIn, ShelfSeen, Reconcilable, Readable
<1> QED BY <1>1, <1>3, <1>6, SameArrivals DEF Abstract!Rebuild, Abstract!Known, RebuildOf, ShelfSeen, SwapIn, marks

\* The mark is withdrawn only over an index that lists the card.
LEMMA ClearSettles ==
  ASSUME IInv, clearLibraryIndexDirty
  PROVE  Abstract!Settle
<1>1. (Readable(live) \/ (backup = None /\ Reconcilable(live))) /\ Lists(live.shelf, card)
  BY DEF clearLibraryIndexDirty, IInv, StepInv
<1>2. ShelfSeen = live.shelf /\ live.shelf \in Shelf
  BY <1>1, NotFiles DEF ShelfSeen, Recovered, Readable, Reconcilable, Index
<1>3. ShelfSeen' = ShelfSeen
  BY FilesKeepShelf DEF clearLibraryIndexDirty, files
<1>4. ShelfSeen # None /\ Lists(ShelfSeen, card)
  BY <1>1, <1>2, NotFiles
<1>5. marker \in BOOLEAN /\ dirtyInMemory' = FALSE /\ (marker' = FALSE \/ (marker /\ marker'))
  BY DEF clearLibraryIndexDirty, IInv, TypeOK
<1> QED BY <1>3, <1>4, <1>5, SameArrivals DEF clearLibraryIndexDirty, Abstract!Settle, ShelfSeen, files

\* Every step of the files is a step of the shelf or leaves it as it is.
LEMMA AbstractNext == ASSUME IInv, [Next]_vars PROVE [Abstract!Next]_(Abstract!vars)
<1> USE DEF ShelfSeen
<1>1. ASSUME NEW p \in Paths, NEW size \in Sizes, TransferBook(p, size) PROVE Abstract!Change
  BY <1>1, FilesKeepShelf, SameArrivals DEF TransferBook, files, marks, Abstract!Change, IInv, TypeOK, Cards
<1>2. ASSUME markLibraryIndexDirty PROVE Abstract!Mark
  BY <1>2, FilesKeepShelf DEF markLibraryIndexDirty, files, Abstract!Mark
<1>3. ASSUME EditCard PROVE Abstract!Change
  <2>1. card' \in Cards
    BY <1>3 DEF EditCard, IInv, TypeOK, Cards, Books
  <2> QED BY <1>3, <2>1, FilesKeepShelf, SameArrivals DEF EditCard, files, marks, Abstract!Change
<1>4. ASSUME NEW p \in Paths, DeleteInLibrary(p) PROVE Abstract!Change
  BY <1>4, FilesKeepShelf, SameArrivals DEF DeleteInLibrary, files, marks, Abstract!Change, IInv, TypeOK, Cards
<1>5. ASSUME StartBuild \/ GiveUp \/ WalkUnchanged \/ WalkAndEmit \/ EmitDone \/ EmitFails \/ ParkFails
      PROVE UNCHANGED Abstract!vars
  BY <1>5, FilesKeepShelf DEF StartBuild, GiveUp, WalkUnchanged, WalkAndEmit, EmitDone, EmitFails,
     ParkFails, files, marks, Abstract!vars
<1>6. ASSUME Recover \/ RestoreBackup \/ SwapFails \/ ParkLive \/ CleanBackup PROVE UNCHANGED Abstract!vars
  <2>1. ShelfSeen' = ShelfSeen
    BY <1>6, RecoveryKeepsShelf, ParkKeepsShelf, CleanKeepsShelf
  <2> QED BY <1>6, <2>1 DEF Recover, RestoreBackup, Recovering, SwapFails, ParkLive, CleanBackup, marks, Abstract!vars
<1>7. ASSUME PowerLoss PROVE Abstract!PowerLoss
  BY <1>7, FilesKeepShelf DEF PowerLoss, Abstract!PowerLoss, Abstract!Restarted
<1>8. ASSUME Reflash PROVE Abstract!Reflash
  BY <1>8 DEF Reflash, Abstract!Reflash, Abstract!Restarted, files
<1>9. ASSUME UNCHANGED vars PROVE UNCHANGED Abstract!vars
  BY <1>9, FilesKeepShelf DEF vars, Abstract!vars
<1> QED BY <1>1, <1>2, <1>3, <1>4, <1>5, <1>6, <1>7, <1>8, <1>9, SwapRebuilds, ClearSettles
        DEF Next, Build, Abstract!Next

\* The file-level index, with its failures and power losses, implements the
\* shelf whose rebuild is one step and whose mark is withdrawn only in time.
THEOREM Refinement == Spec => ImplementsShelf
<1>1. Init => Abstract!Init
  BY AbstractInit
<1>2. IInv /\ [Next]_vars => [Abstract!Next]_(Abstract!vars)
  BY AbstractNext
<1> QED BY <1>1, <1>2, Inductive, PTL DEF Spec, ImplementsShelf, Abstract!Spec
=============================================================================

---------------------------- MODULE SmtFloorProofs ----------------------------
(***************************************************************************)
(* Proofs about SmtFloor, for any machines, slots, reels, orders, boards    *)
(* and panels, any feeder tables and alternates, and any settings.          *)
(*                                                                          *)
(* Boards do not matter to where reels are, and to the verification of a    *)
(* machine only its slots do: FloorCases says which steps there are for     *)
(* these two questions.  For what happens to boards feeders do not matter:  *)
(* BoardCases says which steps there are for them, and PlanHolds is kept    *)
(* because a new board is let in only while its order is below its plan.    *)
(***************************************************************************)
EXTENDS SmtFloor, FiniteSetTheorems, TLAPS

SlotRows == [main : Reels \cup {Nil}, spliced : Reels \cup {Nil}]

ReelRows == [status : ReelStates, place : Places \cup {Nil}]

MachineRows == [order : WorkOrders \cup {Nil}, verified : BOOLEAN, signed : BOOLEAN]

\* What steps do to the feeders, to machines and to what was placed by them.
LEMMA FloorCases ==
    ASSUME FloorNext
    PROVE  \/ UNCHANGED <<machine, slot, reel, firstArticle, doubled, inspected, misplaced>>
           \/ \E o \in WorkOrders : smtInspectionRecord(o)
           \/ \E r \in Reels : smtReelTransition(r)
           \/ \E m \in Machines, s \in Slots, r \in Reels : smtLoad(m, s, r)
           \/ \E m \in Machines, s \in Slots, to \in Disposals : smtUnload(m, s, to)
           \/ \E m \in Machines, o \in WorkOrders : smtMachineBind(m, o)
           \/ \E m \in Machines : smtMachineVerify(m)
           \/ \E m \in Machines : smtMachineSignOff(m)
           \/ \E b \in Boards, o \in WorkOrders, m \in Machines \cup {Nil} :
                 \E k \in DOMAIN Route[o] : smtUnitPass(b, o, k, m)
           \/ \E m \in Machines \cup {Nil} : \E k, n, bad, unknown, found :
                 smtPassPanel(k, n, m, bad, unknown, found)
<1>. DEFINE Quiet == UNCHANGED <<machine, slot, reel, firstArticle, doubled, inspected, misplaced>>
<1>1. ASSUME NEW o \in WorkOrders, smtWorkOrderTransition(o)
      PROVE  Quiet
  BY <1>1 DEF smtWorkOrderTransition
<1>2. ASSUME NEW m \in Machines, NEW s \in Slots, NEW r \in Reels, ScanMismatch(m, s, r)
      PROVE  Quiet
  BY <1>2, Zenon DEF ScanMismatch
<1>3. ASSUME NEW m \in Machines, NEW s \in Slots, smtMachineSlotLock(m, s)
      PROVE  Quiet
  BY <1>3 DEF smtMachineSlotLock
<1>4. ASSUME NEW b, NEW o, NEW k, NEW m, NEW found, smtUnitFail(b, o, k, m, found)
      PROVE  Quiet
  BY <1>4 DEF smtUnitFail, FloorRest
<1>5. ASSUME NEW b, smtUnitScrap(b)
      PROVE  Quiet
  BY <1>5 DEF smtUnitScrap, FloorRest
<1>6. ASSUME NEW b, NEW d, NEW scrap, smtUnitRepair(b, d, scrap)
      PROVE  Quiet
  BY <1>6, Zenon DEF smtUnitRepair, FloorRest
<1>7. ASSUME NEW k, smtPanelSplit(k)
      PROVE  Quiet
  BY <1>7 DEF smtPanelSplit, FloorRest
<1>8. ASSUME NEW k, NEW o, NEW boards, smtPanelBind(k, o, boards)
      PROVE  Quiet
  BY <1>8 DEF smtPanelBind, FloorRest
<1>9. QED
  <2>1. CASE \E o \in WorkOrders : smtWorkOrderTransition(o) \/ smtInspectionRecord(o)
    BY <1>1, <2>1, Zenon
  <2>2. CASE \E r \in Reels : smtReelTransition(r)
    BY <2>2, Zenon
  <2>3. CASE \E m \in Machines, s \in Slots :
                \/ \E r \in Reels : smtLoad(m, s, r) \/ ScanMismatch(m, s, r)
                \/ \E to \in Disposals : smtUnload(m, s, to)
                \/ smtMachineSlotLock(m, s)
    BY <1>2, <1>3, <2>3, Zenon
  <2>4. CASE \E m \in Machines :
                \/ \E o \in WorkOrders : smtMachineBind(m, o)
                \/ smtMachineVerify(m) \/ smtMachineSignOff(m)
    BY <2>4, Zenon
  <2>5. CASE \E b \in Boards, o \in WorkOrders, m \in Machines \cup {Nil} :
                \E k \in DOMAIN Route[o] :
                    \/ smtUnitPass(b, o, k, m)
                    \/ \E found \in 1..MaxDefects : smtUnitFail(b, o, k, m, found)
    BY <1>4, <2>5, Zenon
  <2>6. CASE \E b \in Boards :
                \/ smtUnitScrap(b)
                \/ \E d \in {c \in Boards : board[c].defects > 0} \cup {Nil}, scrap \in BOOLEAN :
                      smtUnitRepair(b, d, scrap)
    BY <1>5, <1>6, <2>6, Zenon
  <2>7. CASE \E k \in Panels :
                \/ smtPanelSplit(k)
                \/ \E o \in WorkOrders, boards \in BoundedSeq(Boards, MaxPanel) :
                      /\ boards # <<>> /\ IsInjective(boards)
                      /\ smtPanelBind(k, o, boards)
    BY <1>7, <1>8, <2>7, Zenon
  <2>8. CASE \E k \in Panels :
                \E m \in Machines \cup {Nil}, found \in 1..MaxDefects,
                   bad \in SUBSET Range(panel[k].boards) :
                   \E n \in UNION {DOMAIN Route[o] : o \in WorkOrders}, unknown \in SUBSET bad :
                      smtPassPanel(k, n, m, bad, unknown, found)
    BY <2>8, Zenon
  <2>9. QED
    BY <2>1, <2>2, <2>3, <2>4, <2>5, <2>6, <2>7, <2>8, Zenon DEF FloorNext

------------------------------------------------------------------------------
(* Reels *)

ReelTypes ==
    /\ slot \in [Places -> SlotRows]
    /\ \A p \in Places : slot[p].main = Nil => slot[p].spliced = Nil
    /\ reel \in [Reels -> ReelRows]
    /\ doubled \subseteq Reels

On(r, p) == r \in {slot[p].main, slot[p].spliced}

\* What ReelIsWhereItIsLoaded says of one reel.
Home(r) ==
    /\ \A p \in Places : On(r, p) => reel[r] = [status |-> "loaded", place |-> p]
    /\ reel[r].status = "loaded" => \E p \in Places : On(r, p)

\* A reel that was spliced to itself is known as such and is on some feeder; the
\* others are where they are on record.
ReelsInv ==
    /\ ReelTypes
    /\ \A r \in doubled : \E p \in Places : On(r, p)
    /\ \A p \in Places : slot[p].main \in Reels /\ slot[p].main = slot[p].spliced =>
                           slot[p].main \in doubled
    /\ \A r \in Reels \ doubled : Home(r)

LEMMA NilIsNoReel == Nil \notin Reels
  BY FloorAssumption

LEMMA ReelsInit == FloorInit => ReelsInv
<1>. SUFFICES ASSUME FloorInit PROVE ReelsInv
  OBVIOUS
<1>1. ReelTypes
  BY DEF FloorInit, ReelTypes, SlotRows, ReelRows, ReelStates
<1>2. ASSUME NEW r \in Reels PROVE Home(r)
  BY NilIsNoReel DEF FloorInit, Home, On
<1>3. doubled = {} /\ \A p \in Places : slot[p].main = Nil
  BY DEF FloorInit
<1>4. QED
  BY <1>1, <1>2, <1>3, NilIsNoReel DEF ReelsInv

LEMMA HomeRecord ==
    ASSUME NEW r, Home(r), NEW p \in Places, On(r, p)
    PROVE  /\ reel[r] = [status |-> "loaded", place |-> p]
           /\ reel[r].status = "loaded"
           /\ reel[r].place = p
<1>1. reel[r] = [status |-> "loaded", place |-> p]
  BY Zenon DEF Home
<1>2. QED
  BY <1>1

\* What taking a reel off does to the records.
LEMMA TakenOffRecord ==
    ASSUME ReelTypes, NEW x \in Reels, NEW to \in Disposals
    PROVE  /\ TakenOff(x, to) \in [Reels -> ReelRows]
           /\ TakenOff(x, to)[x].status # "loaded"
           /\ \A r \in Reels \ {x} : TakenOff(x, to)[r] = reel[r]
  BY DEF ReelTypes, ReelRows, ReelStates, TakenOff, Disposals

\* Reel actions leave the feeders alone, and take no reel that is on one.
LEMMA ReelTransitionKeeps ==
    ASSUME ReelsInv, NEW r \in Reels, smtReelTransition(r)
    PROVE  ReelsInv'
<1>1. /\ UNCHANGED <<slot, doubled>>
      /\ reel' \in [Reels -> ReelRows]
      /\ \A x \in Reels \ {r} : reel'[x] = reel[x]
      /\ reel'[r].status # "loaded"
  BY DEF ReelsInv, ReelTypes, smtReelTransition, ReelRows, ReelStates
<1>2. ReelTypes'
  BY <1>1 DEF ReelsInv, ReelTypes
<1>3. \A x \in Reels, p \in Places : On(x, p)' <=> On(x, p)
  BY <1>1 DEF On
<1>4. ASSUME r \notin doubled, NEW p \in Places, On(r, p) PROVE FALSE
  <2>. Home(r)
    BY <1>4 DEF ReelsInv
  <2>1. reel[r].status = "loaded"
    BY <1>4, HomeRecord
  <2>2. ActiveLoading(r)
    BY <1>4, Zenon DEF On, ActiveLoading
  <2>3. QED
    BY <2>1, <2>2 DEF smtReelTransition
<1>5. ASSUME NEW x \in Reels \ doubled PROVE Home(x)'
  <2>1. CASE x = r
    BY <1>1, <1>3, <1>4, <1>5, <2>1 DEF Home
  <2>2. CASE x # r
    BY <1>1, <1>3, <1>5, <2>2 DEF ReelsInv, Home
  <2>3. QED
    BY <2>1, <2>2
<1>6. QED
  BY <1>1, <1>2, <1>3, <1>5 DEF ReelsInv, ReelTypes

\* Reel x leaves its position p, whatever moves up: the last position it left leaves
\* it on record as not loaded.
LEMMA TakeOffKeeps ==
    ASSUME ReelsInv, NEW p \in Places, NEW to \in Disposals, TakeOff(p, to)
    PROVE  ReelsInv'
<1>1. PICK x \in Reels :
         /\ On(x, p)
         /\ reel' = TakenOff(x, to)
         /\ slot' \in [Places -> SlotRows]
         /\ \A q \in Places : slot'[q].main = Nil => slot'[q].spliced = Nil
         /\ \A q \in Places \ {p} : slot'[q] = slot[q]
         /\ \A r \in Reels : On(r, p)' => On(r, p)
         /\ \A r \in Reels \ {x} : On(r, p) => On(r, p)'
         /\ slot[p].main # slot[p].spliced => ~On(x, p)'
         /\ slot'[p].spliced = Nil
  <2>1. CASE /\ slot[p].main # Nil
             /\ slot' = [slot EXCEPT ![p] = [main |-> @.spliced, spliced |-> Nil]]
             /\ reel' = TakenOff(slot[p].main, to)
    <3>1. slot[p].main \in Reels
      BY <2>1 DEF ReelsInv, ReelTypes, SlotRows
    <3>2. /\ slot'[p] = [main |-> slot[p].spliced, spliced |-> Nil]
          /\ slot' \in [Places -> SlotRows]
          /\ \A q \in Places \ {p} : slot'[q] = slot[q]
      BY <2>1 DEF ReelsInv, ReelTypes, SlotRows
    <3>3. QED
      BY <2>1, <3>1, <3>2, NilIsNoReel DEF ReelsInv, ReelTypes, On
  <2>2. CASE /\ slot[p].spliced # Nil
             /\ slot' = [slot EXCEPT ![p].spliced = Nil]
             /\ reel' = TakenOff(slot[p].spliced, to)
    <3>1. slot[p].spliced \in Reels
      BY <2>2 DEF ReelsInv, ReelTypes, SlotRows
    <3>2. /\ slot'[p] = [main |-> slot[p].main, spliced |-> Nil]
          /\ slot' \in [Places -> SlotRows]
          /\ \A q \in Places \ {p} : slot'[q] = slot[q]
      BY <2>2 DEF ReelsInv, ReelTypes, SlotRows
    <3>3. QED
      BY <2>2, <3>1, <3>2, NilIsNoReel DEF ReelsInv, ReelTypes, On
  <2>3. QED
    BY <2>1, <2>2 DEF TakeOff
<1>2. /\ reel' \in [Reels -> ReelRows]
      /\ reel'[x].status # "loaded"
      /\ \A r \in Reels \ {x} : reel'[r] = reel[r]
  BY <1>1, TakenOffRecord DEF ReelsInv
<1>3. doubled' = doubled \cap OnFeeders'
  BY DEF TakeOff, StillDoubled
<1>4. ASSUME NEW r \in Reels
      PROVE  r \in OnFeeders' <=> \E q \in Places : On(r, q)'
  BY DEF OnFeeders, On
<1>5. \A r \in Reels, q \in Places \ {p} : On(r, q)' <=> On(r, q)
  BY <1>1 DEF On
<1>6. ReelTypes'
  BY <1>1, <1>2, <1>3 DEF ReelsInv, ReelTypes
<1>7. ASSUME NEW r \in Reels \ doubled' PROVE Home(r)'
  <2>1. CASE r # x
    <3>1. \A q \in Places : On(r, q)' <=> On(r, q)
      BY <1>1, <1>5, <2>1
    <3>2. r \notin doubled
      BY <1>3, <1>4, <1>7, <3>1 DEF ReelsInv
    <3>3. QED
      BY <1>2, <2>1, <3>1, <3>2 DEF ReelsInv, Home
  <2>2. CASE r = x
    <3>1. CASE x \in doubled
      BY <1>2, <1>3, <1>4, <1>7, <2>2, <3>1 DEF Home
    <3>2. CASE x \notin doubled
      <4>1. Home(x)
        BY <3>2 DEF ReelsInv
      <4>2. ASSUME NEW q \in Places \ {p}, On(x, q)' PROVE FALSE
        <5>1. reel[x].place = p
          BY <1>1, <4>1, HomeRecord
        <5>2. reel[x].place = q
          BY <1>5, <4>1, <4>2, HomeRecord
        <5>3. QED
          BY <5>1, <5>2
      <4>3. slot[p].main # slot[p].spliced
        BY <1>1, <3>2 DEF ReelsInv, On
      <4>4. QED
        BY <1>1, <1>2, <2>2, <4>2, <4>3 DEF Home
    <3>3. QED
      BY <3>1, <3>2
  <2>3. QED
    BY <2>1, <2>2
<1>8. ASSUME NEW q \in Places, slot'[q].main \in Reels, slot'[q].main = slot'[q].spliced
      PROVE  slot'[q].main \in doubled'
  <2>1. slot[q].main = slot[q].spliced /\ slot[q].main = slot'[q].main
    BY <1>1, <1>8, NilIsNoReel
  <2>2. QED
    BY <1>3, <1>4, <1>8, <2>1 DEF ReelsInv, On
<1>9. QED
  BY <1>3, <1>4, <1>6, <1>7, <1>8 DEF ReelsInv, ReelTypes

\* A reel that may be scanned at p is on no other feeder, unless it is a doubled one.
LEMMA ScannedIsFree ==
    ASSUME ReelsInv, NEW m \in Machines, NEW s \in Slots, NEW r \in Reels \ doubled,
           MayScan(m, s, r), NEW q \in Places, On(r, q)
    PROVE  q = <<m, s>>
<1>1. Home(r)
  BY DEF ReelsInv
<1>2. reel[r].status = "loaded" /\ reel[r].place = q
  BY <1>1, HomeRecord
<1>3. q # Nil
  BY FloorAssumption DEF Places
<1>4. QED
  BY <1>2, <1>3 DEF MayScan

\* A reel is put on in addition to what there is: loaded or spliced.
LEMMA PutOnKeeps ==
    ASSUME ReelsInv, ReelTypes', NEW r \in Reels, NEW p \in Places,
           \A q \in Places : r \notin doubled /\ On(r, q) => q = p,
           reel' = [reel EXCEPT ![r] = [status |-> "loaded", place |-> p]],
           \A x \in Reels, q \in Places : On(x, q)' <=> On(x, q) \/ (x = r /\ q = p),
           doubled' \in {doubled, doubled \cup {r}},
           \A q \in Places : slot'[q].main \in Reels /\ slot'[q].main = slot'[q].spliced =>
                             slot'[q].main \in doubled'
    PROVE  ReelsInv'
<1>1. /\ reel'[r] = [status |-> "loaded", place |-> p]
      /\ \A x \in Reels \ {r} : reel'[x] = reel[x]
  BY DEF ReelsInv, ReelTypes
<1>2. ASSUME NEW x \in Reels \ doubled' PROVE Home(x)'
  <2>1. CASE x = r
    <3>1. \A q \in Places : On(r, q)' => q = p
      BY <1>2, <2>1
    <3>2. On(r, p)'
      OBVIOUS
    <3>3. QED
      BY <1>1, <2>1, <3>1, <3>2 DEF Home
  <2>2. CASE x # r
    BY <1>1, <1>2, <2>2 DEF ReelsInv, Home
  <2>3. QED
    BY <2>1, <2>2
<1>3. ASSUME NEW x \in doubled' PROVE \E q \in Places : On(x, q)'
  <2>1. CASE x = r
    BY <2>1
  <2>2. CASE x # r
    BY <1>3, <2>2 DEF ReelsInv, ReelTypes
  <2>3. QED
    BY <2>1, <2>2
<1>4. QED
  BY <1>2, <1>3 DEF ReelsInv

LEMMA LoadKeeps ==
    ASSUME ReelsInv, NEW m \in Machines, NEW s \in Slots, NEW r \in Reels, smtLoad(m, s, r)
    PROVE  ReelsInv'
<1>. DEFINE p == <<m, s>>
            Loaded(reels) == [reels EXCEPT ![r] = [status |-> "loaded", place |-> p]]
<1>1. p \in Places /\ MayScan(m, s, r)
  BY DEF Places, smtLoad
<1>2. \A q \in Places : r \notin doubled /\ On(r, q) => q = p
  BY <1>1, ScannedIsFree
<1>3. CASE /\ slot[p].main = Nil
           /\ slot' = [slot EXCEPT ![p].main = r]
           /\ reel' = Loaded(reel)
           /\ UNCHANGED doubled
  <2>1. /\ slot'[p] = [main |-> r, spliced |-> Nil]
        /\ slot' \in [Places -> SlotRows]
        /\ \A q \in Places \ {p} : slot'[q] = slot[q]
    BY <1>1, <1>3 DEF ReelsInv, ReelTypes, SlotRows
  <2>2. slot[p] = [main |-> Nil, spliced |-> Nil]
    BY <1>1, <1>3 DEF ReelsInv, ReelTypes, SlotRows
  <2>3. reel' \in [Reels -> ReelRows]
    BY <1>1, <1>3 DEF ReelsInv, ReelTypes, ReelRows, ReelStates
  <2>4. doubled' \in {doubled, doubled \cup {r}}
    BY <1>3
  <2>5. QED
    <3>1. ReelTypes'
      BY <1>3, <2>1, <2>3, NilIsNoReel DEF ReelsInv, ReelTypes
    <3>2. \A x \in Reels, q \in Places : On(x, q)' <=> On(x, q) \/ (x = r /\ q = p)
      BY <1>1, <2>1, <2>2, NilIsNoReel DEF On
    <3>3. \A q \in Places : slot'[q].main \in Reels /\ slot'[q].main = slot'[q].spliced =>
                             slot'[q].main \in doubled'
      BY <1>3, <2>1, NilIsNoReel DEF ReelsInv
    <3>4. QED
      <4>. HIDE DEF p
      <4>1. reel' = [reel EXCEPT ![r] = [status |-> "loaded", place |-> p]]
        BY <1>3
      <4>2. QED
        BY <1>1, <1>2, <2>4, <3>1, <3>2, <3>3, <4>1, PutOnKeeps, ZenonT(60)
<1>4. CASE /\ slot[p].main # Nil /\ slot[p].spliced = Nil
           /\ slot' = [slot EXCEPT ![p].spliced = r]
           /\ reel' = Loaded(reel)
           /\ doubled' = IF slot[p].main = r THEN doubled \cup {r} ELSE doubled
  <2>1. /\ slot'[p] = [main |-> slot[p].main, spliced |-> r]
        /\ slot' \in [Places -> SlotRows]
        /\ \A q \in Places \ {p} : slot'[q] = slot[q]
    BY <1>1, <1>4 DEF ReelsInv, ReelTypes, SlotRows
  <2>2. reel' \in [Reels -> ReelRows]
    BY <1>1, <1>4 DEF ReelsInv, ReelTypes, ReelRows, ReelStates
  <2>3. doubled' \in {doubled, doubled \cup {r}} /\ doubled \subseteq doubled'
    BY <1>4
  <2>4. QED
    <3>1. ReelTypes'
      <4>1. \A q \in Places : slot'[q].main = Nil => slot'[q].spliced = Nil
        BY <1>4, <2>1 DEF ReelsInv, ReelTypes
      <4>2. QED
        BY <2>1, <2>2, <2>3, <4>1 DEF ReelsInv, ReelTypes
    <3>2. \A x \in Reels, q \in Places : On(x, q)' <=> On(x, q) \/ (x = r /\ q = p)
      BY <1>1, <1>4, <2>1, NilIsNoReel DEF On
    <3>3. ASSUME NEW q \in Places, slot'[q].main \in Reels, slot'[q].main = slot'[q].spliced
          PROVE  slot'[q].main \in doubled'
      <4>1. CASE q = p
        BY <1>4, <2>1, <3>3, <4>1
      <4>2. CASE q # p
        BY <2>1, <2>3, <3>3, <4>2 DEF ReelsInv
      <4>3. QED
        BY <4>1, <4>2
    <3>4. QED
      <4>. HIDE DEF p
      <4>1. reel' = [reel EXCEPT ![r] = [status |-> "loaded", place |-> p]]
        BY <1>4
      <4>2. QED
        BY <1>1, <1>2, <2>3, <3>1, <3>2, <3>3, <4>1, PutOnKeeps, ZenonT(60)
<1>5. ASSUME NEW to \in Disposals,
             slot[p].main # Nil, slot[p].spliced = Nil,
             slot' = [slot EXCEPT ![p].main = r],
             reel' = Loaded(TakenOff(slot[p].main, to)),
             doubled' = StillDoubled
      PROVE  ReelsInv'
  <2>. DEFINE old == slot[p].main
  <2>1. old \in Reels
    BY <1>1, <1>5 DEF ReelsInv, ReelTypes, SlotRows
  <2>2. /\ slot'[p] = [main |-> r, spliced |-> Nil]
        /\ slot' \in [Places -> SlotRows]
        /\ \A q \in Places \ {p} : slot'[q] = slot[q]
    BY <1>1, <1>5 DEF ReelsInv, ReelTypes, SlotRows
  <2>3. /\ reel' \in [Reels -> ReelRows]
        /\ reel'[r] = [status |-> "loaded", place |-> p]
        /\ \A x \in Reels \ {r, old} : reel'[x] = reel[x]
        /\ old # r => reel'[old].status # "loaded"
    <3>1. /\ TakenOff(old, to) \in [Reels -> ReelRows]
          /\ TakenOff(old, to)[old].status # "loaded"
          /\ \A x \in Reels \ {old} : TakenOff(old, to)[x] = reel[x]
      BY <2>1, TakenOffRecord DEF ReelsInv
    <3>2. [status |-> "loaded", place |-> p] \in ReelRows
      BY <1>1 DEF ReelRows, ReelStates
    <3>3. QED
      BY <1>5, <2>1, <3>1, <3>2
  <2>4. /\ \A x \in Reels : On(x, p) <=> x = old
        /\ \A x \in Reels : On(x, p)' <=> x = r
        /\ \A x \in Reels, q \in Places \ {p} : On(x, q)' <=> On(x, q)
    BY <1>1, <1>5, <2>2, NilIsNoReel DEF On
  <2>5. /\ doubled' \subseteq doubled
        /\ \A x \in doubled : x \in doubled' <=> \E q \in Places : On(x, q)'
    BY <1>5 DEF StillDoubled, OnFeeders, On
  <2>6. ReelTypes'
    BY <1>1, <2>2, <2>3, <2>5, NilIsNoReel DEF ReelsInv, ReelTypes
  <2>7. ASSUME NEW x \in Reels \ doubled' PROVE Home(x)'
    <3>1. CASE x = r
      <4>1. r \notin doubled
        BY <1>1, <2>4, <2>5, <2>7, <3>1
      <4>2. \A q \in Places \ {p} : ~On(r, q)'
        BY <1>1, <2>4, <4>1, ScannedIsFree
      <4>3. QED
        BY <1>1, <2>3, <2>4, <3>1, <4>2 DEF Home
    <3>2. CASE x # r /\ x = old
      <4>1. \A q \in Places : ~On(x, q)'
        <5>1. CASE x \in doubled
          BY <2>5, <2>7, <5>1
        <5>2. CASE x \notin doubled
          <6>1. Home(x)
            BY <5>2 DEF ReelsInv
          <6>2. On(x, p)
            BY <2>4, <3>2
          <6>3. ASSUME NEW q \in Places, On(x, q)' PROVE FALSE
            <7>1. reel[x].place = p
              BY <1>1, <6>1, <6>2, HomeRecord
            <7>2. q # p /\ On(x, q)
              BY <2>4, <3>2, <6>3
            <7>3. reel[x].place = q
              BY <6>1, <7>2, HomeRecord
            <7>4. QED
              BY <7>1, <7>2, <7>3
          <6>4. QED
            BY <6>3
        <5>3. QED
          BY <5>1, <5>2
      <4>2. QED
        BY <2>3, <3>2, <4>1 DEF Home
    <3>3. CASE x # r /\ x # old
      <4>1. \A q \in Places : On(x, q)' <=> On(x, q)
        BY <2>4, <3>3
      <4>2. Home(x)
        BY <2>5, <2>7, <4>1 DEF ReelsInv
      <4>3. QED
        BY <2>3, <3>3, <4>1, <4>2 DEF Home
    <3>4. QED
      BY <3>1, <3>2, <3>3
  <2>8. ASSUME NEW q \in Places, NEW x \in Reels, slot'[q].main = x, slot'[q].spliced = x
        PROVE  x \in doubled'
    <3>1. q # p
      BY <2>2, <2>8, NilIsNoReel
    <3>2. x \in doubled
      BY <2>2, <2>8, <3>1 DEF ReelsInv
    <3>3. On(x, q)'
      BY <2>8 DEF On
    <3>4. QED
      BY <2>5, <3>2, <3>3
  <2>9. QED
    BY <2>5, <2>6, <2>7, <2>8 DEF ReelsInv, ReelTypes
<1>6. QED
  BY <1>3, <1>4, <1>5 DEF smtLoad

LEMMA ReelsStep == ReelsInv /\ [FloorNext]_floorVars => ReelsInv'
<1>. SUFFICES ASSUME ReelsInv, [FloorNext]_floorVars PROVE ReelsInv'
  OBVIOUS
<1>1. CASE UNCHANGED <<slot, reel, doubled>>
  BY <1>1 DEF ReelsInv, ReelTypes, Home, On
<1>2. ASSUME NEW m \in Machines, NEW s \in Slots, NEW to \in Disposals, smtUnload(m, s, to)
      PROVE  ReelsInv'
  <2>1. <<m, s>> \in Places /\ TakeOff(<<m, s>>, to)
    BY <1>2 DEF Places, smtUnload
  <2>2. QED
    BY <2>1, TakeOffKeeps
<1>3. CASE FloorNext
  <2>1. ASSUME NEW o \in WorkOrders, smtInspectionRecord(o)
        PROVE  UNCHANGED <<slot, reel, doubled>>
    BY <2>1, Zenon DEF smtInspectionRecord
  <2>2. ASSUME NEW m, NEW o, smtMachineBind(m, o)
        PROVE  UNCHANGED <<slot, reel, doubled>>
    BY <2>2, Zenon DEF smtMachineBind
  <2>3. ASSUME NEW m, smtMachineVerify(m) \/ smtMachineSignOff(m)
        PROVE  UNCHANGED <<slot, reel, doubled>>
    BY <2>3, Zenon DEF smtMachineVerify, smtMachineSignOff
  <2>4. ASSUME NEW b, NEW o, NEW k, NEW m, smtUnitPass(b, o, k, m)
        PROVE  UNCHANGED <<slot, reel, doubled>>
    BY <2>4, Zenon DEF smtUnitPass, FloorRest
  <2>5. ASSUME NEW k, NEW n, NEW m, NEW bad, NEW unknown, NEW found,
               smtPassPanel(k, n, m, bad, unknown, found)
        PROVE  UNCHANGED <<slot, reel, doubled>>
    BY <2>5, Zenon DEF smtPassPanel, FloorRest
  <2>6. QED
    BY <1>1, <1>2, <1>3, <2>1, <2>2, <2>3, <2>4, <2>5, FloorCases, ReelTransitionKeeps,
       LoadKeeps, Zenon
<1>4. CASE UNCHANGED floorVars
  BY <1>1, <1>4 DEF floorVars
<1>5. QED
  BY <1>3, <1>4

\* Reels are where they are on record, for any machines, slots and reels: loads, splices,
\* replacements, unloads (smt_loading.go) and the reels' own actions (smt_actions.go) keep
\* the feeders' loadings and the reels' records together.
THEOREM ReelsAreWhereLoaded == FloorSpec => []ReelIsWhereItIsLoaded
<1>1. FloorInit => ReelsInv
  BY ReelsInit
<1>2. ReelsInv /\ [FloorNext]_floorVars => ReelsInv'
  BY ReelsStep
<1>3. ReelsInv => ReelIsWhereItIsLoaded
  BY DEF ReelsInv, Home, On, ReelIsWhereItIsLoaded
<1>4. QED
  BY <1>1, <1>2, <1>3, PTL DEF FloorSpec
------------------------------------------------------------------------------
(* Verifications *)

VerifyTypes ==
    /\ machine \in [Machines -> MachineRows]
    /\ firstArticle \in [WorkOrders -> (SUBSET Machines) \cup {Nil}]
    /\ inspected \in [WorkOrders -> SUBSET Machines]

\* A verification lasts as long as the machine is fed as its table says.
VerifiedFits == \A m \in Machines : Verified(m) => Fits(m)

VerifyInv == VerifyTypes /\ VerifiedFits /\ PlacedAsVerified

LEMMA VerifyInit == FloorInit => VerifyInv
<1>. SUFFICES ASSUME FloorInit PROVE VerifyInv
  OBVIOUS
<1>1. VerifyTypes
  <2>1. Unbound \in MachineRows
    BY DEF Unbound, MachineRows
  <2>2. /\ machine = [m \in Machines |-> Unbound]
        /\ firstArticle = [o \in WorkOrders |-> Nil]
        /\ inspected = [o \in WorkOrders |-> {}]
    BY Zenon DEF FloorInit
  <2>3. QED
    BY <2>1, <2>2 DEF VerifyTypes
<1>2. VerifiedFits
  BY DEF FloorInit, Unbound, VerifiedFits, Verified
<1>3. PlacedAsVerified
  BY DEF FloorInit, PlacedAsVerified
<1>4. QED
  BY <1>1, <1>2, <1>3 DEF VerifyInv

\* Whether a machine fits depends on its order and on the main reels of its slots.
LEMMA FitsKept ==
    ASSUME NEW m \in Machines, Fits(m), machine'[m].order = machine[m].order,
           \A s \in Slots : slot'[<<m, s>>].main = slot[<<m, s>>].main
    PROVE  Fits(m)'
<1>1. \A s \in Slots : Required(m, s)' = Required(m, s)
  BY DEF Required
<1>2. QED
  BY <1>1 DEF Fits

\* What was placed and inspected stays as good as it was while orders stay on machines.
LEMMA PlacedKept ==
    ASSUME PlacedAsVerified, UNCHANGED <<firstArticle, inspected, misplaced>>,
           \A m \in Machines : machine'[m].order = machine[m].order
    PROVE  PlacedAsVerified'
  BY DEF PlacedAsVerified

\* A machine whose verification is dropped has nothing to fit.
LEMMA UnverifyKeeps ==
    ASSUME VerifyInv, NEW m \in Machines, Unverify(m),
           UNCHANGED <<firstArticle, inspected, misplaced>>,
           \A n \in Machines \ {m}, s \in Slots : slot'[<<n, s>>].main = slot[<<n, s>>].main
    PROVE  VerifyInv'
<1>1. /\ machine' \in [Machines -> MachineRows]
      /\ machine'[m].verified = FALSE
      /\ \A n \in Machines \ {m} : machine'[n] = machine[n]
      /\ \A n \in Machines : machine'[n].order = machine[n].order
  BY DEF VerifyInv, VerifyTypes, MachineRows, Unverify
<1>2. VerifyTypes'
  BY <1>1 DEF VerifyInv, VerifyTypes
<1>3. ASSUME NEW n \in Machines, Verified(n)' PROVE Fits(n)'
  <2>1. n # m
    BY <1>1, <1>3 DEF Verified
  <2>2. Fits(n)
    BY <1>1, <1>3, <2>1 DEF VerifyInv, VerifiedFits, Verified
  <2>3. QED
    BY <1>1, <2>1, <2>2, FitsKept
<1>4. QED
  BY <1>1, <1>2, <1>3, PlacedKept DEF VerifyInv, VerifiedFits

LEMMA VerifyLoad ==
    ASSUME ReelTypes, VerifyInv, NEW m \in Machines, NEW s \in Slots, NEW r \in Reels,
           smtLoad(m, s, r)
    PROVE  VerifyInv'
<1>. DEFINE p == <<m, s>>
<1>1. /\ p \in Places
      /\ UNCHANGED <<firstArticle, inspected, misplaced>>
      /\ \A n \in Machines, t \in Slots : <<n, t>> \in Places
  BY DEF smtLoad, Places
<1>2. ASSUME UNCHANGED machine, \A n \in Machines, t \in Slots :
                                   Verified(n) => slot'[<<n, t>>].main = slot[<<n, t>>].main
      PROVE  VerifyInv'
  <2>1. ASSUME NEW n \in Machines, Verified(n)' PROVE Fits(n)'
    BY <1>2, <2>1, FitsKept DEF VerifyInv, VerifiedFits, Verified
  <2>2. QED
    BY <1>1, <1>2, <2>1, PlacedKept DEF VerifyInv, VerifyTypes, VerifiedFits
<1>3. CASE /\ slot[p].main = Nil
           /\ slot' = [slot EXCEPT ![p].main = r]
           /\ UNCHANGED machine
  <2>1. ~Fits(m)
    BY <1>3 DEF smtLoad, MayScan, Fits
  <2>2. ASSUME NEW n \in Machines, NEW t \in Slots, Verified(n)
        PROVE  slot'[<<n, t>>].main = slot[<<n, t>>].main
    <3>1. <<n, t>> # p
      BY <2>1, <2>2 DEF VerifyInv, VerifiedFits
    <3>2. QED
      BY <1>1, <1>3, <3>1 DEF ReelTypes
  <2>3. QED
    BY <1>2, <1>3, <2>2
<1>4. CASE /\ slot' = [slot EXCEPT ![p].spliced = r]
           /\ UNCHANGED machine
  <2>1. \A q \in Places : slot'[q].main = slot[q].main
    BY <1>1, <1>4 DEF ReelTypes, SlotRows
  <2>2. QED
    BY <1>1, <1>2, <1>4, <2>1
<1>5. CASE /\ slot' = [slot EXCEPT ![p].main = r]
           /\ Unverify(m)
  <2>1. \A n \in Machines \ {m}, t \in Slots : slot'[<<n, t>>].main = slot[<<n, t>>].main
    BY <1>1, <1>5 DEF ReelTypes
  <2>2. QED
    BY <1>1, <1>5, <2>1, UnverifyKeeps
<1>6. QED
  BY <1>3, <1>4, <1>5 DEF smtLoad

LEMMA VerifyUnload ==
    ASSUME ReelTypes, VerifyInv, NEW m \in Machines, NEW s \in Slots, NEW to \in Disposals,
           smtUnload(m, s, to)
    PROVE  VerifyInv'
<1>1. /\ <<m, s>> \in Places
      /\ Unverify(m)
      /\ UNCHANGED <<firstArticle, inspected, misplaced>>
  BY DEF smtUnload, TakeOff, Places
<1>2. \A q \in Places \ {<<m, s>>} : slot'[q] = slot[q]
  BY DEF smtUnload, TakeOff, ReelTypes
<1>3. \A n \in Machines \ {m}, t \in Slots : slot'[<<n, t>>].main = slot[<<n, t>>].main
  BY <1>2 DEF Places
<1>4. QED
  BY <1>1, <1>3, UnverifyKeeps

\* A changeover makes every earlier article void on the machine.
LEMMA VerifyBind ==
    ASSUME VerifyInv, NEW m \in Machines, NEW o \in WorkOrders, smtMachineBind(m, o)
    PROVE  VerifyInv'
<1>1. /\ machine' \in [Machines -> MachineRows]
      /\ machine'[m].verified = FALSE
      /\ \A n \in Machines \ {m} : machine'[n] = machine[n]
      /\ UNCHANGED <<slot, misplaced>>
  BY DEF smtMachineBind, VerifyInv, VerifyTypes, MachineRows
<1>2. /\ firstArticle' \in [WorkOrders -> (SUBSET Machines) \cup {Nil}]
      /\ inspected' \in [WorkOrders -> SUBSET Machines]
      /\ \A w \in WorkOrders : firstArticle'[w] # Nil =>
            /\ firstArticle[w] # Nil
            /\ firstArticle'[w] = firstArticle[w] \ {m}
            /\ inspected'[w] = inspected[w] \ {m}
  BY DEF smtMachineBind, VerifyInv, VerifyTypes
<1>3. ASSUME NEW n \in Machines, Verified(n)' PROVE Fits(n)'
  <2>1. n # m
    BY <1>1, <1>3 DEF Verified
  <2>2. Fits(n)
    BY <1>1, <1>3, <2>1 DEF VerifyInv, VerifiedFits, Verified
  <2>3. QED
    BY <1>1, <2>1, <2>2, FitsKept
<1>4. PlacedAsVerified'
  BY <1>1, <1>2 DEF VerifyInv, PlacedAsVerified
<1>5. QED
  BY <1>1, <1>2, <1>3, <1>4 DEF VerifyInv, VerifyTypes, VerifiedFits

LEMMA VerifyMachine ==
    ASSUME VerifyInv, NEW m \in Machines, smtMachineVerify(m) \/ smtMachineSignOff(m)
    PROVE  VerifyInv'
<1>1. UNCHANGED <<slot, firstArticle, inspected, misplaced>>
  BY Zenon DEF smtMachineVerify, smtMachineSignOff
<1>2. CASE Unverify(m)
  BY <1>1, <1>2, UnverifyKeeps
<1>3. CASE Fits(m) /\ ~Unverify(m)
  <2>1. /\ machine' \in [Machines -> MachineRows]
        /\ \A n \in Machines \ {m} : machine'[n] = machine[n]
        /\ \A n \in Machines : machine'[n].order = machine[n].order
    <3>1. CASE smtMachineVerify(m)
      <4>1. ("signoff_required" \in Settings /\ machine[m].signed) \in BOOLEAN
        OBVIOUS
      <4>2. PICK signed \in BOOLEAN :
               machine' = [machine EXCEPT ![m].verified = TRUE, ![m].signed = signed]
        BY <1>3, <3>1, <4>1, Zenon DEF smtMachineVerify
      <4>3. QED
        BY <4>2 DEF VerifyInv, VerifyTypes, MachineRows
    <3>2. CASE smtMachineSignOff(m)
      BY <3>2 DEF VerifyInv, VerifyTypes, MachineRows, smtMachineSignOff
    <3>3. QED
      BY <3>1, <3>2
  <2>2. ASSUME NEW n \in Machines, Verified(n)' PROVE Fits(n)'
    <3>1. Fits(n)
      BY <1>3, <2>1, <2>2 DEF VerifyInv, VerifiedFits, Verified
    <3>2. QED
      BY <1>1, <2>1, <3>1, FitsKept
  <2>3. QED
    BY <1>1, <2>1, <2>2, PlacedKept DEF VerifyInv, VerifyTypes, VerifiedFits
<1>4. QED
  BY <1>2, <1>3 DEF smtMachineVerify, smtMachineSignOff, VerifyInv, VerifiedFits

\* An article is valid for all machines; those bound to its order are found verified.
LEMMA VerifyInspection ==
    ASSUME VerifyInv, NEW o \in WorkOrders, smtInspectionRecord(o)
    PROVE  VerifyInv'
<1>1. /\ UNCHANGED <<machine, slot, misplaced>>
      /\ firstArticle' = [firstArticle EXCEPT ![o] = Machines]
      /\ inspected' = [inspected EXCEPT ![o] = @ \cup {m \in BoundTo(o) : Verified(m)}]
      /\ "fai_require_verified" \in Settings => \A m \in BoundTo(o) : Verified(m)
  BY DEF smtInspectionRecord
<1>2. VerifyTypes'
  BY <1>1 DEF VerifyInv, VerifyTypes, BoundTo
<1>3. VerifiedFits'
  BY <1>1 DEF VerifyInv, VerifiedFits, Verified, Fits, Required
<1>4. PlacedAsVerified'
  BY <1>1 DEF VerifyInv, VerifyTypes, PlacedAsVerified, BoundTo
<1>5. QED
  BY <1>2, <1>3, <1>4 DEF VerifyInv

\* A placement on a ready machine is one on a machine that fits.
LEMMA ReadyIsNotMisplaced ==
    ASSUME VerifyInv, "pass_require_machine_ready" \in Settings, NEW at, NEW R,
           NEW o, NEW k, NEW m \in Machines \cup {Nil},
           R # {} => \E b : smtValidateUnitStep(at, b, o, k, m)
    PROVE  Misplaced(R, o, k, m) = {}
<1>1. CASE R = {}
  BY <1>1 DEF Misplaced
<1>2. CASE R # {} /\ Route[o][k] = "SMT"
  <2>1. smtRequireMachineReady(m, o)
    BY <1>2 DEF smtValidateUnitStep
  <2>2. m \in Machines /\ Fits(m)
    BY <2>1 DEF smtRequireMachineReady, VerifyInv, VerifiedFits
  <2>3. QED
    BY <2>1, <2>2 DEF Misplaced, smtRequireMachineReady
<1>3. CASE Route[o][k] # "SMT"
  BY <1>3 DEF Misplaced
<1>4. QED
  BY <1>1, <1>2, <1>3

LEMMA VerifyPass ==
    ASSUME VerifyInv, UNCHANGED FloorRest, NEW at, NEW R, NEW o, NEW k,
           NEW m \in Machines \cup {Nil},
           R # {} => \E b : smtValidateUnitStep(at, b, o, k, m),
           misplaced' = misplaced \cup Misplaced(R, o, k, m)
    PROVE  VerifyInv'
<1>1. UNCHANGED <<machine, slot, firstArticle, inspected>>
  BY DEF FloorRest
<1>2. VerifyTypes' /\ VerifiedFits'
  BY <1>1 DEF VerifyInv, VerifyTypes, VerifiedFits, Verified, Fits, Required
<1>3. "pass_require_machine_ready" \in Settings => Misplaced(R, o, k, m) = {}
  BY ReadyIsNotMisplaced
<1>4. PlacedAsVerified'
  BY <1>1, <1>3 DEF VerifyInv, PlacedAsVerified
<1>5. QED
  BY <1>2, <1>4 DEF VerifyInv

LEMMA VerifyPanel ==
    ASSUME VerifyInv, NEW k, NEW n, NEW m \in Machines \cup {Nil}, NEW bad, NEW unknown,
           NEW found, smtPassPanel(k, n, m, bad, unknown, found)
    PROVE  VerifyInv'
<1>1. PICK T : /\ \A b \in T : smtValidateUnitStep(board, b, panel[k].order, n, m)
               /\ misplaced' = misplaced \cup Misplaced(T \ bad, panel[k].order, n, m)
  BY Zenon DEF smtPassPanel
<1>2. UNCHANGED FloorRest
  BY Zenon DEF smtPassPanel
<1>3. T \ bad # {} => \E b : smtValidateUnitStep(board, b, panel[k].order, n, m)
  BY <1>1
<1>4. QED
  BY <1>1, <1>2, <1>3, VerifyPass, Zenon

LEMMA VerifyStep == ReelTypes /\ VerifyInv /\ [FloorNext]_floorVars => VerifyInv'
<1>. SUFFICES ASSUME ReelTypes, VerifyInv, [FloorNext]_floorVars PROVE VerifyInv'
  OBVIOUS
<1>1. CASE UNCHANGED <<machine, slot, firstArticle, inspected, misplaced>>
  BY <1>1 DEF VerifyInv, VerifyTypes, VerifiedFits, Verified, Fits, Required, PlacedAsVerified
<1>2. CASE FloorNext
  <2>1. ASSUME NEW r \in Reels, smtReelTransition(r)
        PROVE  UNCHANGED <<machine, slot, firstArticle, inspected, misplaced>>
    BY <2>1, Zenon DEF smtReelTransition
  <2>2. ASSUME NEW b, NEW o, NEW k, NEW m \in Machines \cup {Nil}, smtUnitPass(b, o, k, m)
        PROVE  VerifyInv'
    <3>1. /\ UNCHANGED FloorRest
          /\ smtValidateUnitStep(board, b, o, k, m)
          /\ misplaced' = misplaced \cup Misplaced({b}, o, k, m)
      BY <2>2, Zenon DEF smtUnitPass
    <3>2. QED
      BY <3>1, VerifyPass, Zenon
  <2>3. QED
    BY <1>1, <1>2, <2>1, <2>2, FloorCases, VerifyInspection, VerifyLoad, VerifyUnload,
       VerifyBind, VerifyMachine, VerifyPanel, Zenon
<1>3. CASE UNCHANGED floorVars
  BY <1>1, <1>3 DEF floorVars
<1>4. QED
  BY <1>2, <1>3

\* Verifications hold what they promise, for any feeder tables, alternates and settings:
\* no board is placed on feeders that differ from the table where ready machines are
\* required (smtRequireMachineReady), and a valid article was inspected on verified
\* machines where that is required (smtInspectionRecord, smtMachineBind).
THEOREM PlacedIsVerified == FloorSpec => []PlacedAsVerified
<1>. DEFINE Inv == ReelsInv /\ VerifyInv
<1>1. FloorInit => Inv
  BY ReelsInit, VerifyInit
<1>2. Inv /\ [FloorNext]_floorVars => Inv'
  BY ReelsStep, VerifyStep DEF ReelsInv
<1>3. Inv => PlacedAsVerified
  BY DEF VerifyInv
<1>4. QED
  BY <1>1, <1>2, <1>3, PTL DEF FloorSpec
------------------------------------------------------------------------------
(* Boards *)

BoardRows == [status : BoardStates, order : WorkOrders \cup {Nil}, last : Nat,
              defects : 0..MaxDefects, panel : Panels \cup {Nil}]

PanelRows == [status : {"none", "active", "split"}, order : WorkOrders \cup {Nil},
              boards : Seq(Boards)]

\* A board without a record has no order; a panel has both its order and its boards or
\* neither.
BoardTypes ==
    /\ board \in [Boards -> BoardRows]
    /\ \A b \in Boards : board[b].status = "none" => board[b].order = Nil
    /\ panel \in [Panels -> PanelRows]
    /\ \A k \in Panels : IF panel[k].status = "none" THEN panel[k].boards = <<>>
                         ELSE panel[k].order \in WorkOrders

Active(o) == {b \in Boards : board[b].order = o
                             /\ board[b].status \in {"in_process", "NG", "finished"}}

\* What PlanOverrunIsOnePanel says of one order.
PlanHolds(o) ==
    "pass_limit_plan_qty" \in Settings /\ Cardinality(Active(o)) > PlanQty =>
        \E k \in Panels : Cardinality(Active(o) \ Range(panel[k].boards)) < PlanQty

BoardsInv == BoardTypes /\ DefectHoldsBoard /\ \A o \in WorkOrders : PlanHolds(o)

\* The steps that change boards or panels.
LEMMA BoardCases ==
    ASSUME FloorNext
    PROVE  \/ UNCHANGED <<board, panel>>
           \/ \E b \in Boards, o \in WorkOrders, m \in Machines \cup {Nil} :
                  \E k \in DOMAIN Route[o] :
                  \/ smtUnitPass(b, o, k, m)
                  \/ \E found \in 1..MaxDefects : smtUnitFail(b, o, k, m, found)
           \/ \E b \in Boards : smtUnitScrap(b)
           \/ \E b \in Boards, d \in {c \in Boards : board[c].defects > 0} \cup {Nil},
                 scrap \in BOOLEAN :
                  smtUnitRepair(b, d, scrap)
           \/ \E k \in Panels : smtPanelSplit(k)
           \/ \E k \in Panels, o \in WorkOrders, boards \in Seq(Boards) :
                  smtPanelBind(k, o, boards)
           \/ \E k \in Panels, found \in 1..MaxDefects : \E n, m, bad, unknown :
                  smtPassPanel(k, n, m, bad, unknown, found)
<1>. DEFINE Quiet == UNCHANGED <<board, panel>>
<1>1. ASSUME NEW o, smtWorkOrderTransition(o) \/ smtInspectionRecord(o) PROVE Quiet
  BY <1>1, Zenon DEF smtWorkOrderTransition, smtInspectionRecord
<1>2. ASSUME NEW r, smtReelTransition(r) PROVE Quiet
  BY <1>2, Zenon DEF smtReelTransition
<1>3. ASSUME NEW m, NEW s, NEW r, smtLoad(m, s, r) \/ ScanMismatch(m, s, r) PROVE Quiet
  BY <1>3, Zenon DEF smtLoad, ScanMismatch
<1>4. ASSUME NEW m, NEW s, NEW to, smtUnload(m, s, to) PROVE Quiet
  BY <1>4, Zenon DEF smtUnload, TakeOff
<1>5. ASSUME NEW m, NEW s, smtMachineSlotLock(m, s) PROVE Quiet
  BY <1>5, Zenon DEF smtMachineSlotLock
<1>6. ASSUME NEW m, NEW o, smtMachineBind(m, o) PROVE Quiet
  BY <1>6, Zenon DEF smtMachineBind
<1>7. ASSUME NEW m, smtMachineVerify(m) \/ smtMachineSignOff(m) PROVE Quiet
  BY <1>7, Zenon DEF smtMachineVerify, smtMachineSignOff
<1>8. ASSUME NEW boards \in BoundedSeq(Boards, MaxPanel) PROVE boards \in Seq(Boards)
  <2>1. PICK n \in 0..MaxPanel : boards \in [1..n -> Boards]
    BY <1>8 DEF BoundedSeq, SeqOf
  <2>2. QED
    BY <2>1
<1>9. QED
  <2>1. CASE \E o \in WorkOrders : smtWorkOrderTransition(o) \/ smtInspectionRecord(o)
    BY <1>1, <2>1, Zenon
  <2>2. CASE \E r \in Reels : smtReelTransition(r)
    BY <1>2, <2>2, Zenon
  <2>3. CASE \E m \in Machines, s \in Slots :
                \/ \E r \in Reels : smtLoad(m, s, r) \/ ScanMismatch(m, s, r)
                \/ \E to \in Disposals : smtUnload(m, s, to)
                \/ smtMachineSlotLock(m, s)
    BY <1>3, <1>4, <1>5, <2>3, Zenon
  <2>4. CASE \E m \in Machines :
                \/ \E o \in WorkOrders : smtMachineBind(m, o)
                \/ smtMachineVerify(m) \/ smtMachineSignOff(m)
    BY <1>6, <1>7, <2>4, Zenon
  <2>5. CASE \E b \in Boards, o \in WorkOrders, m \in Machines \cup {Nil} :
                \E k \in DOMAIN Route[o] :
                    \/ smtUnitPass(b, o, k, m)
                    \/ \E found \in 1..MaxDefects : smtUnitFail(b, o, k, m, found)
    BY <2>5, Zenon
  <2>6. CASE \E b \in Boards :
                \/ smtUnitScrap(b)
                \/ \E d \in {c \in Boards : board[c].defects > 0} \cup {Nil}, scrap \in BOOLEAN :
                      smtUnitRepair(b, d, scrap)
    BY <2>6, Zenon
  <2>7. CASE \E k \in Panels :
                \/ smtPanelSplit(k)
                \/ \E o \in WorkOrders, boards \in BoundedSeq(Boards, MaxPanel) :
                      /\ boards # <<>> /\ IsInjective(boards)
                      /\ smtPanelBind(k, o, boards)
    BY <1>8, <2>7, Zenon
  <2>8. CASE \E k \in Panels :
                \E m \in Machines \cup {Nil}, found \in 1..MaxDefects,
                   bad \in SUBSET Range(panel[k].boards) :
                   \E n \in UNION {DOMAIN Route[o] : o \in WorkOrders}, unknown \in SUBSET bad :
                      smtPassPanel(k, n, m, bad, unknown, found)
    BY <2>8, Zenon
  <2>9. QED
    BY <2>1, <2>2, <2>3, <2>4, <2>5, <2>6, <2>7, <2>8, Zenon DEF FloorNext

LEMMA BoardsInit == FloorInit => BoardsInv
<1>. SUFFICES ASSUME FloorInit PROVE BoardsInv
  OBVIOUS
<1>1. /\ board = [b \in Boards |-> [status |-> "none", order |-> Nil, last |-> 0,
                                    defects |-> 0, panel |-> Nil]]
      /\ panel = [k \in Panels |-> [status |-> "none", order |-> Nil, boards |-> <<>>]]
  BY Zenon DEF FloorInit
<1>2. [status |-> "none", order |-> Nil, last |-> 0, defects |-> 0, panel |-> Nil] \in BoardRows
  BY FloorAssumption DEF BoardRows, BoardStates
<1>3. [status |-> "none", order |-> Nil, boards |-> <<>>] \in PanelRows
  BY DEF PanelRows
<1>4. BoardTypes
  BY <1>1, <1>2, <1>3 DEF BoardTypes
<1>5. DefectHoldsBoard
  BY <1>1 DEF DefectHoldsBoard
<1>6. ASSUME NEW o \in WorkOrders PROVE PlanHolds(o)
  <2>1. Active(o) = {}
    BY <1>1 DEF Active
  <2>2. Cardinality(Active(o)) = 0
    BY <2>1, FS_EmptySet
  <2>3. QED
    BY <2>2, FloorAssumption DEF PlanHolds
<1>7. QED
  BY <1>4, <1>5, <1>6 DEF BoardsInv

LEMMA CountedBoards ==
    ASSUME NEW S, NEW T, S \subseteq T, T \subseteq Boards
    PROVE  /\ IsFiniteSet(S) /\ Cardinality(S) \in Nat /\ Cardinality(T) \in Nat
           /\ Cardinality(S) <= Cardinality(T)
<1>1. IsFiniteSet(T)
  BY FloorAssumption, FS_Subset
<1>2. QED
  BY <1>1, FS_Subset, FS_CardinalityType

\* An order that gets no board keeps its plan; a panel that had no boards may get some.
LEMMA PlanKept ==
    ASSUME NEW o \in WorkOrders, PlanHolds(o), Active(o)' \subseteq Active(o),
           \A k \in Panels : panel'[k].boards = panel[k].boards \/ panel[k].boards = <<>>
    PROVE  PlanHolds(o)'
<1>. SUFFICES ASSUME "pass_limit_plan_qty" \in Settings, Cardinality(Active(o)') > PlanQty
              PROVE  \E k \in Panels :
                        Cardinality(Active(o)' \ Range(panel'[k].boards)) < PlanQty
  BY DEF PlanHolds
<1>1. /\ Cardinality(Active(o)) \in Nat /\ Cardinality(Active(o)') \in Nat /\ PlanQty \in Nat
      /\ Cardinality(Active(o)') <= Cardinality(Active(o))
  BY CountedBoards, FloorAssumption DEF Active
<1>2. PICK k \in Panels : Cardinality(Active(o) \ Range(panel[k].boards)) < PlanQty
  BY <1>1 DEF PlanHolds
<1>3. panel[k].boards # <<>>
  <2>1. ASSUME panel[k].boards = <<>> PROVE FALSE
    <3>1. Active(o) \ Range(panel[k].boards) = Active(o)
      BY <2>1 DEF Range
    <3>2. Cardinality(Active(o) \ Range(panel[k].boards)) = Cardinality(Active(o))
      BY <3>1, Zenon
    <3>3. QED
      BY <1>1, <1>2, <3>2
  <2>2. QED
    BY <2>1
<1>4. Active(o)' \ Range(panel'[k].boards) \subseteq Active(o) \ Range(panel[k].boards)
  BY <1>3
<1>5. /\ Cardinality(Active(o) \ Range(panel[k].boards)) \in Nat
      /\ Cardinality(Active(o)' \ Range(panel'[k].boards)) \in Nat
      /\ Cardinality(Active(o)' \ Range(panel'[k].boards))
            <= Cardinality(Active(o) \ Range(panel[k].boards))
  <2>1. Active(o) \ Range(panel[k].boards) \subseteq Boards
    BY DEF Active
  <2>2. QED
    BY <1>4, <2>1, CountedBoards
<1>6. Cardinality(Active(o)' \ Range(panel'[k].boards)) < PlanQty
  BY <1>1, <1>2, <1>5
<1>7. QED
  BY <1>6, Zenon

\* A board that is let on to a step, by a scan of its own or of its panel.
LEMMA StepRows ==
    ASSUME BoardsInv, NEW b \in Boards, NEW o \in WorkOrders, NEW k \in DOMAIN Route[o], NEW m,
           smtValidateUnitStep(board, b, o, k, m), NEW found \in 1..MaxDefects
    PROVE  /\ board[b].status \in {"none", "in_process"} /\ board[b].defects = 0
           /\ board[b].order \in {Nil, o}
           /\ Passed(board, b, o, k) = [board EXCEPT ![b] = Passed(board, b, o, k)[b]]
           /\ Passed(board, b, o, k)[b] \in BoardRows
           /\ Passed(board, b, o, k)[b].status \in {"in_process", "finished"}
           /\ Passed(board, b, o, k)[b].order = o
           /\ Passed(board, b, o, k)[b].defects = 0
           /\ Failed(board, b, o, found) = [board EXCEPT ![b] = Failed(board, b, o, found)[b]]
           /\ Failed(board, b, o, found)[b] \in BoardRows
           /\ Failed(board, b, o, found)[b].status = "NG"
           /\ Failed(board, b, o, found)[b].order = o
<1>1. PICK row \in BoardRows : row = board[b]
  BY DEF BoardsInv, BoardTypes
<1>2. board[b].status \in {"none", "in_process"} /\ board[b].defects = 0
  <2>1. board[b].status \in {"none", "in_process"}
    BY DEF smtValidateUnitStep
  <2>2. ~(row.defects > 0)
    BY <1>1, <2>1 DEF BoardsInv, DefectHoldsBoard
  <2>3. row.defects \in Nat
    BY FloorAssumption DEF BoardRows
  <2>4. QED
    BY <1>1, <2>1, <2>2, <2>3
<1>3. board[b].order \in {Nil, o}
  BY <1>2 DEF smtValidateUnitStep, BoardsInv, BoardTypes
<1>4. k \in Nat
  BY FloorAssumption
<1>5. PICK next \in BoardRows :
         /\ Passed(board, b, o, k) = [board EXCEPT ![b] = next]
         /\ next.status \in {"in_process", "finished"} /\ next.order = o /\ next.defects = 0
  <2>1. PICK status \in {"in_process", "finished"} :
           status = IF k = Len(Route[o]) THEN "finished" ELSE "in_process"
    OBVIOUS
  <2>2. PICK next : next = [row EXCEPT !.status = status, !.order = o, !.last = k]
    OBVIOUS
  <2>3. Passed(board, b, o, k) = [board EXCEPT ![b] = next]
    BY <1>1, <2>1, <2>2 DEF Passed
  <2>4. /\ next \in BoardRows
        /\ next.status = status /\ next.order = o /\ next.defects = row.defects
    BY <1>4, <2>2 DEF BoardRows, BoardStates
  <2>5. QED
    BY <1>1, <1>2, <2>1, <2>3, <2>4
<1>6. PICK ng \in BoardRows :
         /\ Failed(board, b, o, found) = [board EXCEPT ![b] = ng]
         /\ ng.status = "NG" /\ ng.order = o
  <2>1. row.defects + found = found /\ found \in 0..MaxDefects
    BY <1>1, <1>2, FloorAssumption
  <2>2. PICK ng : ng = [board[b] EXCEPT !.status = "NG", !.order = o, !.defects = @ + found]
    OBVIOUS
  <2>3. Failed(board, b, o, found) = [board EXCEPT ![b] = ng]
    BY <2>2 DEF Failed
  <2>4. ng \in BoardRows /\ ng.status = "NG" /\ ng.order = o
    BY <1>1, <2>1, <2>2 DEF BoardRows, BoardStates
  <2>5. QED
    BY <2>3, <2>4
<1>7. board \in [Boards -> BoardRows]
  BY DEF BoardsInv, BoardTypes
<1>8. Passed(board, b, o, k)[b] = next /\ Failed(board, b, o, found)[b] = ng
  BY <1>5, <1>6, <1>7
<1>9. QED
  BY <1>2, <1>3, <1>5, <1>6, <1>8, Zenon

\* Boards T that were let on to a step pass or fail it, or stay.  When one of them is new,
\* its order was below its plan: one board more keeps it there, and so do the boards of
\* one panel, without them.
LEMMA BoardsMove ==
    ASSUME BoardsInv, NEW o \in WorkOrders, NEW k \in DOMAIN Route[o], NEW m,
           NEW found \in 1..MaxDefects,
           NEW T \in SUBSET Boards, \A b \in T : smtValidateUnitStep(board, b, o, k, m),
           board' = [b \in Boards |-> board'[b]],
           \A b \in Boards :
               \/ board'[b] = board[b]
               \/ b \in T /\ board'[b] \in {Passed(board, b, o, k)[b], Failed(board, b, o, found)[b]},
           panel' \in [Panels -> PanelRows],
           \A p \in Panels : /\ panel'[p].boards = panel[p].boards
                             /\ panel'[p].order = panel[p].order
                             /\ panel'[p].status = "none" <=> panel[p].status = "none",
           \/ \E b \in Boards : T = {b}
           \/ \E p \in Panels : T \subseteq Range(panel[p].boards)
    PROVE  BoardsInv'
<1>1. ASSUME NEW b \in Boards, board'[b] # board[b]
      PROVE  /\ b \in T
             /\ board'[b] \in BoardRows /\ board'[b].order = o
             /\ board'[b].status \in {"in_process", "finished", "NG"}
             /\ board'[b].defects > 0 => board'[b].status = "NG"
             /\ board[b].status \in {"none", "in_process"}
             /\ board[b].order \in {Nil, o}
  <2>1. b \in T /\ smtValidateUnitStep(board, b, o, k, m)
    BY <1>1
  <2>2. CASE board'[b] = Passed(board, b, o, k)[b]
    BY <2>1, <2>2, StepRows
  <2>3. CASE board'[b] = Failed(board, b, o, found)[b]
    BY <2>1, <2>3, StepRows
  <2>4. QED
    BY <1>1, <2>2, <2>3
<1>2. BoardTypes'
  <2>1. \A b \in Boards : board'[b] \in BoardRows
    BY <1>1 DEF BoardsInv, BoardTypes
  <2>2. \A b \in Boards : board'[b].status = "none" => board'[b].order = Nil
    BY <1>1 DEF BoardsInv, BoardTypes
  <2>3. board' \in [Boards -> BoardRows]
    BY <2>1
  <2>4. \A p \in Panels : IF panel'[p].status = "none" THEN panel'[p].boards = <<>>
                          ELSE panel'[p].order \in WorkOrders
    BY DEF BoardsInv, BoardTypes
  <2>5. QED
    BY <2>2, <2>3, <2>4 DEF BoardTypes
<1>3. DefectHoldsBoard'
  BY <1>1 DEF BoardsInv, DefectHoldsBoard
<1>4. ASSUME NEW w \in WorkOrders PROVE PlanHolds(w)'
  <2>1. ASSUME NEW b \in Active(w)', b \notin Active(w)
        PROVE  w = o /\ b \in T /\ board[b].status = "none"
    <3>1. b \in Boards /\ board'[b].order = w /\ board'[b] # board[b]
      BY <2>1 DEF Active
    <3>2. w = o /\ b \in T
      BY <1>1, <3>1
    <3>3. board[b].status = "in_process" => board[b].order = o
      BY <3>2 DEF smtValidateUnitStep
    <3>4. QED
      BY <1>1, <2>1, <3>1, <3>2, <3>3 DEF Active
  <2>2. CASE Active(w)' \subseteq Active(w)
    BY <1>4, <2>2, PlanKept DEF BoardsInv
  <2>3. CASE ~(Active(w)' \subseteq Active(w))
    <3>1. PICK new \in T : w = o /\ board[new].status = "none"
      BY <2>1, <2>3
    <3>. SUFFICES ASSUME "pass_limit_plan_qty" \in Settings, Cardinality(Active(w)') > PlanQty
                  PROVE  \E p \in Panels :
                            Cardinality(Active(w)' \ Range(panel'[p].boards)) < PlanQty
      BY DEF PlanHolds
    <3>2. Cardinality(BoardsOf(board, o)) < PlanQty
      BY <3>1 DEF smtValidateUnitStep
    <3>3. /\ Active(w) \subseteq BoardsOf(board, o) /\ BoardsOf(board, o) \subseteq Boards
          /\ Active(w)' \subseteq Active(w) \cup T
      BY <2>1, <3>1 DEF Active, BoardsOf
    <3>4. /\ IsFiniteSet(Active(w))
          /\ Cardinality(Active(w)) \in Nat /\ PlanQty \in Nat
          /\ Cardinality(Active(w)) < PlanQty
      <4>1. /\ IsFiniteSet(Active(w)) /\ Cardinality(Active(w)) \in Nat
            /\ Cardinality(BoardsOf(board, o)) \in Nat
            /\ Cardinality(Active(w)) <= Cardinality(BoardsOf(board, o))
        BY <3>3, CountedBoards
      <4>2. QED
        BY <3>2, <4>1, FloorAssumption
    <3>5. ASSUME NEW b \in Boards, T = {b} PROVE FALSE
      <4>1. /\ IsFiniteSet(Active(w) \cup {b})
            /\ Cardinality(Active(w) \cup {b}) \in Nat
            /\ Cardinality(Active(w) \cup {b}) <= Cardinality(Active(w)) + 1
        <5>1. /\ IsFiniteSet(Active(w) \cup {b})
              /\ Cardinality(Active(w) \cup {b})
                    = IF b \in Active(w) THEN Cardinality(Active(w)) ELSE Cardinality(Active(w)) + 1
          BY <3>4, FS_AddElement
        <5>2. QED
          BY <3>4, <5>1
      <4>2. Active(w)' \subseteq Active(w) \cup {b} /\ Active(w) \cup {b} \subseteq Boards
        BY <3>3, <3>5
      <4>3. /\ Cardinality(Active(w)') \in Nat
            /\ Cardinality(Active(w)') <= Cardinality(Active(w) \cup {b})
        BY <4>2, CountedBoards
      <4>4. QED
        BY <3>4, <4>1, <4>3
    <3>6. PICK p \in Panels : T \subseteq Range(panel[p].boards)
      BY <3>5
    <3>7. Active(w)' \ Range(panel'[p].boards) \subseteq Active(w)
      BY <3>3, <3>6
    <3>8. /\ Cardinality(Active(w)' \ Range(panel'[p].boards)) \in Nat
          /\ Cardinality(Active(w)' \ Range(panel'[p].boards)) <= Cardinality(Active(w))
      <4>1. Active(w) \subseteq Boards
        BY DEF Active
      <4>2. QED
        BY <3>7, <4>1, CountedBoards
    <3>9. Cardinality(Active(w)' \ Range(panel'[p].boards)) < PlanQty
      BY <3>4, <3>8
    <3>10. QED
      BY <3>9, Zenon
  <2>4. QED
    BY <2>2, <2>3
<1>5. QED
  BY <1>2, <1>3, <1>4 DEF BoardsInv

LEMMA UnitScanKeeps ==
    ASSUME BoardsInv, NEW b \in Boards, NEW o \in WorkOrders, NEW k \in DOMAIN Route[o], NEW m,
           \/ smtUnitPass(b, o, k, m)
           \/ \E found \in 1..MaxDefects : smtUnitFail(b, o, k, m, found)
    PROVE  BoardsInv'
<1>1. PICK found \in 1..MaxDefects : smtUnitPass(b, o, k, m) \/ smtUnitFail(b, o, k, m, found)
  BY FloorAssumption
<1>2. /\ smtValidateUnitStep(board, b, o, k, m)
      /\ board' \in {Passed(board, b, o, k), Failed(board, b, o, found)}
      /\ UNCHANGED panel
  BY <1>1, Zenon DEF smtUnitPass, smtUnitFail
<1>3. \/ board' = [board EXCEPT ![b] = Passed(board, b, o, k)[b]]
      \/ board' = [board EXCEPT ![b] = Failed(board, b, o, found)[b]]
  BY <1>2, StepRows
<1>4. board \in [Boards -> BoardRows] /\ panel \in [Panels -> PanelRows]
  BY DEF BoardsInv, BoardTypes
<1>5. /\ board' = [c \in Boards |-> board'[c]]
      /\ \A c \in Boards :
            \/ board'[c] = board[c]
            \/ /\ c \in {b}
               /\ board'[c] \in {Passed(board, c, o, k)[c], Failed(board, c, o, found)[c]}
  BY <1>3, <1>4
<1>6. /\ \A c \in {b} : smtValidateUnitStep(board, c, o, k, m)
      /\ {b} \in SUBSET Boards
      /\ \E c \in Boards : {b} = {c}
      /\ panel' \in [Panels -> PanelRows]
      /\ \A p \in Panels : /\ panel'[p].boards = panel[p].boards
                           /\ panel'[p].order = panel[p].order
                           /\ panel'[p].status = "none" <=> panel[p].status = "none"
  BY <1>2, <1>4
<1>7. QED
  BY <1>5, <1>6, BoardsMove

\* What a panel scan does to each of its boards follows from what it does at once: who of
\* the bad boards fail is settled in their order, but each passes, fails or stays.
LEMMA PanelScanKeeps ==
    ASSUME BoardsInv, NEW p \in Panels, NEW n, NEW m, NEW bad, NEW unknown,
           NEW found \in 1..MaxDefects, smtPassPanel(p, n, m, bad, unknown, found)
    PROVE  BoardsInv'
<1>1. PICK o : o = panel[p].order
  OBVIOUS
<1>2. PICK T, failed :
         /\ T \subseteq Range(panel[p].boards)
         /\ n \in DOMAIN Route[o] /\ panel[p].status = "active"
         /\ \A b \in T : smtValidateUnitStep(board, b, o, n, m)
         /\ board' = Judged(T, bad, failed, o, n, found)
         /\ panel' \in {panel, [panel EXCEPT ![p].status = "split"]}
  BY <1>1 DEF smtPassPanel
<1>3. board \in [Boards -> BoardRows] /\ panel \in [Panels -> PanelRows]
  BY DEF BoardsInv, BoardTypes
<1>4. o \in WorkOrders /\ n \in DOMAIN Route[o]
  BY <1>1, <1>2 DEF BoardsInv, BoardTypes
<1>5. T \in SUBSET Boards
  <2>1. panel[p].boards \in Seq(Boards)
    BY <1>3 DEF PanelRows
  <2>2. Range(panel[p].boards) \subseteq Boards
    BY <2>1 DEF Range
  <2>3. QED
    BY <1>2, <2>2
<1>6. /\ board' = [b \in Boards |-> board'[b]]
      /\ \A b \in Boards :
            \/ board'[b] = board[b]
            \/ b \in T /\ board'[b] \in {Passed(board, b, o, n)[b], Failed(board, b, o, found)[b]}
  BY <1>2 DEF Judged
<1>7. /\ panel' \in [Panels -> PanelRows]
      /\ \A q \in Panels : /\ panel'[q].boards = panel[q].boards
                           /\ panel'[q].order = panel[q].order
                           /\ panel'[q].status = "none" <=> panel[q].status = "none"
  <2>1. CASE panel' = panel
    BY <1>3, <2>1
  <2>2. CASE panel' = [panel EXCEPT ![p].status = "split"]
    BY <1>2, <1>3, <2>2 DEF PanelRows
  <2>3. QED
    BY <1>2, <2>1, <2>2
<1>8. \E q \in Panels : T \subseteq Range(panel[q].boards)
  BY <1>2
<1>9. QED
  BY <1>2, <1>4, <1>5, <1>6, <1>7, <1>8, BoardsMove

\* No order gets a board, and panels stay as they are or get their boards.
LEMMA BoardsStay ==
    ASSUME BoardsInv, board' \in [Boards -> BoardRows],
           \A b \in Boards :
              /\ board'[b].status = "none" <=> board[b].status = "none"
              /\ board'[b].order = board[b].order
              /\ board'[b].status \in {"in_process", "NG", "finished"} =>
                    board[b].status \in {"in_process", "NG", "finished"}
              /\ board'[b].defects > 0 => board'[b].status \in {"NG", "scrapped"},
           panel' \in [Panels -> PanelRows],
           \A p \in Panels :
              /\ IF panel'[p].status = "none" THEN panel'[p].boards = <<>>
                 ELSE panel'[p].order \in WorkOrders
              /\ panel'[p].boards = panel[p].boards \/ panel[p].boards = <<>>
    PROVE  BoardsInv'
<1>1. BoardTypes'
  BY DEF BoardsInv, BoardTypes
<1>2. DefectHoldsBoard'
  BY DEF DefectHoldsBoard
<1>3. ASSUME NEW o \in WorkOrders PROVE PlanHolds(o)'
  <2>1. Active(o)' \subseteq Active(o)
    BY DEF Active
  <2>2. QED
    BY <1>3, <2>1, PlanKept DEF BoardsInv
<1>4. QED
  BY <1>1, <1>2, <1>3 DEF BoardsInv

\* The board whose defect is closed is as it was but for that defect.
LEMMA ClosedDefect ==
    ASSUME BoardsInv, NEW d \in {c \in Boards : board[c].defects > 0} \cup {Nil}
    PROVE  /\ DefectClosed(d) \in [Boards -> BoardRows]
           /\ \A b \in Boards : /\ DefectClosed(d)[b].status = board[b].status
                                /\ DefectClosed(d)[b].order = board[b].order
                                /\ DefectClosed(d)[b].defects > 0 => board[b].defects > 0
<1>1. board \in [Boards -> BoardRows]
  BY DEF BoardsInv, BoardTypes
<1>2. CASE d = Nil
  BY <1>1, <1>2 DEF DefectClosed
<1>3. CASE d # Nil
  <2>1. d \in Boards /\ board[d] \in BoardRows /\ board[d].defects > 0
    BY <1>1, <1>3
  <2>2. board[d].defects - 1 \in 0..MaxDefects
    BY <2>1, FloorAssumption DEF BoardRows
  <2>3. PICK row : row = [board[d] EXCEPT !.defects = board[d].defects - 1]
    OBVIOUS
  <2>4. row \in BoardRows /\ row.status = board[d].status /\ row.order = board[d].order
    BY <2>1, <2>2, <2>3 DEF BoardRows
  <2>5. DefectClosed(d) = [board EXCEPT ![d] = row]
    BY <1>3, <2>3 DEF DefectClosed
  <2>6. QED
    BY <1>1, <2>1, <2>4, <2>5
<1>4. QED
  BY <1>2, <1>3

\* Board b is scrapped, after a defect of some board was closed or not.
LEMMA ScrapKeeps ==
    ASSUME BoardsInv, NEW b \in Boards, board[b].status # "none",
           NEW at \in [Boards -> BoardRows],
           \A c \in Boards : /\ at[c].status = board[c].status /\ at[c].order = board[c].order
                             /\ at[c].defects > 0 => board[c].defects > 0,
           board' = Scrapped(at, b), UNCHANGED panel
    PROVE  BoardsInv'
<1>1. PICK row \in BoardRows : row.status = "scrapped" /\ row.order = board[b].order
                               /\ board' = [at EXCEPT ![b] = row]
  <2>1. PICK row : row = [at[b] EXCEPT !.status = "scrapped", !.last = 0]
    OBVIOUS
  <2>2. board' = [at EXCEPT ![b] = row]
    BY <2>1 DEF Scrapped
  <2>3. row \in BoardRows /\ row.status = "scrapped" /\ row.order = at[b].order
    BY <2>1 DEF BoardRows, BoardStates
  <2>4. QED
    BY <2>2, <2>3
<1>2. /\ board' \in [Boards -> BoardRows]
      /\ board'[b] = row /\ \A c \in Boards : c # b => board'[c] = at[c]
  BY <1>1
<1>3. QED
  BY <1>1, <1>2, BoardsStay DEF BoardsInv, BoardTypes, DefectHoldsBoard

LEMMA UnitScrapKeeps ==
    ASSUME BoardsInv, NEW b \in Boards, smtUnitScrap(b)
    PROVE  BoardsInv'
<1>1. board[b].status # "none" /\ board' = Scrapped(board, b) /\ UNCHANGED panel
  BY DEF smtUnitScrap
<1>2. board \in [Boards -> BoardRows]
  BY DEF BoardsInv, BoardTypes
<1>3. QED
  BY <1>1, <1>2, ScrapKeeps

\* A board goes on only when none of its own defects is open.
LEMMA UnitRepairKeeps ==
    ASSUME BoardsInv, NEW b \in Boards,
           NEW d \in {c \in Boards : board[c].defects > 0} \cup {Nil}, NEW scrap \in BOOLEAN,
           smtUnitRepair(b, d, scrap)
    PROVE  BoardsInv'
<1>1. PICK after \in [Boards -> BoardRows] :
         /\ after = DefectClosed(d)
         /\ \A c \in Boards : /\ after[c].status = board[c].status
                              /\ after[c].order = board[c].order
                              /\ after[c].defects > 0 => board[c].defects > 0
  BY ClosedDefect
<1>2. /\ board[b].status = "NG" /\ UNCHANGED panel
      /\ board' = IF scrap THEN Scrapped(after, b)
                  ELSE IF after[b].defects = 0 THEN [after EXCEPT ![b].status = "in_process"]
                  ELSE after
  BY <1>1 DEF smtUnitRepair
<1>3. CASE scrap
  BY <1>1, <1>2, <1>3, ScrapKeeps
<1>4. CASE ~scrap /\ after[b].defects = 0
  <2>1. PICK row \in BoardRows : row.status = "in_process" /\ row.order = after[b].order
                                 /\ row.defects = 0 /\ board' = [after EXCEPT ![b] = row]
    <3>1. PICK row : row = [after[b] EXCEPT !.status = "in_process"]
      OBVIOUS
    <3>2. board' = [after EXCEPT ![b] = row]
      BY <1>2, <1>4, <3>1
    <3>3. /\ row \in BoardRows /\ row.status = "in_process"
          /\ row.order = after[b].order /\ row.defects = after[b].defects
      BY <3>1 DEF BoardRows, BoardStates
    <3>4. QED
      BY <1>4, <3>2, <3>3
  <2>2. /\ board' \in [Boards -> BoardRows]
        /\ board'[b] = row /\ \A c \in Boards : c # b => board'[c] = after[c]
    BY <2>1
  <2>3. QED
    BY <1>1, <1>2, <2>1, <2>2, BoardsStay DEF BoardsInv, BoardTypes, DefectHoldsBoard
<1>5. CASE ~scrap /\ after[b].defects # 0
  <2>1. board' = after
    BY <1>2, <1>5
  <2>2. QED
    BY <1>1, <1>2, <2>1, BoardsStay DEF BoardsInv, BoardTypes, DefectHoldsBoard
<1>6. QED
  BY <1>3, <1>4, <1>5

LEMMA PanelBindKeeps ==
    ASSUME BoardsInv, NEW k \in Panels, NEW o \in WorkOrders, NEW boards \in Seq(Boards),
           smtPanelBind(k, o, boards)
    PROVE  BoardsInv'
<1>1. /\ panel[k].status = "none" /\ panel[k].boards = <<>>
      /\ panel \in [Panels -> PanelRows] /\ board \in [Boards -> BoardRows]
  BY DEF smtPanelBind, BoardsInv, BoardTypes
<1>2. PICK row \in PanelRows :
         /\ row.status = "active" /\ row.order = o
         /\ panel' = [panel EXCEPT ![k] = row]
  <2>1. PICK row : row = [status |-> "active", order |-> o, boards |-> boards]
    OBVIOUS
  <2>2. row \in PanelRows /\ row.status = "active" /\ row.order = o
    BY <2>1 DEF PanelRows
  <2>3. panel' = [panel EXCEPT ![k] = row]
    BY <2>1, Zenon DEF smtPanelBind
  <2>4. QED
    BY <2>2, <2>3
<1>3. /\ panel' \in [Panels -> PanelRows]
      /\ panel'[k] = row /\ \A p \in Panels : p # k => panel'[p] = panel[p]
  BY <1>1, <1>2
<1>4. /\ board' = [b \in Boards |-> board'[b]]
      /\ \A b \in Boards : board'[b] = board[b] \/ board'[b] = [board[b] EXCEPT !.panel = k]
  BY DEF smtPanelBind
<1>5. ASSUME NEW b \in Boards
      PROVE  /\ board'[b] \in BoardRows
             /\ board'[b].status = board[b].status /\ board'[b].order = board[b].order
             /\ board'[b].defects = board[b].defects
  <2>1. board[b] \in BoardRows
    BY <1>1
  <2>2. CASE board'[b] = [board[b] EXCEPT !.panel = k]
    <3>1. PICK told : told = [board[b] EXCEPT !.panel = k]
      OBVIOUS
    <3>2. /\ told \in BoardRows /\ told.status = board[b].status
          /\ told.order = board[b].order /\ told.defects = board[b].defects
      BY <2>1, <3>1 DEF BoardRows
    <3>3. board'[b] = told
      BY <2>2, <3>1
    <3>4. QED
      BY <3>2, <3>3
  <2>3. CASE board'[b] = board[b]
    BY <2>1, <2>3
  <2>4. QED
    BY <1>4, <2>2, <2>3
<1>6. board' \in [Boards -> BoardRows]
  BY <1>4, <1>5
<1>7. \A p \in Panels :
         /\ IF panel'[p].status = "none" THEN panel'[p].boards = <<>>
            ELSE panel'[p].order \in WorkOrders
         /\ panel'[p].boards = panel[p].boards \/ panel[p].boards = <<>>
  BY <1>1, <1>2, <1>3 DEF BoardsInv, BoardTypes
<1>8. \A b \in Boards : board'[b].defects > 0 => board'[b].status \in {"NG", "scrapped"}
  BY <1>5 DEF BoardsInv, DefectHoldsBoard
<1>9. QED
  BY <1>3, <1>5, <1>6, <1>7, <1>8, BoardsStay

LEMMA PanelSplitKeeps ==
    ASSUME BoardsInv, NEW k \in Panels, smtPanelSplit(k)
    PROVE  BoardsInv'
<1>1. /\ panel[k].status = "active" /\ UNCHANGED board
      /\ panel' = [panel EXCEPT ![k].status = "split"]
      /\ panel \in [Panels -> PanelRows] /\ board \in [Boards -> BoardRows]
  BY DEF smtPanelSplit, BoardsInv, BoardTypes
<1>2. /\ panel' \in [Panels -> PanelRows]
      /\ \A p \in Panels : /\ panel'[p].boards = panel[p].boards
                           /\ panel'[p].order = panel[p].order
                           /\ panel'[p].status = "none" <=> panel[p].status = "none"
  BY <1>1 DEF PanelRows
<1>3. QED
  BY <1>1, <1>2, BoardsStay DEF BoardsInv, BoardTypes, DefectHoldsBoard

LEMMA BoardsStep == BoardsInv /\ [FloorNext]_floorVars => BoardsInv'
<1>. SUFFICES ASSUME BoardsInv, [FloorNext]_floorVars PROVE BoardsInv'
  OBVIOUS
<1>1. CASE UNCHANGED <<board, panel>>
  BY <1>1 DEF BoardsInv, BoardTypes, DefectHoldsBoard, PlanHolds, Active
<1>2. CASE FloorNext
  BY <1>1, <1>2, BoardCases, UnitScanKeeps, UnitScrapKeeps, UnitRepairKeeps, PanelSplitKeeps,
     PanelBindKeeps, PanelScanKeeps, Zenon
<1>3. CASE UNCHANGED floorVars
  BY <1>1, <1>3 DEF floorVars
<1>4. QED
  BY <1>2, <1>3

LEMMA BoardsInvHolds == FloorSpec => []BoardsInv
<1>1. FloorInit => BoardsInv
  BY BoardsInit
<1>2. BoardsInv /\ [FloorNext]_floorVars => BoardsInv'
  BY BoardsStep
<1>3. QED
  BY <1>1, <1>2, PTL DEF FloorSpec

\* A board with an open defect is held until its repair (smtUnitRepair) or is scrapped, for
\* any routes, panels and settings: neither its own scan (smtUnitPass) nor one of its panel
\* (smtPassPanel) lets it go on.
THEOREM DefectsHold == FloorSpec => []DefectHoldsBoard
<1>1. BoardsInv => DefectHoldsBoard
  BY DEF BoardsInv
<1>2. QED
  BY <1>1, BoardsInvHolds, PTL

\* However many boards a panel has, an order is beyond its plan by those of one panel only,
\* which were let in together (smtPassPanel validates all of them before it applies one).
THEOREM OverrunIsOnePanel == FloorSpec => []PlanOverrunIsOnePanel
<1>1. BoardsInv => PlanOverrunIsOnePanel
  BY DEF BoardsInv, PlanHolds, Active, PlanOverrunIsOnePanel
<1>2. QED
  BY <1>1, BoardsInvHolds, PTL

------------------------------------------------------------------------------
(* Types *)

RestTypes ==
    /\ order \in [WorkOrders -> OrderStates]
    /\ locked \subseteq Places
    /\ misplaced \subseteq Boards

LEMMA RestInit == FloorInit => RestTypes
  BY DEF FloorInit, RestTypes, OrderStates

LEMMA RestStep == RestTypes /\ BoardTypes /\ [FloorNext]_floorVars => RestTypes'
<1>. SUFFICES ASSUME RestTypes, BoardTypes, [FloorNext]_floorVars PROVE RestTypes'
  OBVIOUS
<1>1. CASE UNCHANGED <<order, locked, misplaced>>
  BY <1>1 DEF RestTypes
<1>2. ASSUME NEW boards \in SUBSET Boards, NEW o, NEW k, NEW m, UNCHANGED <<order, locked>>,
             misplaced' = misplaced \cup Misplaced(boards, o, k, m)
      PROVE  RestTypes'
  BY <1>2 DEF RestTypes, Misplaced
<1>3. ASSUME NEW o, smtWorkOrderTransition(o) \/ smtInspectionRecord(o) PROVE RestTypes'
  BY <1>3 DEF smtWorkOrderTransition, smtInspectionRecord, RestTypes, OrderStates
<1>4. ASSUME NEW r, smtReelTransition(r) PROVE RestTypes'
  BY <1>1, <1>4, Zenon DEF smtReelTransition
<1>5. ASSUME NEW m \in Machines, NEW s \in Slots, NEW r, smtLoad(m, s, r) \/ ScanMismatch(m, s, r)
      PROVE  RestTypes'
  BY <1>5 DEF smtLoad, ScanMismatch, RestTypes, Places
<1>6. ASSUME NEW m, NEW s, NEW to, smtUnload(m, s, to) PROVE RestTypes'
  BY <1>1, <1>6, Zenon DEF smtUnload, TakeOff
<1>7. ASSUME NEW m \in Machines, NEW s \in Slots, smtMachineSlotLock(m, s) PROVE RestTypes'
  BY <1>7 DEF smtMachineSlotLock, RestTypes, Places
<1>8. ASSUME NEW m, NEW o, smtMachineBind(m, o) \/ smtMachineVerify(m) \/ smtMachineSignOff(m)
      PROVE  RestTypes'
  BY <1>1, <1>8, Zenon DEF smtMachineBind, smtMachineVerify, smtMachineSignOff
<1>9. ASSUME NEW b \in Boards, NEW o, NEW k, NEW m, smtUnitPass(b, o, k, m) PROVE RestTypes'
  <2>1. {b} \in SUBSET Boards
    OBVIOUS
  <2>2. UNCHANGED <<order, locked>> /\ misplaced' = misplaced \cup Misplaced({b}, o, k, m)
    BY <1>9, Zenon DEF smtUnitPass, FloorRest
  <2>3. QED
    BY <1>2, <2>1, <2>2
<1>10. ASSUME NEW b, NEW o, NEW k, NEW m, NEW found, smtUnitFail(b, o, k, m, found)
       PROVE  RestTypes'
  BY <1>1, <1>10, Zenon DEF smtUnitFail, FloorRest
<1>11. ASSUME NEW b, NEW d, NEW scrap, smtUnitScrap(b) \/ smtUnitRepair(b, d, scrap)
       PROVE  RestTypes'
  BY <1>1, <1>11, Zenon DEF smtUnitScrap, smtUnitRepair, FloorRest
<1>12. ASSUME NEW k, NEW o, NEW boards, smtPanelSplit(k) \/ smtPanelBind(k, o, boards)
       PROVE  RestTypes'
  BY <1>1, <1>12, Zenon DEF smtPanelSplit, smtPanelBind, FloorRest
<1>13. ASSUME NEW p \in Panels, NEW n, NEW m, NEW bad, NEW unknown, NEW found,
              smtPassPanel(p, n, m, bad, unknown, found)
       PROVE  RestTypes'
  <2>1. PICK T : /\ T \subseteq Range(panel[p].boards)
                 /\ misplaced' = misplaced \cup Misplaced(T, panel[p].order, n, m)
                 /\ UNCHANGED <<order, locked>>
    BY <1>13 DEF smtPassPanel, FloorRest
  <2>2. Range(panel[p].boards) \subseteq Boards
    <3>1. panel[p].boards \in Seq(Boards)
      BY DEF BoardTypes, PanelRows
    <3>2. QED
      BY <3>1 DEF Range
  <2>3. QED
    BY <1>2, <2>1, <2>2
<1>14. CASE FloorNext
  <2>1. CASE \E o \in WorkOrders : smtWorkOrderTransition(o) \/ smtInspectionRecord(o)
    BY <1>3, <2>1, Zenon
  <2>2. CASE \E r \in Reels : smtReelTransition(r)
    BY <1>4, <2>2, Zenon
  <2>3. CASE \E m \in Machines, s \in Slots :
                \/ \E r \in Reels : smtLoad(m, s, r) \/ ScanMismatch(m, s, r)
                \/ \E to \in Disposals : smtUnload(m, s, to)
                \/ smtMachineSlotLock(m, s)
    BY <1>5, <1>6, <1>7, <2>3, Zenon
  <2>4. CASE \E m \in Machines :
                \/ \E o \in WorkOrders : smtMachineBind(m, o)
                \/ smtMachineVerify(m) \/ smtMachineSignOff(m)
    BY <1>8, <2>4, Zenon
  <2>5. CASE \E b \in Boards, o \in WorkOrders, m \in Machines \cup {Nil} :
                \E k \in DOMAIN Route[o] :
                    \/ smtUnitPass(b, o, k, m)
                    \/ \E found \in 1..MaxDefects : smtUnitFail(b, o, k, m, found)
    BY <1>9, <1>10, <2>5, Zenon
  <2>6. CASE \E b \in Boards :
                \/ smtUnitScrap(b)
                \/ \E d \in {c \in Boards : board[c].defects > 0} \cup {Nil}, scrap \in BOOLEAN :
                      smtUnitRepair(b, d, scrap)
    BY <1>11, <2>6, Zenon
  <2>7. CASE \E k \in Panels :
                \/ smtPanelSplit(k)
                \/ \E o \in WorkOrders, boards \in BoundedSeq(Boards, MaxPanel) :
                      /\ boards # <<>> /\ IsInjective(boards)
                      /\ smtPanelBind(k, o, boards)
    BY <1>12, <2>7, Zenon
  <2>8. CASE \E k \in Panels :
                \E m \in Machines \cup {Nil}, found \in 1..MaxDefects,
                   bad \in SUBSET Range(panel[k].boards) :
                   \E n \in UNION {DOMAIN Route[o] : o \in WorkOrders}, unknown \in SUBSET bad :
                      smtPassPanel(k, n, m, bad, unknown, found)
    BY <1>13, <2>8, Zenon
  <2>9. QED
    BY <1>14, <2>1, <2>2, <2>3, <2>4, <2>5, <2>6, <2>7, <2>8, Zenon DEF FloorNext
<1>15. CASE UNCHANGED floorVars
  BY <1>1, <1>15 DEF floorVars
<1>16. QED
  BY <1>14, <1>15

\* Every row has one of its types, and a slot with a spliced reel has a main reel: a reel
\* taken off lets the spliced one move up (smtUnload, smtLoad).  No board has more open
\* defects than one scan found: it fails only when it has none.
THEOREM FloorTypesCorrect == FloorSpec => []FloorTypeOK
<1>. DEFINE Inv == ReelsInv /\ VerifyInv /\ BoardsInv /\ RestTypes
<1>1. FloorInit => Inv
  BY ReelsInit, VerifyInit, BoardsInit, RestInit
<1>2. Inv /\ [FloorNext]_floorVars => Inv'
  BY ReelsStep, VerifyStep, BoardsStep, RestStep DEF ReelsInv, BoardsInv
<1>3. Inv => FloorTypeOK
  <2>1. SUFFICES ASSUME Inv PROVE FloorTypeOK
    OBVIOUS
  <2>2. /\ slot \in [Places -> SlotRows] /\ reel \in [Reels -> ReelRows]
        /\ doubled \subseteq Reels
        /\ \A p \in Places : slot[p].main = Nil => slot[p].spliced = Nil
    BY <2>1 DEF ReelsInv, ReelTypes
  <2>3. /\ machine \in [Machines -> MachineRows]
        /\ firstArticle \in [WorkOrders -> (SUBSET Machines) \cup {Nil}]
        /\ inspected \in [WorkOrders -> SUBSET Machines]
    BY <2>1 DEF VerifyInv, VerifyTypes
  <2>4. /\ board \in [Boards -> BoardRows] /\ panel \in [Panels -> PanelRows]
        /\ order \in [WorkOrders -> OrderStates] /\ locked \subseteq Places
        /\ misplaced \subseteq Boards
    BY <2>1 DEF BoardsInv, BoardTypes, RestTypes
  <2>5. /\ DOMAIN panel = Panels
        /\ \A k \in Panels : /\ panel[k].status \in {"none", "active", "split"}
                             /\ panel[k].order \in WorkOrders \cup {Nil}
                             /\ panel[k].boards \in Seq(Boards)
    BY <2>4 DEF PanelRows
  <2>6. QED
    BY <2>2, <2>3, <2>4, <2>5, Zenon DEF FloorTypeOK, SlotRows, ReelRows, MachineRows, BoardRows
<1>4. QED
  BY <1>1, <1>2, <1>3, PTL DEF FloorSpec
==============================================================================

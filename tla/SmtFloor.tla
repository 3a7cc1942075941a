------------------------------ MODULE SmtFloor ------------------------------
(***************************************************************************)
(* The shop floor of the SMT solution: reels of parts that are loaded on    *)
(* the feeder slots of placement machines, the verification of a machine    *)
(* against its feeder table, the first article of a work order, and the     *)
(* boards that pass, fail, are repaired and scrapped along their route,     *)
(* singly or as a panel.                                                    *)
(*                                                                          *)
(* Each scan or operator action is a transaction under the tenant's         *)
(* advisory lock (RunAction), so it is one action here.  A refused scan     *)
(* writes a log row only and has no action, except where it locks a slot.   *)
(*                                                                          *)
(* Feeder tables, routes, parts lists and settings are fixed.  Not          *)
(* modelled: quantities on reels and orders, low-material alerts, andon     *)
(* calls and downtimes; receipt and labels of reels, the order a reel was   *)
(* issued to and the owner policy; requisitions, whose issue of a reel is   *)
(* that of the reel itself; records an edge instance mirrors; hand edits of *)
(* the machine and work order records, which the general editor allows.     *)
(* The bad boards of one panel scan get the same number of defects.         *)
(***************************************************************************)
EXTENDS Integers, FiniteSets, SequencesExt

CONSTANTS
    WorkOrders, Machines, Slots, Reels, Boards, Panels,
    PartOf,           \* the part on each reel
    Table,            \* feeder table: the part an order needs in a slot of a machine, or Nil
    BomAlternates,    \* parts that may be loaded in place of a part
    TableAlternates,  \* parts that a verification accepts in place of a part
    Route,            \* the types of an order's operations, in order; <<>>: it has no route
    PlanQty,          \* boards a work order asks for
    Settings,         \* the boolean settings in force
    MaxPanel,         \* bound: boards on a panel
    MaxDefects,       \* bound: defects found in one scan
    Nil               \* no reel, part, order, machine or panel

AllSettings == {"require_issued_before_load", "lock_on_mismatch", "signoff_required",
                "fai_required", "fai_require_verified", "pass_require_machine_ready",
                "pass_limit_plan_qty"}

ASSUME FloorAssumption ==
    /\ Route \in [WorkOrders -> Seq({"SMT", "TEST", "DEPANEL"})]
    /\ PlanQty \in Nat \ {0} /\ MaxPanel \in Nat \ {0} /\ MaxDefects \in Nat \ {0}
    /\ Settings \subseteq AllSettings
    /\ Nil \notin WorkOrders \cup Machines \cup (Machines \X Slots) \cup Reels \cup Panels
    /\ DOMAIN PartOf = Reels
    /\ IsFiniteSet(Boards)

VARIABLES
    order,         \* state of each work order
    machine,       \* order a machine is bound to, whether it is verified and signed off
    slot,          \* the reel a slot feeds from, and the one spliced to its end
    locked,        \* slots that take no reel
    reel,          \* status of each reel and the slot its record names
    firstArticle,  \* machines for which an order's passed inspection is valid; Nil: none
    board,         \* status, order, last step passed, open defects and panel of each board
    panel,         \* state, order and boards of each panel
    doubled,       \* history: reels that were spliced to themselves
    inspected,     \* history: machines that were verified when an order's article passed
    misplaced      \* history: boards placed on a machine that did not fit its table

floorVars == <<order, machine, slot, locked, reel, firstArticle, board, panel,
               doubled, inspected, misplaced>>

\* An order that was finished is as one before its start.
OrderStates == {"idle", "running", "closed"}

\* "gone" stands for empty, scrapped, lost and returned to the customer: no way leads back.
ReelStates == {"in_stock", "issued", "loaded", "gone"}

BoardStates == {"none", "in_process", "NG", "finished", "scrapped"}

Places == Machines \X Slots

Unbound == [order |-> Nil, verified |-> FALSE, signed |-> FALSE]

FloorTypeOK ==
    /\ order \in [WorkOrders -> OrderStates]
    /\ machine \in [Machines -> [order : WorkOrders \cup {Nil},
                                 verified : BOOLEAN, signed : BOOLEAN]]
    /\ slot \in [Places -> [main : Reels \cup {Nil}, spliced : Reels \cup {Nil}]]
    /\ \A p \in Places : slot[p].main = Nil => slot[p].spliced = Nil
    /\ locked \subseteq Places
    /\ reel \in [Reels -> [status : ReelStates, place : Places \cup {Nil}]]
    /\ firstArticle \in [WorkOrders -> (SUBSET Machines) \cup {Nil}]
    /\ board \in [Boards -> [status : BoardStates, order : WorkOrders \cup {Nil},
                             last : Nat, defects : 0..MaxDefects,
                             panel : Panels \cup {Nil}]]
    /\ DOMAIN panel = Panels
    /\ \A k \in Panels : /\ panel[k].status \in {"none", "active", "split"}
                         /\ panel[k].order \in WorkOrders \cup {Nil}
                         /\ panel[k].boards \in Seq(Boards)
    /\ doubled \subseteq Reels /\ misplaced \subseteq Boards
    /\ inspected \in [WorkOrders -> SUBSET Machines]

FloorInit ==
    /\ order = [o \in WorkOrders |-> "idle"]
    /\ machine = [m \in Machines |-> Unbound]
    /\ slot = [p \in Places |-> [main |-> Nil, spliced |-> Nil]]
    /\ locked = {}
    /\ reel = [r \in Reels |-> [status |-> "in_stock", place |-> Nil]]
    /\ firstArticle = [o \in WorkOrders |-> Nil]
    /\ board = [b \in Boards |-> [status |-> "none", order |-> Nil, last |-> 0,
                                  defects |-> 0, panel |-> Nil]]
    /\ panel = [k \in Panels |-> [status |-> "none", order |-> Nil, boards |-> <<>>]]
    /\ doubled = {} /\ misplaced = {}
    /\ inspected = [o \in WorkOrders |-> {}]

------------------------------------------------------------------------------
(* Work orders and inspections *)

smtWorkOrderTransition(o) ==
    /\ \/ order[o] = "idle" /\ order' = [order EXCEPT ![o] = "running"]    \* start
       \/ order[o] = "running" /\ order' = [order EXCEPT ![o] = "idle"]    \* finish
       \/ order[o] # "closed" /\ order' = [order EXCEPT ![o] = "closed"]   \* close
    /\ UNCHANGED <<machine, slot, locked, reel, firstArticle, board, panel, doubled,
                   inspected, misplaced>>

BoundTo(o) == {m \in Machines : machine[m].order = o}

Verified(m) == machine[m].verified

\* A first article passed; one that failed leaves earlier ones as they are.  An inspection
\* and a changeover in the same second, which void each other in the code, are ordered here.
smtInspectionRecord(o) ==
    /\ order[o] = "running"
    /\ "fai_require_verified" \in Settings => \A m \in BoundTo(o) : Verified(m)
    /\ firstArticle' = [firstArticle EXCEPT ![o] = Machines]
    /\ inspected' = [inspected EXCEPT ![o] = @ \cup {m \in BoundTo(o) : Verified(m)}]
    /\ UNCHANGED <<order, machine, slot, locked, reel, board, panel, doubled, misplaced>>

------------------------------------------------------------------------------
(* Reels and feeders *)

\* Mutant: only main reels are looked at.
MainLoading(r) == \E p \in Places : r = slot[p].main

ActiveLoading(r) == \E p \in Places : r \in {slot[p].main, slot[p].spliced}

smtReelTransition(r) ==
    /\ \/ /\ reel[r].status = "in_stock"                                   \* issue
          /\ reel' = [reel EXCEPT ![r].status = "issued"]
       \/ /\ reel[r].status \in {"issued", "loaded"} /\ ~ActiveLoading(r)  \* return
          /\ reel' = [reel EXCEPT ![r] = [status |-> "in_stock", place |-> Nil]]
       \/ /\ reel[r].status # "gone" /\ ~ActiveLoading(r)      \* empty, scrap, lost, ...
          /\ reel' = [reel EXCEPT ![r] = [status |-> "gone", place |-> Nil]]
    /\ UNCHANGED <<order, machine, slot, locked, firstArticle, board, panel, doubled,
                   inspected, misplaced>>

Required(m, s) == IF machine[m].order = Nil THEN Nil ELSE Table[<<machine[m].order, m, s>>]

\* A load is judged by the parts list of the product ...
MayLoad(r, part) == PartOf[r] = part \/ PartOf[r] \in BomAlternates[part]

\* ... and a verification by the feeder table.
Matches(r, part) == PartOf[r] = part \/ PartOf[r] \in TableAlternates[part]

\* What a scan of a reel at a slot has to pass before the parts are compared.
MayScan(m, s, r) ==
    /\ machine[m].order # Nil /\ order[machine[m].order] = "running"
    /\ <<m, s>> \notin locked
    /\ Required(m, s) # Nil
    /\ reel[r].status # "gone"
    /\ reel[r].status = "loaded" => reel[r].place \in {Nil, <<m, s>>}
    /\ reel[r].status = "in_stock" => "require_issued_before_load" \notin Settings

\* The wrong part locks the slot.
ScanMismatch(m, s, r) ==
    /\ MayScan(m, s, r) /\ ~MayLoad(r, Required(m, s))
    /\ "lock_on_mismatch" \in Settings
    /\ locked' = locked \cup {<<m, s>>}
    /\ UNCHANGED <<order, machine, slot, reel, firstArticle, board, panel, doubled,
                   inspected, misplaced>>

Unverify(m) == machine' = [machine EXCEPT ![m] = [@ EXCEPT !.verified = FALSE, !.signed = FALSE]]

\* Where a reel goes that was taken off; its record is left alone unless it is loaded.
TakenOff(r, to) ==
    IF reel[r].status = "loaded"
    THEN [reel EXCEPT ![r] = [status |-> to, place |-> Nil]]
    ELSE reel

OnFeeders == UNION {{slot[p].main, slot[p].spliced} : p \in Places}

\* A reel that has left every slot is an ordinary reel again.
StillDoubled == doubled \cap OnFeeders'

Disposals == {"in_stock", "issued", "gone"}

\* A reel is scanned into a slot: as its main reel, spliced to it, or in its place.
smtLoad(m, s, r) ==
    LET p == <<m, s>>
        Loaded(reels) == [reels EXCEPT ![r] = [status |-> "loaded", place |-> p]]
    IN
    /\ MayScan(m, s, r) /\ MayLoad(r, Required(m, s))
    /\ \/ /\ slot[p].main = Nil                                            \* load
          /\ slot' = [slot EXCEPT ![p].main = r]
          /\ reel' = Loaded(reel)
          /\ UNCHANGED <<machine, doubled>>
       \/ /\ slot[p].main # Nil /\ slot[p].spliced = Nil                   \* splice
          /\ slot' = [slot EXCEPT ![p].spliced = r]
          /\ reel' = Loaded(reel)
          /\ doubled' = IF slot[p].main = r THEN doubled \cup {r} ELSE doubled
          /\ UNCHANGED machine
       \/ /\ slot[p].main # Nil /\ slot[p].spliced = Nil                   \* replace
          /\ \E to \in Disposals : reel' = Loaded(TakenOff(slot[p].main, to))
          /\ slot' = [slot EXCEPT ![p].main = r]
          /\ Unverify(m)
          /\ doubled' = StillDoubled
    /\ UNCHANGED <<order, locked, firstArticle, board, panel, inspected, misplaced>>

\* Mutant: a spliced reel stays where it is when the main reel goes.
TakeOffOnly(p, to) ==
    /\ \/ /\ slot[p].main # Nil
          /\ slot' = [slot EXCEPT ![p].main = Nil]
          /\ reel' = TakenOff(slot[p].main, to)
       \/ /\ slot[p].spliced # Nil
          /\ slot' = [slot EXCEPT ![p].spliced = Nil]
          /\ reel' = TakenOff(slot[p].spliced, to)
    /\ doubled' = StillDoubled
    /\ UNCHANGED <<order, locked, firstArticle, board, panel, inspected, misplaced>>

\* A reel is taken off; a spliced one becomes the main reel when that goes.
TakeOff(p, to) ==
    /\ \/ /\ slot[p].main # Nil
          /\ slot' = [slot EXCEPT ![p] = [main |-> @.spliced, spliced |-> Nil]]
          /\ reel' = TakenOff(slot[p].main, to)
       \/ /\ slot[p].spliced # Nil
          /\ slot' = [slot EXCEPT ![p].spliced = Nil]
          /\ reel' = TakenOff(slot[p].spliced, to)
    /\ doubled' = StillDoubled
    /\ UNCHANGED <<order, locked, firstArticle, board, panel, inspected, misplaced>>

\* Mutant: the machine keeps its verification.
UnloadVerified(m, s, to) == TakeOff(<<m, s>>, to) /\ UNCHANGED machine

smtUnload(m, s, to) == TakeOff(<<m, s>>, to) /\ Unverify(m)

smtMachineSlotLock(m, s) ==
    /\ locked' = IF <<m, s>> \in locked THEN locked \ {<<m, s>>} ELSE locked \cup {<<m, s>>}
    /\ UNCHANGED <<order, machine, slot, reel, firstArticle, board, panel, doubled,
                   inspected, misplaced>>

------------------------------------------------------------------------------
(* Machines *)

\* A machine changes over to an order: first articles from before are void on it.
smtMachineBind(m, o) ==
    /\ order[o] # "closed"
    /\ machine' = [machine EXCEPT ![m] = [order |-> o, verified |-> FALSE, signed |-> FALSE]]
    /\ firstArticle' = [w \in WorkOrders |-> IF firstArticle[w] = Nil THEN Nil
                                            ELSE firstArticle[w] \ {m}]
    /\ inspected' = [w \in WorkOrders |-> inspected[w] \ {m}]
    /\ UNCHANGED <<order, slot, locked, reel, board, panel, doubled, misplaced>>

\* Every slot of the table is fed by a part it takes, and no other slot is fed.
Fits(m) ==
    \A s \in Slots :
        LET need == Required(m, s)
            fed  == slot[<<m, s>>]
        IN  IF need = Nil THEN fed.main = Nil ELSE fed.main # Nil /\ Matches(fed.main, need)

\* A sign-off outlives a later verification where sign-offs are required.
smtMachineVerify(m) ==
    /\ IF Fits(m)
       THEN machine' = [machine EXCEPT ![m].verified = TRUE,
                                       ![m].signed = "signoff_required" \in Settings /\ @]
       ELSE Unverify(m)
    /\ UNCHANGED <<order, slot, locked, reel, firstArticle, board, panel, doubled,
                   inspected, misplaced>>

\* Someone else than the one who verified the machine signs it off.
smtMachineSignOff(m) ==
    /\ Verified(m)
    /\ machine' = [machine EXCEPT ![m].signed = TRUE]
    /\ UNCHANGED <<order, slot, locked, reel, firstArticle, board, panel, doubled,
                   inspected, misplaced>>

------------------------------------------------------------------------------
(* Boards.  A scan names an operation, the step of the route that has it, and *)
(* perhaps a machine.  at is the state of the boards when it is judged.       *)

\* Mutant: finished boards are not counted.
BoardsUnderWay(at, o) == {b \in Boards : at[b].order = o /\ at[b].status \in {"in_process", "NG"}}

\* The boards that count against the plan of an order.
BoardsOf(at, o) == {b \in Boards : at[b].order = o /\ at[b].status # "scrapped"}

\* A machine that is bound to the order, verified and, where required, signed off.
smtRequireMachineReady(m, o) ==
    /\ m # Nil
    /\ machine[m].order = o /\ Verified(m)
    /\ "signoff_required" \in Settings => machine[m].signed

smtRequireFAI(m, o) ==
    /\ firstArticle[o] # Nil
    /\ m # Nil => m \in firstArticle[o]

\* Whether board b may pass or fail step k of order o.
smtValidateUnitStep(at, b, o, k, m) ==
    /\ order[o] = "running"
    /\ at[b].status = "in_process" => at[b].order = o
    /\ at[b].status \in {"none", "in_process"}
    /\ k = at[b].last + 1 /\ k \in DOMAIN Route[o]
    /\ at[b].status = "none" /\ "pass_limit_plan_qty" \in Settings =>
          Cardinality(BoardsOf(at, o)) < PlanQty
    /\ "fai_required" \in Settings => smtRequireFAI(m, o)
    /\ Route[o][k] = "SMT" /\ "pass_require_machine_ready" \in Settings =>
          smtRequireMachineReady(m, o)

Passed(at, b, o, k) ==
    [at EXCEPT ![b] = [@ EXCEPT !.status = IF k = Len(Route[o]) THEN "finished" ELSE "in_process",
                                !.order = o, !.last = k]]

Failed(at, b, o, found) ==
    [at EXCEPT ![b].status = "NG", ![b].order = o, ![b].defects = @ + found]

\* The boards that a placement step puts on feeders that differ from the table.
Misplaced(boards, o, k, m) ==
    IF Route[o][k] = "SMT" /\ (m = Nil \/ ~Fits(m)) THEN boards ELSE {}

FloorRest == <<order, machine, slot, locked, reel, firstArticle, doubled, inspected>>

smtUnitPass(b, o, k, m) ==
    /\ smtValidateUnitStep(board, b, o, k, m)
    /\ board' = Passed(board, b, o, k)
    /\ misplaced' = misplaced \cup Misplaced({b}, o, k, m)
    /\ UNCHANGED FloorRest /\ UNCHANGED panel

smtUnitFail(b, o, k, m, found) ==
    /\ smtValidateUnitStep(board, b, o, k, m)
    /\ board' = Failed(board, b, o, found)
    /\ UNCHANGED FloorRest /\ UNCHANGED <<panel, misplaced>>

\* The boards after a defect of board d was closed; Nil: none was named.
DefectClosed(d) == IF d = Nil THEN board ELSE [board EXCEPT ![d].defects = @ - 1]

\* The step a scrapped board had reached is on record but never read again.
Scrapped(at, b) == [at EXCEPT ![b] = [@ EXCEPT !.status = "scrapped", !.last = 0]]

\* Mutant: one closed defect frees the board.
RepairFrees(b, d, scrap) ==
    /\ board[b].status = "NG"
    /\ board' = IF scrap THEN Scrapped(DefectClosed(d), b)
                ELSE [DefectClosed(d) EXCEPT ![b].status = "in_process"]
    /\ UNCHANGED FloorRest /\ UNCHANGED <<panel, misplaced>>

\* The defect a repair closes may be of any board.
smtUnitRepair(b, d, scrap) ==
    LET after == DefectClosed(d) IN
    /\ board[b].status = "NG"
    /\ board' = IF scrap THEN Scrapped(after, b)
                ELSE IF after[b].defects = 0 THEN [after EXCEPT ![b].status = "in_process"]
                ELSE after
    /\ UNCHANGED FloorRest /\ UNCHANGED <<panel, misplaced>>

smtUnitScrap(b) ==
    /\ board[b].status \notin {"none", "scrapped"}
    /\ board' = Scrapped(board, b)
    /\ UNCHANGED FloorRest /\ UNCHANGED <<panel, misplaced>>

------------------------------------------------------------------------------
(* Panels *)

smtPanelBind(k, o, boards) ==
    /\ panel[k].status = "none"
    /\ \A b \in Range(boards) :
          board[b].status # "none" => board[b].panel \in {Nil, k} /\ board[b].order = o
    /\ panel' = [panel EXCEPT ![k] = [status |-> "active", order |-> o, boards |-> boards]]
    \* Boards that have no record yet are not told their panel.
    /\ board' = [b \in Boards |-> IF b \in Range(boards) /\ board[b].status # "none"
                                  THEN [board[b] EXCEPT !.panel = k] ELSE board[b]]
    /\ UNCHANGED FloorRest /\ UNCHANGED misplaced

smtPanelSplit(k) ==
    /\ panel[k].status = "active"
    /\ panel' = [panel EXCEPT ![k].status = "split"]
    /\ UNCHANGED FloorRest /\ UNCHANGED <<board, misplaced>>

\* The boards after those in done were judged at step n, of which those in failed failed
\* and those in bad did not pass.
Judged(done, bad, failed, o, n, found) ==
    [b \in Boards |-> CASE b \in done \ bad -> Passed(board, b, o, n)[b]
                        [] b \in done \cap failed -> Failed(board, b, o, found)[b]
                        [] OTHER -> board[b]]

\* A scan of a panel at step n: each board that is neither out nor past the step has
\* to be allowed it, or nothing happens.  Then they are judged one after the other: those
\* in bad are failed under the same rules again, unless they are in unknown, whose defect
\* codes are not on record; the others pass.
smtPassPanel(k, n, m, bad, unknown, found) ==
    LET o == panel[k].order
        boards == panel[k].boards
        Skipped(b) == \/ board[b].status \in {"scrapped", "finished"}
                      \/ board[b].status # "none" /\ board[b].last >= n
        todo == {b \in Range(boards) : ~Skipped(b)}
        Before(i) == {boards[j] : j \in 1..(i - 1)} \cap todo
    IN
    /\ panel[k].status = "active" /\ n \in DOMAIN Route[o]
    /\ bad \subseteq todo
    /\ \A b \in todo : smtValidateUnitStep(board, b, o, n, m)
    /\ \E failed \in SUBSET (bad \ unknown) :
          /\ \A i \in DOMAIN boards : boards[i] \in bad \ unknown =>
                (boards[i] \in failed <=>
                    smtValidateUnitStep(Judged(Before(i), bad, failed, o, n, found),
                                        boards[i], o, n, m))
          /\ board' = Judged(todo, bad, failed, o, n, found)
    /\ panel' = IF Route[o][n] = "DEPANEL" THEN [panel EXCEPT ![k].status = "split"] ELSE panel
    /\ misplaced' = misplaced \cup Misplaced(todo \ bad, o, n, m)
    /\ UNCHANGED FloorRest

------------------------------------------------------------------------------
FloorNext ==
    \/ \E o \in WorkOrders : smtWorkOrderTransition(o) \/ smtInspectionRecord(o)
    \/ \E r \in Reels : smtReelTransition(r)
    \/ \E m \in Machines, s \in Slots :
          \/ \E r \in Reels : smtLoad(m, s, r) \/ ScanMismatch(m, s, r)
          \/ \E to \in Disposals : smtUnload(m, s, to)
          \/ smtMachineSlotLock(m, s)
    \/ \E m \in Machines :
          \/ \E o \in WorkOrders : smtMachineBind(m, o)
          \/ smtMachineVerify(m) \/ smtMachineSignOff(m)
    \/ \E b \in Boards, o \in WorkOrders, m \in Machines \cup {Nil} :
          \E k \in DOMAIN Route[o] :
              \/ smtUnitPass(b, o, k, m)
              \/ \E found \in 1..MaxDefects : smtUnitFail(b, o, k, m, found)
    \/ \E b \in Boards :
          \/ smtUnitScrap(b)
          \/ \E d \in {c \in Boards : board[c].defects > 0} \cup {Nil}, scrap \in BOOLEAN :
                smtUnitRepair(b, d, scrap)
    \/ \E k \in Panels :
          \/ smtPanelSplit(k)
          \/ \E o \in WorkOrders, boards \in BoundedSeq(Boards, MaxPanel) :
                /\ boards # <<>> /\ IsInjective(boards)
                /\ smtPanelBind(k, o, boards)
          \/ \E m \in Machines \cup {Nil}, found \in 1..MaxDefects,
               bad \in SUBSET Range(panel[k].boards) :
                \E n \in UNION {DOMAIN Route[o] : o \in WorkOrders}, unknown \in SUBSET bad :
                    smtPassPanel(k, n, m, bad, unknown, found)

FloorSpec == FloorInit /\ [][FloorNext]_floorVars

------------------------------------------------------------------------------
(* Properties *)

\* A reel that feeds a machine is on record as loaded in that very slot, and nowhere else
\* is a reel on record as loaded: loads, splices, replacements, unloads and the reel's own
\* actions keep the two sets of rows together, so no reel feeds two slots and none can be
\* issued, returned or scrapped off a machine.  A reel that was spliced to itself, which a
\* scan allows, is excepted until it has left every slot.
ReelIsWhereItIsLoaded ==
    \A r \in Reels \ doubled :
        /\ \A p \in Places : r \in {slot[p].main, slot[p].spliced} =>
                               reel[r] = [status |-> "loaded", place |-> p]
        /\ reel[r].status = "loaded" => \E p \in Places : r \in {slot[p].main, slot[p].spliced}

\* Where ready machines are required, no board is placed on feeders that differ from the
\* table of its order, whatever was loaded, spliced, replaced, taken off or bound since the
\* verification; and where articles need verified machines, an article that is valid for a
\* machine bound to its order was inspected while that machine was verified for it.
PlacedAsVerified ==
    /\ "pass_require_machine_ready" \in Settings => misplaced = {}
    /\ "fai_require_verified" \in Settings =>
          \A o \in WorkOrders : firstArticle[o] # Nil =>
              firstArticle[o] \cap {m \in Machines : machine[m].order = o} \subseteq inspected[o]

\* An order gets more boards than planned only by one panel whose boards were let in
\* together: without them it is below its plan.
PlanOverrunIsOnePanel ==
    LET active(o) == {b \in Boards : board[b].order = o
                                     /\ board[b].status \in {"in_process", "NG", "finished"}}
    IN  \A o \in WorkOrders :
            "pass_limit_plan_qty" \in Settings /\ Cardinality(active(o)) > PlanQty =>
                \E k \in Panels :
                    Cardinality(active(o) \ Range(panel[k].boards)) < PlanQty

\* A board with an open defect waits for its repair or is scrapped: neither a scan of its
\* panel, nor another repair, nor one that closed no defect of its own lets it go on.
DefectHoldsBoard ==
    \A b \in Boards : board[b].defects > 0 => board[b].status \in {"NG", "scrapped"}
==============================================================================

------------------------- MODULE DocumentImportProofs -------------------------
(***************************************************************************)
(* Proofs about DocumentImport, for any uploads, people, recognitions,      *)
(* contents and bound on versions.                                          *)
(*                                                                          *)
(* Every change of an import is a Save of one row; RowSaved says what a     *)
(* save does to rows and views, so that an action only has to say what is   *)
(* in the row it writes.                                                    *)
(***************************************************************************)
EXTENDS DocumentImport, TLAPS

ItemRows == [status : Statuses, version : 1..MaxVersion, draft : Drafts,
             token : Attempts \cup {NoAttempt}, leased : BOOLEAN,
             reviewed : BOOLEAN, confirmedVersion : 0..MaxVersion]

AttemptRows == [at : {"ready", "running", "over"}, source : Sources, key : Keys]

ViewRows == [source : Sources, version : 0..MaxVersion, draft : Drafts]

Requests == [source : Sources, version : 0..MaxVersion, draft : Drafts]

DocumentRows == [source : Sources, draft : Drafts] \cup {NoDocument}

RowTypes ==
    /\ item \in [Sources -> ItemRows]
    /\ attempt \in [Attempts -> AttemptRows]
    /\ view \in [Clients -> ViewRows]
    /\ documents \in [Keys -> DocumentRows]
    /\ accepted \subseteq Requests

\* The link of one import, and that the attempt it waits for has begun.
TokenOK(s) ==
    /\ item[s].status = "recognizing" <=> item[s].token # NoAttempt
    /\ item[s].token # NoAttempt =>
          /\ attempt[item[s].token].source = s
          /\ attempt[item[s].token].key = item[s].draft.key
          /\ attempt[item[s].token].at # "ready"

\* Nobody was shown a version that is still to come, and the current one has the draft
\* that was shown with it.
ViewOK(c) ==
    /\ view[c].version <= item[view[c].source].version
    /\ Current(c) => view[c].draft = item[view[c].source].draft

ImportInv ==
    /\ RowTypes
    /\ \A s \in Sources : TokenOK(s)
    /\ \A c \in Clients : ViewOK(c)
    /\ ConfirmedHasItsDocument

LEMMA OwnKeyIsKey == \A s \in Sources : OwnKey[s] \in Keys
  BY DEF Keys

LEMMA ImportInvInit == ImportInit => ImportInv
<1>. SUFFICES ASSUME ImportInit PROVE ImportInv
  OBVIOUS
<1>1. PICK s0 \in Sources :
         /\ attempt = [r \in Attempts |-> [at |-> "ready", source |-> s0, key |-> OwnKey[s0]]]
         /\ view = [c \in Clients |-> NoView(s0)]
  BY Zenon DEF ImportInit
<1>2. /\ item = [s \in Sources |-> NewItem(s)]
      /\ documents = [k \in Keys |-> NoDocument]
      /\ accepted = {}
  BY DEF ImportInit
<1>3. ASSUME NEW s \in Sources PROVE [key |-> OwnKey[s], content |-> Blank] \in Drafts
  BY OwnKeyIsKey DEF Drafts
<1>4. RowTypes
  <2>1. ASSUME NEW s \in Sources PROVE NewItem(s) \in ItemRows
    BY <1>3, ImportAssumption DEF NewItem, ItemRows, Statuses
  <2>2. NoView(s0) \in ViewRows
    BY <1>3, ImportAssumption DEF NoView, ViewRows
  <2>3. [at |-> "ready", source |-> s0, key |-> OwnKey[s0]] \in AttemptRows
    BY OwnKeyIsKey DEF AttemptRows
  <2>4. QED
    BY <1>1, <1>2, <2>1, <2>2, <2>3 DEF RowTypes, DocumentRows
<1>5. ASSUME NEW s \in Sources PROVE TokenOK(s)
  BY <1>2 DEF TokenOK, NewItem
<1>6. \A c \in Clients : ViewOK(c)
  BY <1>1, <1>2 DEF ViewOK, NoView, NewItem, Current
<1>7. ConfirmedHasItsDocument
  BY <1>2 DEF ConfirmedHasItsDocument, NewItem
<1>8. QED
  BY <1>4, <1>5, <1>6, <1>7 DEF ImportInv

\* What a save does: to the row what it says, to nobody's view of the draft any harm.
LEMMA RowSaved ==
    ASSUME ImportInv, NEW s \in Sources, NEW row \in ItemRows,
           row.version = item[s].version, Save(s, row), UNCHANGED view
    PROVE  /\ item' \in [Sources -> ItemRows]
           /\ \A t \in Sources \ {s} : item'[t] = item[t]
           /\ item'[s].status = row.status
           /\ item'[s].draft = row.draft
           /\ item'[s].token = row.token
           /\ item'[s].reviewed = row.reviewed
           /\ item'[s].confirmedVersion = row.confirmedVersion
           /\ \A c \in Clients : ViewOK(c)'
<1>1. item \in [Sources -> ItemRows] /\ item[s].version < MaxVersion
  BY DEF ImportInv, RowTypes, Save
<1>2. item' = [item EXCEPT ![s] = [row EXCEPT !.version = row.version + 1]]
  BY DEF Save
<1>3. [row EXCEPT !.version = row.version + 1] \in ItemRows
  BY <1>1, ImportAssumption DEF ItemRows
<1>4. /\ item' \in [Sources -> ItemRows]
      /\ \A t \in Sources \ {s} : item'[t] = item[t]
      /\ item'[s] = [row EXCEPT !.version = row.version + 1]
  BY <1>1, <1>2, <1>3
<1>5. /\ item'[s].version = item[s].version + 1
      /\ item'[s].status = row.status
      /\ item'[s].draft = row.draft
      /\ item'[s].token = row.token
      /\ item'[s].reviewed = row.reviewed
      /\ item'[s].confirmedVersion = row.confirmedVersion
  BY <1>4 DEF ItemRows
<1>6. ASSUME NEW c \in Clients PROVE ViewOK(c)'
  <2>1. view[c].source \in Sources /\ view[c].version \in Int /\ ViewOK(c)
    BY ImportAssumption DEF ImportInv, RowTypes, ViewRows
  <2>2. CASE view[c].source = s
    <3>1. item[s].version \in Int
      BY <1>1, ImportAssumption DEF ItemRows
    <3>2. QED
      BY <1>5, <2>1, <2>2, <3>1 DEF ViewOK, Current
  <2>3. CASE view[c].source # s
    BY <1>4, <2>1, <2>3 DEF ViewOK, Current
  <2>4. QED
    BY <2>2, <2>3
<1>7. QED
  BY <1>4, <1>5, <1>6

\* Documents stay in order while no import is confirmed and the confirmed ones stay.
LEMMA DocumentsKept ==
    ASSUME ImportInv, UNCHANGED <<documents, accepted>>,
           \A s \in Sources : \/ item'[s] = item[s]
                              \/ item[s].status # "confirmed" /\ item'[s].status # "confirmed"
    PROVE  ConfirmedHasItsDocument'
<1>1. ASSUME NEW s \in Sources
      PROVE  {k \in Keys : documents[k] # NoDocument /\ documents[k].source = s} =
                IF item'[s].status = "confirmed" THEN {item'[s].draft.key} ELSE {}
  BY DEF ImportInv, ConfirmedHasItsDocument
<1>2. ASSUME NEW k \in Keys, documents[k] # NoDocument
      PROVE  documents[k].draft = item'[documents[k].source].draft
  <2>1. documents[k].source \in Sources
    BY <1>2 DEF ImportInv, RowTypes, DocumentRows
  <2>2. item[documents[k].source].status = "confirmed"
    BY <1>2, <2>1 DEF ImportInv, ConfirmedHasItsDocument
  <2>3. item'[documents[k].source] = item[documents[k].source]
    BY <2>1, <2>2
  <2>4. QED
    BY <1>2, <2>3 DEF ImportInv, ConfirmedHasItsDocument
<1>3. ASSUME NEW a \in accepted
      PROVE  /\ item'[a.source].status = "confirmed"
             /\ a.draft = item'[a.source].draft
             /\ a.version = item'[a.source].confirmedVersion
  <2>1. a.source \in Sources
    BY DEF ImportInv, RowTypes, Requests
  <2>2. QED
    BY <2>1 DEF ImportInv, ConfirmedHasItsDocument
<1>4. QED
  BY <1>1, <1>2, <1>3 DEF ConfirmedHasItsDocument

\* A client is shown a row; the upload of new files makes it one to work on.
LEMMA ShowKeeps ==
    ASSUME ImportInv, NEW c \in Clients, NEW s \in Sources, Upload(c, s) \/ Get(c, s)
    PROVE  ImportInv'
<1>1. /\ view' = [view EXCEPT ![c] = Shown(s)]
      /\ UNCHANGED <<attempt, documents, accepted>>
  BY DEF Upload, Get
<1>2. /\ item' \in [Sources -> ItemRows]
      /\ \A t \in Sources : /\ item'[t].version = item[t].version
                            /\ item'[t].draft = item[t].draft
                            /\ item'[t].token = item[t].token
                            /\ item'[t].status = "recognizing" <=> item[t].status = "recognizing"
                            /\ \/ item'[t] = item[t]
                               \/ item[t].status = "none" /\ item'[t].status = "uploaded"
  BY DEF Upload, Get, ImportInv, RowTypes, ItemRows, Statuses
<1>3. Shown(s) \in ViewRows
  BY ImportAssumption DEF Shown, ImportInv, RowTypes, ItemRows, ViewRows
<1>4. RowTypes'
  BY <1>1, <1>2, <1>3 DEF ImportInv, RowTypes
<1>5. ASSUME NEW t \in Sources PROVE TokenOK(t)'
  BY <1>1, <1>2 DEF ImportInv, TokenOK
<1>6. ASSUME NEW d \in Clients PROVE ViewOK(d)'
  <2>1. CASE d = c
    <3>1. /\ view'[c].source = s
          /\ view'[c].version = item[s].version
          /\ view'[c].draft = item[s].draft
      BY <1>1 DEF Shown, ImportInv, RowTypes
    <3>2. item[s].version \in Int
      BY ImportAssumption DEF ImportInv, RowTypes, ItemRows
    <3>3. QED
      BY <1>2, <2>1, <3>1, <3>2 DEF ViewOK
  <2>2. CASE d # c
    <3>1. view'[d] = view[d] /\ view[d].source \in Sources
      BY <1>1, <2>2 DEF ImportInv, RowTypes, ViewRows
    <3>2. QED
      BY <1>2, <3>1 DEF ImportInv, ViewOK, Current
  <2>3. QED
    BY <2>1, <2>2
<1>7. ConfirmedHasItsDocument'
  BY <1>1, <1>2, DocumentsKept
<1>8. QED
  BY <1>4, <1>5, <1>6, <1>7 DEF ImportInv

LEMMA RecognizeKeeps ==
    ASSUME ImportInv, NEW r \in Attempts, NEW c \in Clients, Recognize(r, c)
    PROVE  ImportInv'
<1>. PICK s \in Sources : s = view[c].source
  BY DEF ImportInv, RowTypes, ViewRows
<1>. DEFINE row == [item[s] EXCEPT !.status = "recognizing", !.token = r, !.leased = TRUE]
<1>1. /\ attempt[r].at = "ready"
      /\ item[s].status # "confirmed"
      /\ Save(s, row)
      /\ attempt' = [attempt EXCEPT ![r] =
                        [at |-> "running", source |-> s, key |-> item[s].draft.key]]
      /\ UNCHANGED <<view, documents, accepted>>
  BY Zenon DEF Recognize
<1>2. item[s] \in ItemRows
  BY DEF ImportInv, RowTypes
<1>3. /\ row \in ItemRows /\ row.version = item[s].version
      /\ row.status = "recognizing" /\ row.token = r /\ row.draft = item[s].draft
  BY <1>2 DEF ItemRows, Statuses
<1>4. /\ item' \in [Sources -> ItemRows]
      /\ \A t \in Sources \ {s} : item'[t] = item[t]
      /\ item'[s].status = "recognizing"
      /\ item'[s].token = r
      /\ item'[s].draft = item[s].draft
      /\ \A d \in Clients : ViewOK(d)'
  <2>. HIDE DEF row
  <2>1. QED
    BY <1>1, <1>3, RowSaved
<1>5. item[s].draft.key \in Keys
  BY <1>2 DEF ItemRows, Drafts
<1>6. /\ attempt' \in [Attempts -> AttemptRows]
      /\ attempt'[r] = [at |-> "running", source |-> s, key |-> item[s].draft.key]
      /\ \A x \in Attempts \ {r} : attempt'[x] = attempt[x]
  BY <1>1, <1>5 DEF ImportInv, RowTypes, AttemptRows
<1>7. RowTypes'
  BY <1>1, <1>4, <1>6 DEF ImportInv, RowTypes
<1>8. ASSUME NEW t \in Sources PROVE TokenOK(t)'
  <2>1. CASE t = s
    BY <1>4, <1>6, <2>1, ImportAssumption DEF TokenOK
  <2>2. CASE t # s
    <3>1. TokenOK(t) /\ item'[t] = item[t] /\ item[t].token # r
      BY <1>1, <1>4, <2>2, ImportAssumption DEF ImportInv, TokenOK
    <3>2. item[t].token \in Attempts \cup {NoAttempt}
      BY DEF ImportInv, RowTypes, ItemRows
    <3>3. QED
      BY <1>6, <3>1, <3>2 DEF TokenOK
  <2>3. QED
    BY <2>1, <2>2
<1>9. ConfirmedHasItsDocument'
  BY <1>1, <1>4, DocumentsKept
<1>10. QED
  BY <1>4, <1>7, <1>8, <1>9 DEF ImportInv

\* The attempt is over, and the import waits for it no longer.
LEMMA FinishRecognitionKeeps ==
    ASSUME ImportInv, NEW r \in Attempts, FinishRecognition(r)
    PROVE  ImportInv'
<1>. PICK s \in Sources : s = attempt[r].source
  BY DEF ImportInv, RowTypes, AttemptRows
<1>1. /\ attempt[r].at = "running"
      /\ attempt' = [attempt EXCEPT ![r].at = "over"]
      /\ UNCHANGED <<view, documents, accepted>>
  BY Zenon DEF FinishRecognition
<1>2. /\ attempt' \in [Attempts -> AttemptRows]
      /\ \A x \in Attempts : /\ attempt'[x].source = attempt[x].source
                             /\ attempt'[x].key = attempt[x].key
                             /\ attempt[x].at # "ready" => attempt'[x].at # "ready"
  BY <1>1 DEF ImportInv, RowTypes, AttemptRows
<1>3. ASSUME NEW t \in Sources, item'[t] = item[t] PROVE TokenOK(t)'
  <2>1. TokenOK(t) /\ item[t].token \in Attempts \cup {NoAttempt}
    BY DEF ImportInv, RowTypes, ItemRows
  <2>2. QED
    BY <1>2, <1>3, <2>1 DEF TokenOK
<1>4. CASE UNCHANGED item
  <2>1. RowTypes' /\ \A c \in Clients : ViewOK(c)'
    BY <1>1, <1>2, <1>4 DEF ImportInv, RowTypes, ViewOK, Current
  <2>2. ConfirmedHasItsDocument'
    BY <1>1, <1>4, DocumentsKept
  <2>3. QED
    BY <1>3, <1>4, <2>1, <2>2 DEF ImportInv
<1>5. ASSUME item[s].status = "recognizing", NEW status \in {"needs_review", "failed"},
             NEW draft \in Drafts,
             Save(s, [item[s] EXCEPT !.status = status, !.token = NoAttempt, !.draft = draft])
      PROVE  ImportInv'
  <2>. DEFINE row == [item[s] EXCEPT !.status = status, !.token = NoAttempt, !.draft = draft]
  <2>1. /\ row \in ItemRows /\ row.version = item[s].version
        /\ row.status = status /\ row.token = NoAttempt
    <3>1. item[s] \in ItemRows
      BY DEF ImportInv, RowTypes
    <3>2. status \in Statuses
      BY <1>5 DEF Statuses
    <3>3. QED
      BY <3>1, <3>2 DEF ItemRows
  <2>2. /\ item' \in [Sources -> ItemRows]
        /\ \A t \in Sources \ {s} : item'[t] = item[t]
        /\ item'[s].status = status
        /\ item'[s].token = NoAttempt
        /\ \A d \in Clients : ViewOK(d)'
    <3>1. Save(s, row)
      BY <1>5
    <3>2. HIDE DEF row
    <3>3. QED
      BY <1>1, <2>1, <3>1, RowSaved
  <2>3. RowTypes'
    BY <1>1, <1>2, <2>2 DEF ImportInv, RowTypes
  <2>4. ASSUME NEW t \in Sources PROVE TokenOK(t)'
    <3>1. CASE t = s
      BY <1>5, <2>2, <3>1 DEF TokenOK
    <3>2. CASE t # s
      BY <1>3, <2>2, <3>2
    <3>3. QED
      BY <3>1, <3>2
  <2>5. ConfirmedHasItsDocument'
    BY <1>1, <1>5, <2>2, DocumentsKept
  <2>6. QED
    BY <2>2, <2>3, <2>4, <2>5 DEF ImportInv
<1>6. CASE item[s].status = "recognizing" /\ item[s].token = r
  <2>1. item[s] \in ItemRows /\ item[s].draft \in Drafts /\ attempt[r].key \in Keys
    BY DEF ImportInv, RowTypes, ItemRows, AttemptRows
  <2>2. CASE Save(s, [item[s] EXCEPT !.status = "failed", !.token = NoAttempt])
    <3>1. [item[s] EXCEPT !.status = "failed", !.token = NoAttempt] =
             [item[s] EXCEPT !.status = "failed", !.token = NoAttempt, !.draft = item[s].draft]
      BY <2>1 DEF ItemRows
    <3>2. Save(s, [item[s] EXCEPT !.status = "failed", !.token = NoAttempt,
                                  !.draft = item[s].draft])
      BY <2>2, <3>1, Zenon
    <3>3. QED
      BY <1>5, <1>6, <2>1, <3>2, Zenon
  <2>3. ASSUME NEW content \in Contents \cup {Blank},
               Save(s, [item[s] EXCEPT !.status = "needs_review", !.token = NoAttempt,
                           !.draft = IF item[s].reviewed THEN item[s].draft
                                     ELSE [key |-> attempt[r].key, content |-> content]])
        PROVE  ImportInv'
    <3>. DEFINE draft == IF item[s].reviewed THEN item[s].draft
                         ELSE [key |-> attempt[r].key, content |-> content]
    <3>1. draft \in Drafts
      BY <2>1 DEF Drafts
    <3>2. Save(s, [item[s] EXCEPT !.status = "needs_review", !.token = NoAttempt, !.draft = draft])
      BY <2>3
    <3>3. HIDE DEF draft
    <3>4. QED
      BY <1>5, <1>6, <3>1, <3>2, Zenon
  <2>4. QED
    BY <1>6, <2>2, <2>3, Zenon DEF FinishRecognition
<1>7. QED
  BY <1>4, <1>6, Zenon DEF FinishRecognition

LEMMA TimePassesKeeps ==
    ASSUME ImportInv,
           (\E r \in Attempts : AttemptLost(r)) \/ (\E s \in Sources : LeaseExpires(s))
    PROVE  ImportInv'
<1>1. /\ UNCHANGED <<view, documents, accepted>>
      /\ attempt' \in [Attempts -> AttemptRows]
      /\ \A x \in Attempts : /\ attempt'[x].source = attempt[x].source
                             /\ attempt'[x].key = attempt[x].key
                             /\ attempt[x].at # "ready" => attempt'[x].at # "ready"
  BY DEF AttemptLost, LeaseExpires, ImportInv, RowTypes, AttemptRows
<1>2. /\ item' \in [Sources -> ItemRows]
      /\ \A t \in Sources : /\ item'[t].version = item[t].version
                            /\ item'[t].draft = item[t].draft
                            /\ item'[t].token = item[t].token
                            /\ item'[t].status = item[t].status
                            /\ item'[t].confirmedVersion = item[t].confirmedVersion
                            /\ item'[t] = item[t] \/ item[t].status # "confirmed"
  <2>1. item \in [Sources -> ItemRows]
    BY DEF ImportInv, RowTypes
  <2>2. CASE UNCHANGED item
    BY <2>1, <2>2
  <2>3. ASSUME NEW s \in Sources, LeaseExpires(s)
        PROVE  /\ item' \in [Sources -> ItemRows]
               /\ item[s].status = "recognizing"
               /\ \A t \in Sources \ {s} : item'[t] = item[t]
               /\ \A t \in Sources : /\ item'[t].version = item[t].version
                                     /\ item'[t].draft = item[t].draft
                                     /\ item'[t].token = item[t].token
                                     /\ item'[t].status = item[t].status
                                     /\ item'[t].confirmedVersion = item[t].confirmedVersion
    <3>1. item' = [item EXCEPT ![s].leased = FALSE] /\ item[s].status = "recognizing"
      BY <2>3 DEF LeaseExpires
    <3>2. [item[s] EXCEPT !.leased = FALSE] \in ItemRows
      BY <2>1 DEF ItemRows
    <3>3. item' = [item EXCEPT ![s] = [item[s] EXCEPT !.leased = FALSE]]
      BY <3>1, Zenon
    <3>4. QED
      BY <2>1, <3>1, <3>2, <3>3 DEF ItemRows
  <2>4. QED
    BY <2>2, <2>3 DEF AttemptLost
<1>3. RowTypes'
  BY <1>1, <1>2 DEF ImportInv, RowTypes
<1>4. ASSUME NEW t \in Sources PROVE TokenOK(t)'
  <2>1. TokenOK(t) /\ item[t].token \in Attempts \cup {NoAttempt}
    BY DEF ImportInv, RowTypes, ItemRows
  <2>2. QED
    BY <1>1, <1>2, <2>1 DEF TokenOK
<1>5. ASSUME NEW c \in Clients PROVE ViewOK(c)'
  <2>1. view[c].source \in Sources
    BY DEF ImportInv, RowTypes, ViewRows
  <2>2. QED
    BY <1>1, <1>2, <2>1 DEF ImportInv, ViewOK, Current
<1>6. ConfirmedHasItsDocument'
  BY <1>1, <1>2, DocumentsKept
<1>7. QED
  BY <1>3, <1>4, <1>5, <1>6 DEF ImportInv

\* A person's decision on a row nobody recognizes.
LEMMA DecisionSaved ==
    ASSUME ImportInv, NEW s \in Sources, NEW row \in ItemRows, row.version = item[s].version,
           editableImport(item[s].status), Save(s, row), UNCHANGED <<view, attempt>>,
           row.status # "recognizing", row.token = item[s].token,
           documents' \in [Keys -> DocumentRows], accepted' \subseteq Requests
    PROVE  /\ RowTypes'
           /\ \A t \in Sources : TokenOK(t)'
           /\ \A c \in Clients : ViewOK(c)'
           /\ \A t \in Sources \ {s} : item'[t] = item[t]
           /\ item'[s].status = row.status
           /\ item'[s].draft = row.draft
           /\ item'[s].confirmedVersion = row.confirmedVersion
<1>1. /\ item' \in [Sources -> ItemRows]
      /\ \A t \in Sources \ {s} : item'[t] = item[t]
      /\ item'[s].status = row.status
      /\ item'[s].draft = row.draft
      /\ item'[s].token = row.token
      /\ item'[s].confirmedVersion = row.confirmedVersion
      /\ \A c \in Clients : ViewOK(c)'
  BY RowSaved
<1>2. item[s].token = NoAttempt
  BY DEF ImportInv, TokenOK, editableImport
<1>3. ASSUME NEW t \in Sources PROVE TokenOK(t)'
  <2>1. CASE t = s
    BY <1>1, <1>2, <2>1 DEF TokenOK
  <2>2. CASE t # s
    BY <1>1, <2>2 DEF ImportInv, TokenOK
  <2>3. QED
    BY <2>1, <2>2
<1>4. RowTypes'
  BY <1>1 DEF ImportInv, RowTypes
<1>5. QED
  BY <1>1, <1>3, <1>4

LEMMA ReviewKeeps ==
    ASSUME ImportInv, NEW c \in Clients, NEW draft \in Drafts, Review(c, draft) \/ Reject(c)
    PROVE  ImportInv'
<1>. PICK s \in Sources : s = view[c].source
  BY DEF ImportInv, RowTypes, ViewRows
<1>1. item[s] \in ItemRows
  BY DEF ImportInv, RowTypes
<1>2. /\ editableImport(item[s].status)
      /\ UNCHANGED <<attempt, view, documents, accepted>>
  BY DEF Review, Reject
<1>3. PICK row \in ItemRows :
         /\ Save(s, row)
         /\ row.version = item[s].version /\ row.token = item[s].token
         /\ row.status \in {"needs_review", "rejected"}
  <2>1. CASE Review(c, draft)
    <3>. DEFINE row == [item[s] EXCEPT !.draft = draft, !.status = "needs_review",
                                       !.reviewed = TRUE]
    <3>1. row \in ItemRows /\ row.version = item[s].version /\ row.token = item[s].token
          /\ row.status = "needs_review"
      BY <1>1 DEF ItemRows, Statuses
    <3>2. Save(s, row)
      BY <2>1, Zenon DEF Review
    <3>3. HIDE DEF row
    <3>4. QED
      BY <3>1, <3>2
  <2>2. CASE Reject(c)
    <3>. DEFINE row == [item[s] EXCEPT !.status = "rejected", !.reviewed = TRUE]
    <3>1. row \in ItemRows /\ row.version = item[s].version /\ row.token = item[s].token
          /\ row.status = "rejected"
      BY <1>1 DEF ItemRows, Statuses
    <3>2. Save(s, row)
      BY <2>2, Zenon DEF Reject
    <3>3. HIDE DEF row
    <3>4. QED
      BY <3>1, <3>2
  <2>3. QED
    BY <2>1, <2>2
<1>4. documents' \in [Keys -> DocumentRows] /\ accepted' \subseteq Requests
  BY <1>2 DEF ImportInv, RowTypes
<1>5. /\ RowTypes'
      /\ \A t \in Sources : TokenOK(t)'
      /\ \A d \in Clients : ViewOK(d)'
      /\ \A t \in Sources \ {s} : item'[t] = item[t]
      /\ item'[s].status = row.status
  BY <1>2, <1>3, <1>4, DecisionSaved
<1>6. ConfirmedHasItsDocument'
  BY <1>2, <1>3, <1>5, DocumentsKept DEF editableImport
<1>7. QED
  BY <1>5, <1>6 DEF ImportInv

\* The document of an import appears in the step that confirms it.
LEMMA DocumentAppears ==
    ASSUME ImportInv, NEW s \in Sources, NEW k \in Keys, NEW draft \in Drafts,
           item[s].status # "confirmed", item'[s].status = "confirmed",
           draft.key = k, item'[s].draft = draft,
           \A t \in Sources \ {s} : item'[t] = item[t],
           documents[k] = NoDocument,
           documents' = [documents EXCEPT ![k] = [source |-> s, draft |-> draft]],
           \A a \in accepted' : a \in accepted \/
               (a.source = s /\ a.draft = draft /\ a.version = item'[s].confirmedVersion)
    PROVE  ConfirmedHasItsDocument'
<1>. DEFINE d == [source |-> s, draft |-> draft]
<1>1. d # NoDocument /\ d.source = s /\ d.draft = draft
  BY ImportAssumption DEF NoDocument
<1>2. /\ documents'[k] = d
      /\ \A x \in Keys \ {k} : documents'[x] = documents[x]
  BY DEF ImportInv, RowTypes
<1>. HIDE DEF d
<1>3. ASSUME NEW t \in Sources
      PROVE  {x \in Keys : documents'[x] # NoDocument /\ documents'[x].source = t} =
                IF item'[t].status = "confirmed" THEN {item'[t].draft.key} ELSE {}
  <2>1. {x \in Keys : documents[x] # NoDocument /\ documents[x].source = t} =
            IF item[t].status = "confirmed" THEN {item[t].draft.key} ELSE {}
    BY DEF ImportInv, ConfirmedHasItsDocument
  <2>2. CASE t = s
    BY <1>1, <1>2, <2>1, <2>2
  <2>3. CASE t # s
    BY <1>1, <1>2, <2>1, <2>3
  <2>4. QED
    BY <2>2, <2>3
<1>4. ASSUME NEW x \in Keys, documents'[x] # NoDocument
      PROVE  documents'[x].draft = item'[documents'[x].source].draft
  <2>1. CASE x = k
    BY <1>1, <1>2, <2>1
  <2>2. CASE x # k
    <3>1. documents'[x] = documents[x] /\ documents[x].source \in Sources
      BY <1>2, <1>4, <2>2 DEF ImportInv, RowTypes, DocumentRows
    <3>2. item[documents[x].source].status = "confirmed"
      BY <1>4, <3>1 DEF ImportInv, ConfirmedHasItsDocument
    <3>3. item'[documents[x].source] = item[documents[x].source]
      BY <3>1, <3>2
    <3>4. QED
      BY <1>4, <3>1, <3>3 DEF ImportInv, ConfirmedHasItsDocument
  <2>3. QED
    BY <2>1, <2>2
<1>5. ASSUME NEW a \in accepted'
      PROVE  /\ item'[a.source].status = "confirmed"
             /\ a.draft = item'[a.source].draft
             /\ a.version = item'[a.source].confirmedVersion
  <2>1. CASE a \in accepted
    <3>1. /\ a.source \in Sources
          /\ item[a.source].status = "confirmed"
          /\ a.draft = item[a.source].draft
          /\ a.version = item[a.source].confirmedVersion
      BY <2>1 DEF ImportInv, RowTypes, Requests, ConfirmedHasItsDocument
    <3>2. item'[a.source] = item[a.source]
      BY <3>1
    <3>3. QED
      BY <3>1, <3>2
  <2>2. CASE a \notin accepted
    BY <2>2
  <2>3. QED
    BY <2>1, <2>2
<1>6. QED
  BY <1>3, <1>4, <1>5 DEF ConfirmedHasItsDocument

\* The same confirmation again is answered from the import, and changes nothing else.
LEMMA ReplayKeeps ==
    ASSUME ImportInv, NEW c \in Clients, NEW draft \in Drafts, NEW s \in Sources,
           s = view[c].source, item[s].status = "confirmed",
           item[s].draft = draft, item[s].confirmedVersion = view[c].version,
           Answer(c, draft), UNCHANGED <<item, attempt, view, documents>>
    PROVE  ImportInv'
<1>. DEFINE new == [source |-> s, version |-> view[c].version, draft |-> draft]
<1>1. new \in Requests
  BY DEF ImportInv, RowTypes, ViewRows, Requests
<1>2. accepted' = accepted \cup {new}
  BY DEF Answer
<1>3. new.source = s /\ new.version = view[c].version /\ new.draft = draft
  OBVIOUS
<1>. HIDE DEF new
<1>4. RowTypes'
  BY <1>1, <1>2 DEF ImportInv, RowTypes
<1>5. (\A t \in Sources : TokenOK(t)') /\ (\A d \in Clients : ViewOK(d)')
  BY DEF ImportInv, TokenOK, ViewOK, Current
<1>6. ConfirmedHasItsDocument'
  BY <1>2, <1>3 DEF ImportInv, ConfirmedHasItsDocument
<1>7. QED
  BY <1>4, <1>5, <1>6 DEF ImportInv

LEMMA ConfirmKeeps ==
    ASSUME ImportInv, NEW c \in Clients, NEW draft \in Drafts, Confirm(c, draft)
    PROVE  ImportInv'
<1>. PICK s \in Sources : s = view[c].source
  BY DEF ImportInv, RowTypes, ViewRows
<1>1. CASE item[s].status = "confirmed"
  <2>1. /\ item[s].draft = draft
        /\ item[s].confirmedVersion = view[c].version
        /\ Answer(c, draft)
        /\ UNCHANGED <<item, attempt, view, documents>>
    BY <1>1, Zenon DEF Confirm
  <2>2. QED
    BY <1>1, <2>1, ReplayKeeps
<1>2. CASE item[s].status # "confirmed"
  <2>. DEFINE row == [item[s] EXCEPT !.draft = draft, !.status = "confirmed",
                                     !.reviewed = TRUE,
                                     !.confirmedVersion = view[c].version]
              new == [source |-> s, version |-> view[c].version, draft |-> draft]
  <2>1. /\ editableImport(item[s].status)
        /\ documents[draft.key] = NoDocument
        /\ documents' = [documents EXCEPT ![draft.key] = [source |-> s, draft |-> draft]]
        /\ Save(s, row)
        /\ Answer(c, draft) \/ UNCHANGED accepted
        /\ UNCHANGED <<attempt, view>>
    BY <1>2, Zenon DEF Confirm
  <2>2. item[s] \in ItemRows /\ view[c].version \in 0..MaxVersion /\ draft.key \in Keys
    BY DEF ImportInv, RowTypes, ViewRows, Drafts
  <2>3. /\ row \in ItemRows /\ row.version = item[s].version
        /\ row.token = item[s].token
        /\ row.status = "confirmed"
        /\ row.draft = draft
        /\ row.confirmedVersion = view[c].version
    BY <2>2 DEF ItemRows, Statuses
  <2>4. /\ new \in Requests
        /\ new.source = s /\ new.version = view[c].version /\ new.draft = draft
    BY <2>2 DEF Requests
  <2>5. accepted' \subseteq accepted \cup {new}
    BY <2>1, Zenon DEF Answer
  <2>. HIDE DEF row, new
  <2>6. accepted' \subseteq Requests
    BY <2>4, <2>5 DEF ImportInv, RowTypes
  <2>7. documents' \in [Keys -> DocumentRows]
    <3>1. [source |-> s, draft |-> draft] \in DocumentRows
      BY DEF DocumentRows
    <3>2. QED
      BY <2>1, <2>2, <3>1 DEF ImportInv, RowTypes
  <2>8. /\ RowTypes'
        /\ \A t \in Sources : TokenOK(t)'
        /\ \A d \in Clients : ViewOK(d)'
        /\ \A t \in Sources \ {s} : item'[t] = item[t]
        /\ item'[s].status = "confirmed"
        /\ item'[s].draft = draft
        /\ item'[s].confirmedVersion = view[c].version
    BY <2>1, <2>3, <2>6, <2>7, DecisionSaved
  <2>9. \A a \in accepted' : a \in accepted \/
            (a.source = s /\ a.draft = draft /\ a.version = item'[s].confirmedVersion)
    BY <2>4, <2>5, <2>8
  <2>10. ConfirmedHasItsDocument'
    BY <1>2, <2>1, <2>2, <2>8, <2>9, DocumentAppears
  <2>11. QED
    BY <2>8, <2>10 DEF ImportInv
<1>3. QED
  BY <1>1, <1>2

LEMMA ImportInvStep == ImportInv /\ [ImportNext]_importVars => ImportInv'
<1>. SUFFICES ASSUME ImportInv, [ImportNext]_importVars PROVE ImportInv'
  OBVIOUS
<1>1. ASSUME NEW c \in Clients, NEW s \in Sources, Upload(c, s) \/ Get(c, s) PROVE ImportInv'
  BY <1>1, ShowKeeps
<1>2. ASSUME NEW r \in Attempts, NEW c \in Clients, Recognize(r, c) PROVE ImportInv'
  BY <1>2, RecognizeKeeps
<1>3. ASSUME NEW r \in Attempts, FinishRecognition(r) PROVE ImportInv'
  BY <1>3, FinishRecognitionKeeps
<1>4. ASSUME (\E r \in Attempts : AttemptLost(r)) \/ (\E s \in Sources : LeaseExpires(s))
      PROVE  ImportInv'
  BY <1>4, TimePassesKeeps
<1>5. ASSUME NEW c \in Clients, Reject(c) PROVE ImportInv'
  <2>1. \E draft \in Drafts : TRUE
    BY DEF ImportInv, RowTypes, ViewRows
  <2>2. QED
    BY <1>5, <2>1, ReviewKeeps
<1>6. ASSUME NEW c \in Clients, NEW draft \in Drafts, Review(c, draft) PROVE ImportInv'
  BY <1>6, ReviewKeeps
<1>7. ASSUME NEW c \in Clients, NEW draft \in Drafts, Confirm(c, draft) PROVE ImportInv'
  BY <1>7, ConfirmKeeps
<1>8. CASE UNCHANGED importVars
  BY <1>8 DEF importVars, ImportInv, RowTypes, TokenOK, ViewOK, Current, ConfirmedHasItsDocument
<1>9. QED
  BY <1>1, <1>2, <1>3, <1>4, <1>5, <1>6, <1>7, <1>8, Zenon DEF ImportNext

LEMMA ImportAlways == ImportSpec => []ImportInv
BY ImportInvInit, ImportInvStep, PTL DEF ImportSpec

------------------------------------------------------------------------------
\* The rows of an import are well formed after every sequence of requests, and an
\* import under recognition waits for one attempt, which was started for it and with
\* the key its draft still has (document_import.go, startRecognition and finish).
THEOREM ImportTypeCorrect == ImportSpec => []ImportTypeOK
<1>1. ImportInv => ImportTypeOK
  BY DEF ImportInv, RowTypes, TokenOK, ImportTypeOK, TokenKeepsKey, ItemRows, AttemptRows,
         ViewRows, DocumentRows, Requests
<1>2. QED
  BY <1>1, ImportAlways, PTL

\* Whoever holds the current version of an import was shown its current draft, however
\* many people and recognitions changed the import in between.
THEOREM VersionsIdentifyDrafts == ImportSpec => []VersionIdentifiesDraft
<1>1. ImportInv => VersionIdentifiesDraft
  BY DEF ImportInv, ViewOK, VersionIdentifiesDraft
<1>2. QED
  BY <1>1, ImportAlways, PTL

\* An import and its document appear together and agree, and only the confirmation that
\* made the document is ever answered with success.
THEOREM DocumentsAreConfirmed == ImportSpec => []ConfirmedHasItsDocument
<1>1. ImportInv => ConfirmedHasItsDocument
  BY DEF ImportInv
<1>2. QED
  BY <1>1, ImportAlways, PTL

\* A reviewed draft changes in a step in which the saved draft is that of a row that
\* was not reviewed, or in a decision of a person.
LEMMA ReviewedDraftStays ==
    ASSUME ImportInv, ImportNext, NEW s \in Sources,
           item[s].reviewed, item'[s].draft # item[s].draft
    PROVE  \E c \in Clients, draft \in Drafts :
               view[c].source = s /\ (Review(c, draft) \/ Confirm(c, draft))
<1>1. item \in [Sources -> ItemRows] /\ attempt \in [Attempts -> AttemptRows]
      /\ view \in [Clients -> ViewRows]
  BY DEF ImportInv, RowTypes
<1>2. item' # item
  OBVIOUS
<1>3. ASSUME NEW t \in Sources, NEW row, Save(t, row)
      PROVE  t = s /\ row.draft # item[s].draft
  <2>1. item' = [item EXCEPT ![t] = [row EXCEPT !.version = row.version + 1]]
    BY <1>3 DEF Save
  <2>2. t = s
    BY <1>1, <2>1
  <2>3. item'[s] = [row EXCEPT !.version = row.version + 1]
    BY <1>1, <2>1, <2>2
  <2>4. item'[s].draft = row.draft
    BY <2>3
  <2>5. QED
    BY <2>2, <2>4
<1>4. ASSUME NEW c \in Clients, NEW t \in Sources, Upload(c, t) \/ Get(c, t) PROVE FALSE
  BY <1>1, <1>4 DEF Upload, Get, ItemRows
<1>5. ASSUME NEW r \in Attempts, AttemptLost(r) PROVE FALSE
  BY <1>5 DEF AttemptLost
<1>6. ASSUME NEW t \in Sources, LeaseExpires(t) PROVE FALSE
  BY <1>1, <1>6 DEF LeaseExpires, ItemRows
<1>7. ASSUME NEW r \in Attempts, NEW c \in Clients, Recognize(r, c) PROVE FALSE
  <2>. DEFINE t == view[c].source
              row == [item[t] EXCEPT !.status = "recognizing", !.token = r, !.leased = TRUE]
  <2>1. t \in Sources
    BY <1>1 DEF ViewRows
  <2>2. Save(t, row)
    BY <1>7, Zenon DEF Recognize
  <2>3. row.draft = item[t].draft
    BY <1>1, <2>1 DEF ItemRows
  <2>. HIDE DEF row, t
  <2>4. QED
    BY <1>3, <2>1, <2>2, <2>3
<1>8. ASSUME NEW r \in Attempts, FinishRecognition(r) PROVE FALSE
  <2>. DEFINE t == attempt[r].source
  <2>1. t \in Sources
    BY <1>1 DEF AttemptRows
  <2>2. CASE Save(t, [item[t] EXCEPT !.status = "failed", !.token = NoAttempt])
    <3>. DEFINE row == [item[t] EXCEPT !.status = "failed", !.token = NoAttempt]
    <3>1. Save(t, row) /\ row.draft = item[t].draft
      BY <1>1, <2>1, <2>2 DEF ItemRows
    <3>. HIDE DEF row, t
    <3>2. QED
      BY <1>3, <2>1, <3>1
  <2>3. ASSUME NEW content \in Contents \cup {Blank},
               Save(t, [item[t] EXCEPT !.status = "needs_review", !.token = NoAttempt,
                           !.draft = IF item[t].reviewed THEN item[t].draft
                                     ELSE [key |-> attempt[r].key, content |-> content]])
        PROVE  FALSE
    <3>. DEFINE draft == IF item[t].reviewed THEN item[t].draft
                         ELSE [key |-> attempt[r].key, content |-> content]
                row == [item[t] EXCEPT !.status = "needs_review", !.token = NoAttempt,
                                       !.draft = draft]
    <3>1. Save(t, row)
      BY <2>3
    <3>2. row.draft = draft
      BY <1>1, <2>1 DEF ItemRows
    <3>3. t = s => draft = item[s].draft
      OBVIOUS
    <3>. HIDE DEF row, draft, t
    <3>4. QED
      BY <1>3, <2>1, <3>1, <3>2, <3>3
  <2>4. QED
    BY <1>2, <1>8, <2>2, <2>3, Zenon DEF FinishRecognition
<1>9. ASSUME NEW c \in Clients, Reject(c) PROVE FALSE
  <2>. DEFINE t == view[c].source
              row == [item[t] EXCEPT !.status = "rejected", !.reviewed = TRUE]
  <2>1. t \in Sources
    BY <1>1 DEF ViewRows
  <2>2. Save(t, row)
    BY <1>9, Zenon DEF Reject
  <2>3. row.draft = item[t].draft
    BY <1>1, <2>1 DEF ItemRows
  <2>. HIDE DEF row, t
  <2>4. QED
    BY <1>3, <2>1, <2>2, <2>3
<1>10. PICK c \in Clients, draft \in Drafts : Review(c, draft) \/ Confirm(c, draft)
  BY <1>4, <1>5, <1>6, <1>7, <1>8, <1>9, Zenon DEF ImportNext
<1>11. view[c].source = s
  <2>. DEFINE t == view[c].source
  <2>1. t \in Sources
    BY <1>1 DEF ViewRows
  <2>2. PICK row : Save(t, row)
    BY <1>2, <1>10, Zenon DEF Review, Confirm
  <2>3. QED
    BY <1>3, <2>1, <2>2
<1>12. QED
  BY <1>10, <1>11

\* "Saved human corrections survive recognition retries": of a reviewed import, only a
\* review or the confirmation changes the draft, however late a recognition ends.
THEOREM CorrectionsAreKept == ImportSpec => CorrectionsSurvive
<1>1. ImportInv /\ [ImportNext]_importVars =>
         [\A s \in Sources :
             (item[s].reviewed /\ item'[s].draft # item[s].draft) =>
                 \E c \in Clients, draft \in Drafts :
                     view[c].source = s /\ (Review(c, draft) \/ Confirm(c, draft))]_importVars
  BY ReviewedDraftStays
<1>2. QED
  BY <1>1, ImportAlways, PTL DEF ImportSpec, CorrectionsSurvive
================================================================================

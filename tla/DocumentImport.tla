---------------------------- MODULE DocumentImport ----------------------------
(***************************************************************************)
(* The import of external documents into the ERP: an upload is recognized   *)
(* (outside any transaction, under a lease), reviewed by people and, once   *)
(* confirmed, becomes a business document.  Every write is a transaction    *)
(* under one tenant-wide advisory lock, so it is one action; what a client  *)
(* sends is a version and a draft it worked out from an earlier answer.     *)
(*                                                                          *)
(* A draft is its document key and its content; content is Blank while      *)
(* required fields are missing.  Drafts are taken as already normalized and *)
(* the confirmation hash as the draft itself.  Requests that are refused    *)
(* change nothing and have no action.                                       *)
(*                                                                          *)
(* Not modelled: access checks, file validation, the extraction's evidence, *)
(* the event that every save appends, and the rows of the business document *)
(* beyond its key and content.                                              *)
(***************************************************************************)
EXTENDS Integers

CONSTANTS
    Sources,     \* uploaded files: an object type and the hash of its files
    OwnKey,      \* the document key IMP-<id> given to each upload
    Contents,    \* complete contents of a draft
    Blank,       \* the content of a draft that lacks required fields
    Clients,     \* people at work on imports
    Attempts,    \* calls of Recognize, each with a token of its own
    NoAttempt,   \* no token
    MaxVersion   \* bound: the number of changes to one import

ASSUME ImportAssumption ==
    /\ Blank \notin Contents
    /\ NoAttempt \notin Attempts
    /\ "none" \notin Sources
    /\ MaxVersion \in Nat \ {0}
    /\ \A s, t \in Sources : OwnKey[s] = OwnKey[t] => s = t

VARIABLES
    item,      \* the import of each source
    attempt,   \* each recognition: the import it works on and the key it started with
    view,      \* what each client was last shown
    documents, \* the business document of each key
    accepted   \* history: confirmations a client was told have succeeded

importVars == <<item, attempt, view, documents, accepted>>

Keys == {OwnKey[s] : s \in Sources}

Drafts == [key : Keys, content : Contents \cup {Blank}]

Statuses == {"none", "uploaded", "recognizing", "needs_review", "failed", "confirmed", "rejected"}

NoDocument == [source |-> "none", draft |-> "none"]

NewItem(s) ==
    [status |-> "none", version |-> 1, draft |-> [key |-> OwnKey[s], content |-> Blank],
     token |-> NoAttempt, leased |-> FALSE, reviewed |-> FALSE,
     confirmedVersion |-> 0]

NoView(s) == [source |-> s, version |-> 0, draft |-> [key |-> OwnKey[s], content |-> Blank]]

\* An import under recognition waits for exactly one attempt, and the key that
\* attempt will write is still the key of the draft.
TokenKeepsKey ==
    \A s \in Sources :
        /\ item[s].status = "recognizing" <=> item[s].token # NoAttempt
        /\ item[s].token # NoAttempt =>
              /\ attempt[item[s].token].source = s
              /\ attempt[item[s].token].key = item[s].draft.key

\* The rows are well formed, the link from an import to its recognition included.
ImportTypeOK ==
    /\ item \in [Sources -> [status : Statuses, version : 1..MaxVersion, draft : Drafts,
                             token : Attempts \cup {NoAttempt}, leased : BOOLEAN,
                             reviewed : BOOLEAN, confirmedVersion : 0..MaxVersion]]
    /\ attempt \in [Attempts -> [at : {"ready", "running", "over"}, source : Sources, key : Keys]]
    /\ view \in [Clients -> [source : Sources, version : 0..MaxVersion, draft : Drafts]]
    /\ documents \in [Keys -> [source : Sources, draft : Drafts] \cup {NoDocument}]
    /\ accepted \subseteq [source : Sources, version : 0..MaxVersion, draft : Drafts]
    /\ TokenKeepsKey

ImportInit ==
    /\ item = [s \in Sources |-> NewItem(s)]
    /\ \E s \in Sources :
          /\ attempt = [r \in Attempts |-> [at |-> "ready", source |-> s, key |-> OwnKey[s]]]
          /\ view = [c \in Clients |-> NoView(s)]
    /\ documents = [k \in Keys |-> NoDocument]
    /\ accepted = {}

\* Mutant: the version is compared and never increased.
SaveUnversioned(s, row) ==
    /\ item[s].version < MaxVersion
    /\ item' = [item EXCEPT ![s] = row]

\* The update of one row, WHERE version = the version that was read.
Save(s, row) ==
    /\ item[s].version < MaxVersion
    /\ item' = [item EXCEPT ![s] = [row EXCEPT !.version = @ + 1]]

\* Mutant: people may work on an import under recognition.
EditableWhileRecognizing(status) ==
    status \in {"uploaded", "recognizing", "needs_review", "failed"}

editableImport(status) == status \in {"uploaded", "needs_review", "failed"}

Shown(s) == [source |-> s, version |-> item[s].version, draft |-> item[s].draft]

\* The same files uploaded again lead to the import that exists, whatever became of it.
Upload(c, s) ==
    /\ IF item[s].status = "none"
       THEN item' = [item EXCEPT ![s].status = "uploaded"]
       ELSE UNCHANGED item
    /\ view' = [view EXCEPT ![c] = Shown(s)]
    /\ UNCHANGED <<attempt, documents, accepted>>

Get(c, s) ==
    /\ item[s].status # "none"
    /\ view' = [view EXCEPT ![c] = Shown(s)]
    /\ UNCHANGED <<item, attempt, documents, accepted>>

\* The client's request is about the version it was shown.
Current(c) == item[view[c].source].version = view[c].version

------------------------------------------------------------------------------
(* Recognition *)

\* A new attempt takes the lease, also from an attempt whose lease has expired.
Recognize(r, c) ==
    LET s == view[c].source
        it == item[s]
    IN  /\ attempt[r].at = "ready"
        /\ Current(c)
        /\ it.status \notin {"none", "confirmed", "rejected"}
        /\ it.status = "recognizing" => ~it.leased
        /\ Save(s, [it EXCEPT !.status = "recognizing", !.token = r, !.leased = TRUE])
        /\ attempt' = [attempt EXCEPT ![r] =
                          [at |-> "running", source |-> s, key |-> it.draft.key]]
        /\ UNCHANGED <<view, documents, accepted>>

\* Mutant: the recognized draft replaces a reviewed one.
FinishOverReview(r) ==
    LET s == attempt[r].source
        it == item[s]
    IN  /\ attempt[r].at = "running"
        /\ attempt' = [attempt EXCEPT ![r].at = "over"]
        /\ IF it.status = "recognizing" /\ it.token = r
           THEN \E content \in Contents \cup {Blank} :
                   Save(s, [it EXCEPT !.status = "needs_review", !.token = NoAttempt,
                                      !.draft = [key |-> attempt[r].key, content |-> content]])
           ELSE UNCHANGED item
        /\ UNCHANGED <<view, documents, accepted>>

\* The attempt ends with a draft (the key is the one it started with) or an error;
\* it counts only if it still has the token, and a saved review keeps its draft.
FinishRecognition(r) ==
    LET s == attempt[r].source
        it == item[s]
    IN  /\ attempt[r].at = "running"
        /\ attempt' = [attempt EXCEPT ![r].at = "over"]
        /\ IF it.status = "recognizing" /\ it.token = r
           THEN \/ \E content \in Contents \cup {Blank} :
                      Save(s, [it EXCEPT !.status = "needs_review", !.token = NoAttempt,
                                  !.draft = IF it.reviewed THEN it.draft
                                            ELSE [key |-> attempt[r].key, content |-> content]])
                \/ Save(s, [it EXCEPT !.status = "failed", !.token = NoAttempt])
           ELSE UNCHANGED item
        /\ UNCHANGED <<view, documents, accepted>>

\* The server dies, or the result cannot be written within its ten seconds.
AttemptLost(r) ==
    /\ attempt[r].at = "running"
    /\ attempt' = [attempt EXCEPT ![r].at = "over"]
    /\ UNCHANGED <<item, view, documents, accepted>>

\* Three minutes have passed.
LeaseExpires(s) ==
    /\ item[s].status = "recognizing" /\ item[s].leased
    /\ item' = [item EXCEPT ![s].leased = FALSE]
    /\ UNCHANGED <<attempt, view, documents, accepted>>

------------------------------------------------------------------------------
(* Review *)

Review(c, draft) ==
    LET s == view[c].source IN
    /\ Current(c) /\ editableImport(item[s].status)
    /\ Save(s, [item[s] EXCEPT !.draft = draft, !.status = "needs_review", !.reviewed = TRUE])
    /\ UNCHANGED <<attempt, view, documents, accepted>>

Reject(c) ==
    LET s == view[c].source IN
    /\ Current(c) /\ editableImport(item[s].status)
    /\ Save(s, [item[s] EXCEPT !.status = "rejected", !.reviewed = TRUE])
    /\ UNCHANGED <<attempt, view, documents, accepted>>

Answer(c, draft) ==
    accepted' = accepted \cup
        {[source |-> view[c].source, version |-> view[c].version, draft |-> draft]}

\* Mutant: a confirmed import answers every later confirmation with success.
ConfirmAnyReplay(c, draft) ==
    LET s == view[c].source
        it == item[s]
    IN  /\ draft.content # Blank
        /\ IF it.status = "confirmed"
           THEN Answer(c, draft) /\ UNCHANGED <<item, documents>>
           ELSE /\ Current(c) /\ editableImport(it.status)
                /\ documents[draft.key] = NoDocument
                /\ documents' = [documents EXCEPT ![draft.key] = [source |-> s, draft |-> draft]]
                /\ Save(s, [it EXCEPT !.draft = draft, !.status = "confirmed", !.reviewed = TRUE,
                                      !.confirmedVersion = view[c].version])
                /\ Answer(c, draft) \/ UNCHANGED accepted
        /\ UNCHANGED <<attempt, view>>

\* One transaction writes the document and the import.  The answer may get lost;
\* the same request sent again is answered from the import.
Confirm(c, draft) ==
    LET s == view[c].source
        it == item[s]
    IN  /\ draft.content # Blank
        /\ IF it.status = "confirmed"
           THEN /\ it.draft = draft /\ it.confirmedVersion = view[c].version
                /\ Answer(c, draft)
                /\ UNCHANGED <<item, documents>>
           ELSE /\ Current(c) /\ editableImport(it.status)
                /\ documents[draft.key] = NoDocument
                /\ documents' = [documents EXCEPT ![draft.key] = [source |-> s, draft |-> draft]]
                /\ Save(s, [it EXCEPT !.draft = draft, !.status = "confirmed", !.reviewed = TRUE,
                                      !.confirmedVersion = view[c].version])
                /\ Answer(c, draft) \/ UNCHANGED accepted
        /\ UNCHANGED <<attempt, view>>

ImportNext ==
    \/ \E c \in Clients, s \in Sources : Upload(c, s) \/ Get(c, s)
    \/ \E r \in Attempts : \/ \E c \in Clients : Recognize(r, c)
                           \/ FinishRecognition(r)
                           \/ AttemptLost(r)
    \/ \E s \in Sources : LeaseExpires(s)
    \/ \E c \in Clients : \/ Reject(c)
                          \/ \E draft \in Drafts : Review(c, draft) \/ Confirm(c, draft)

ImportSpec == ImportInit /\ [][ImportNext]_importVars

------------------------------------------------------------------------------
\* A version stands for one content: whoever holds the current version was shown
\* the current draft, so that nobody confirms, rejects or replaces a draft that
\* changed after he saw it, by a colleague or by a recognition that came late.
VersionIdentifiesDraft ==
    \A c \in Clients : Current(c) => view[c].draft = item[view[c].source].draft

\* "Saved human corrections survive recognition retries": once an import was
\* reviewed, only a review or the confirmation changes its draft.
CorrectionsSurvive ==
    [][\A s \in Sources :
          (item[s].reviewed /\ item'[s].draft # item[s].draft) =>
              \E c \in Clients, draft \in Drafts :
                  view[c].source = s /\ (Review(c, draft) \/ Confirm(c, draft))]_importVars

\* An import and its business document appear together: a confirmed import has
\* exactly one document, with the draft that was confirmed, and no other import has
\* any; neither changes afterwards.  And whoever was told that a confirmation succeeded
\* was told so of the version and draft that became the document: of two different
\* confirmations one is refused, in whatever order answers get lost and requests are
\* sent again.
ConfirmedHasItsDocument ==
    /\ \A s \in Sources :
        {k \in Keys : documents[k] # NoDocument /\ documents[k].source = s} =
            IF item[s].status = "confirmed" THEN {item[s].draft.key} ELSE {}
    /\ \A k \in Keys :
        documents[k] # NoDocument => documents[k].draft = item[documents[k].source].draft
    /\ \A a \in accepted :
        /\ item[a.source].status = "confirmed"
        /\ a.draft = item[a.source].draft
        /\ a.version = item[a.source].confirmedVersion
==============================================================================

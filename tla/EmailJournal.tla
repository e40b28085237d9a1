---------------------------- MODULE EmailJournal ----------------------------
(***************************************************************************)
(* The durable journal of SMTP operations,                                 *)
(* tools/native/email_journal.py.  One row per (draft, version), kept in   *)
(* SQLite: it survives a crash of the daemon.  Every method runs in one    *)
(* BEGIN IMMEDIATE transaction, so each is a single step here.             *)
(*                                                                         *)
(* A row freezes the content it was claimed with and moves once, from      *)
(* "submitting" to a terminal status.  An unknown outcome may then be      *)
(* reconciled, once, by the operator.                                      *)
(***************************************************************************)
EXTENDS Naturals

CONSTANTS
  Drafts,      \* drafts of replies
  MaxVersion,  \* bound: the highest version of a draft
  Contents,    \* what a version of a draft says (envelope hash)
  NoContent    \* the content of a row that does not exist

ASSUME MaxVersionIsPositive == MaxVersion \in Nat \ {0}
ASSUME NoContentIsNoContent == NoContent \notin Contents

Versions == 1 .. MaxVersion

VARIABLE ops   \* ops[d][v] is the row of version v of draft d

TERMINAL_STATUSES == {"smtp_accepted", "failed_before_submission", "outcome_unknown"}

Outcomes == {"smtp_accepted", "confirmed_not_sent"}

NoOperation == [status |-> "none", content |-> NoContent, reconciled |-> "none"]

Submitting(c) == [status |-> "submitting", content |-> c, reconciled |-> "none"]

Operations == [status : {"none", "submitting"} \cup TERMINAL_STATUSES,
               content : Contents \cup {NoContent},
               reconciled : {"none"} \cup Outcomes]

JournalTypeOK == ops \in [Drafts -> [Versions -> Operations]]

JournalInit == ops = [d \in Drafts |-> [v \in Versions |-> NoOperation]]

-----------------------------------------------------------------------------

for_draft(d, v) == ops[d][v]

Exists(d, v) == for_draft(d, v).status # "none"

\* _blocks: the operation was submitted, or may have been.
Blocks(op) == \/ op.status \in {"submitting", "smtp_accepted"}
              \/ /\ op.status = "outcome_unknown"
                 /\ op.reconciled # "confirmed_not_sent"

blocks_draft(d) == \E v \in Versions : Blocks(ops[d][v])

\* A mistake in claim: one that goes back behind a newer version.
ClaimsOutOfOrder(d, v) == ~Exists(d, v) /\ ~blocks_draft(d)

\* The three answers of claim: the row is new, it is there already with the
\* same frozen content, or the call raises ValueError.
ClaimCreates(d, v) == /\ ~Exists(d, v)
                      /\ ~blocks_draft(d)
                      /\ \A w \in Versions : Exists(d, w) => w < v

ClaimReturnsExisting(d, v, c) == Exists(d, v) /\ for_draft(d, v).content = c

claim(d, v, c) == /\ ClaimCreates(d, v)
                  /\ ops' = [ops EXCEPT ![d][v] = Submitting(c)]

\* finish of a row that is already terminal either repeats the same status or
\* raises: in neither case does the row change.
finish(d, v, s) == /\ s \in TERMINAL_STATUSES
                   /\ Exists(d, v)
                   /\ ops' = IF for_draft(d, v).status = "submitting"
                             THEN [ops EXCEPT ![d][v].status = s]
                             ELSE ops

reconcile(d, v, outcome) == /\ for_draft(d, v).status = "outcome_unknown"
                            /\ for_draft(d, v).reconciled = "none"
                            /\ ops' = [ops EXCEPT ![d][v].reconciled = outcome]

\* Mistakes in the recovery: a status the table does not allow, taking an
\* interrupted submission for one that never happened, and an UPDATE of the
\* finished rows as well.
RecoversUntyped(op) ==
  IF op.status = "submitting" THEN [op EXCEPT !.status = "interrupted"] ELSE op

RecoversAsFailed(op) ==
  IF op.status = "submitting" THEN [op EXCEPT !.status = "failed_before_submission"] ELSE op

RecoversEveryRow(op) ==
  IF op.status = "none" THEN op ELSE [op EXCEPT !.status = "outcome_unknown"]

RecoveredOperation(op) ==
  IF op.status = "submitting" THEN [op EXCEPT !.status = "outcome_unknown"] ELSE op

\* The UPDATE of every row that the stopped daemon left "submitting".
recover_submitting ==
  ops' = [d \in Drafts |-> [v \in Versions |-> RecoveredOperation(ops[d][v])]]

JournalNext ==
  \/ \E d \in Drafts, v \in Versions :
       \/ \E c \in Contents : claim(d, v, c)
       \/ \E s \in TERMINAL_STATUSES : finish(d, v, s)
       \/ \E o \in Outcomes : reconcile(d, v, o)
  \/ recover_submitting

JournalSpec == JournalInit /\ [][JournalNext]_ops

-----------------------------------------------------------------------------

\* At most one operation of a draft is, or may have been, with the SMTP
\* server, whatever versions, claims, recoveries and reconciliations came
\* before (claim's refusals and the UNIQUE key of the table).
OneBlockingOperation ==
  \A d \in Drafts, v, w \in Versions :
    Blocks(ops[d][v]) /\ Blocks(ops[d][w]) => v = w

\* The operation that blocks a draft is the newest one: no version is claimed
\* past an unresolved submission, and none older than an operation there is.
BlockingIsNewest ==
  \A d \in Drafts, v, w \in Versions :
    Blocks(ops[d][v]) /\ Exists(d, w) => w <= v

\* A row is never rewritten: its content is frozen when it is claimed, its
\* terminal status stays, its reconciliation stays, and an operation that was
\* known to be accepted, or to have failed, is never reconciled.
RowIsHistory(old, new) ==
  /\ old.status # "none" => new.content = old.content
  /\ old.status \in TERMINAL_STATUSES => new.status = old.status
  /\ old.reconciled # "none" => new.reconciled = old.reconciled
  /\ new.reconciled # "none" => new.status = "outcome_unknown"

JournalIsHistory ==
  [][\A d \in Drafts, v \in Versions : RowIsHistory(ops[d][v], ops'[d][v])]_ops

=============================================================================

------------------------- MODULE EmailJournalProofs -------------------------
(***************************************************************************)
(* The journal's invariants, for every set of drafts and every number of   *)
(* versions.                                                               *)
(***************************************************************************)
EXTENDS EmailJournal, TLAPS

\* Only an unknown outcome is ever reconciled.
ReconciledWasUnknown ==
  \A d \in Drafts, v \in Versions :
    ops[d][v].reconciled # "none" => ops[d][v].status = "outcome_unknown"

\* The inductive invariant: BlockingIsNewest gives OneBlockingOperation, since
\* of two blocking operations each is newest.
JournalInv == JournalTypeOK /\ BlockingIsNewest /\ ReconciledWasUnknown

USE DEF Versions

\* What recover_submitting does to a row, seen through the tests of the journal.
LEMMA RecoveredRow ==
  ASSUME NEW op \in Operations
  PROVE  /\ RecoveredOperation(op) \in Operations
         /\ Blocks(RecoveredOperation(op)) => Blocks(op)
         /\ (RecoveredOperation(op).status # "none") => (op.status # "none")
         /\ RecoveredOperation(op).reconciled = op.reconciled
         /\ RecoveredOperation(op).content = op.content
         /\ op.status # "submitting" => RecoveredOperation(op) = op
  BY DEF RecoveredOperation, Blocks, Operations, TERMINAL_STATUSES

\* No journal at its creation breaks the invariant.
LEMMA JournalInitInv == JournalInit => JournalInv
  BY DEF JournalInit, JournalInv, JournalTypeOK, BlockingIsNewest, ReconciledWasUnknown,
         Blocks, Exists, for_draft, NoOperation, Operations

LEMMA JournalStepInv == JournalInv /\ [JournalNext]_ops => JournalInv'
<1> SUFFICES ASSUME JournalInv, [JournalNext]_ops PROVE JournalInv'
  OBVIOUS
<1> USE DEF JournalInv
<1>1. ASSUME NEW d \in Drafts, NEW v \in Versions, NEW c \in Contents, claim(d, v, c)
      PROVE  JournalInv'
  <2>1. JournalTypeOK'
    BY <1>1 DEF claim, JournalTypeOK, Operations, Submitting
  <2>2. BlockingIsNewest'
    BY <1>1 DEF claim, JournalTypeOK, BlockingIsNewest, ClaimCreates, blocks_draft, Exists,
                for_draft, Blocks, Submitting
  <2>3. ReconciledWasUnknown'
    BY <1>1 DEF claim, JournalTypeOK, ReconciledWasUnknown, Submitting
  <2> QED BY <2>1, <2>2, <2>3
<1>2. ASSUME NEW d \in Drafts, NEW v \in Versions, NEW s \in TERMINAL_STATUSES, finish(d, v, s)
      PROVE  JournalInv'
  <2>1. JournalTypeOK'
    <3>1. ops[d][v] \in Operations
      BY DEF JournalTypeOK
    <3>2. [ops[d][v] EXCEPT !.status = s] \in Operations
      BY <3>1 DEF Operations
    <3> QED BY <1>2, <3>2 DEF finish, JournalTypeOK
  <2>2. BlockingIsNewest'
    BY <1>2 DEF finish, JournalTypeOK, Operations, BlockingIsNewest, Exists, for_draft, Blocks
  <2>3. ReconciledWasUnknown'
    BY <1>2 DEF finish, JournalTypeOK, Operations, ReconciledWasUnknown, for_draft
  <2> QED BY <2>1, <2>2, <2>3
<1>3. ASSUME NEW d \in Drafts, NEW v \in Versions, NEW o \in Outcomes, reconcile(d, v, o)
      PROVE  JournalInv'
  <2>1. JournalTypeOK'
    <3>1. ops[d][v] \in Operations
      BY DEF JournalTypeOK
    <3>2. [ops[d][v] EXCEPT !.reconciled = o] \in Operations
      BY <3>1 DEF Operations
    <3> QED BY <1>3, <3>2 DEF reconcile, JournalTypeOK
  <2>2. BlockingIsNewest'
    BY <1>3 DEF reconcile, JournalTypeOK, Operations, BlockingIsNewest, Exists, for_draft, Blocks
  <2>3. ReconciledWasUnknown'
    BY <1>3 DEF reconcile, JournalTypeOK, Operations, ReconciledWasUnknown, for_draft
  <2> QED BY <2>1, <2>2, <2>3
<1>4. CASE recover_submitting
  <2>1. \A d \in Drafts, v \in Versions :
          ops[d][v] \in Operations /\ ops'[d][v] = RecoveredOperation(ops[d][v])
    BY <1>4 DEF recover_submitting, JournalTypeOK
  <2>2. JournalTypeOK'
    <3>1. \A d \in Drafts, v \in Versions : ops'[d][v] \in Operations
      BY <2>1, RecoveredRow
    <3> QED BY <1>4, <3>1 DEF recover_submitting, JournalTypeOK
  <2>3. BlockingIsNewest'
    BY <2>1, RecoveredRow DEF BlockingIsNewest, Exists, for_draft
  <2>4. ReconciledWasUnknown'
    BY <2>1, RecoveredRow DEF ReconciledWasUnknown
  <2> QED BY <2>2, <2>3, <2>4
<1>5. CASE UNCHANGED ops
  BY <1>5 DEF JournalTypeOK, BlockingIsNewest, ReconciledWasUnknown, Exists, for_draft
<1> QED BY <1>1, <1>2, <1>3, <1>4, <1>5 DEF JournalNext

LEMMA JournalInvAlways == JournalSpec => []JournalInv
  BY JournalInitInv, JournalStepInv, PTL DEF JournalSpec

\* The rows of the journal are well formed.
THEOREM JournalTyped == JournalSpec => []JournalTypeOK
<1>1. JournalInv => JournalTypeOK BY DEF JournalInv
<1> QED BY <1>1, JournalInvAlways, PTL

\* However claims, results, recoveries and reconciliations interleave, at most
\* one operation of a draft was or may have been submitted.
THEOREM OneBlockingOperationAlways == JournalSpec => []OneBlockingOperation
<1>1. JournalInv => OneBlockingOperation
  <2> SUFFICES ASSUME JournalInv, NEW d \in Drafts, NEW v \in Versions, NEW w \in Versions,
                      Blocks(ops[d][v]), Blocks(ops[d][w])
               PROVE  v = w
    BY DEF OneBlockingOperation
  <2>1. Exists(d, v) /\ Exists(d, w)
    BY DEF Blocks, Exists, for_draft
  <2>2. v <= w /\ w <= v
    BY <2>1 DEF JournalInv, BlockingIsNewest
  <2> QED BY <2>2, MaxVersionIsPositive
<1> QED BY <1>1, JournalInvAlways, PTL

\* A claim is never overtaken: the operation that blocks is the newest.
THEOREM BlockingIsNewestAlways == JournalSpec => []BlockingIsNewest
<1>1. JournalInv => BlockingIsNewest BY DEF JournalInv
<1> QED BY <1>1, JournalInvAlways, PTL

\* No row of the journal is ever rewritten.
THEOREM JournalIsHistoryAlways == JournalSpec => JournalIsHistory
<1> DEFINE Step == \A d \in Drafts, v \in Versions : RowIsHistory(ops[d][v], ops'[d][v])
<1>1. JournalInv /\ JournalInv' /\ [JournalNext]_ops => [Step]_ops
  <2> SUFFICES ASSUME JournalInv, JournalInv', JournalNext,
                      NEW d \in Drafts, NEW v \in Versions
               PROVE  RowIsHistory(ops[d][v], ops'[d][v])
    OBVIOUS
  <2> USE DEF JournalInv, JournalTypeOK, Operations, RowIsHistory
  <2>0. ops'[d][v].reconciled # "none" => ops'[d][v].status = "outcome_unknown"
    BY DEF ReconciledWasUnknown
  <2>1. ASSUME NEW e \in Drafts, NEW w \in Versions, NEW c \in Contents, claim(e, w, c)
        PROVE  RowIsHistory(ops[d][v], ops'[d][v])
    BY <2>0, <2>1 DEF claim, ClaimCreates, Exists, for_draft, Submitting, TERMINAL_STATUSES,
                      ReconciledWasUnknown
  <2>2. ASSUME NEW e \in Drafts, NEW w \in Versions, NEW s \in TERMINAL_STATUSES, finish(e, w, s)
        PROVE  RowIsHistory(ops[d][v], ops'[d][v])
    BY <2>0, <2>2 DEF finish, for_draft, TERMINAL_STATUSES
  <2>3. ASSUME NEW e \in Drafts, NEW w \in Versions, NEW o \in Outcomes, reconcile(e, w, o)
        PROVE  RowIsHistory(ops[d][v], ops'[d][v])
    <3>1. CASE d = e /\ v = w
      <4>1. ops'[d][v] = [ops[d][v] EXCEPT !.reconciled = o]
        BY <2>3, <3>1 DEF reconcile
      <4> QED BY <2>0, <2>3, <3>1, <4>1 DEF reconcile, for_draft
    <3>2. CASE ~(d = e /\ v = w)
      <4>1. ops'[d][v] = ops[d][v]
        BY <2>3, <3>2 DEF reconcile
      <4> QED BY <2>0, <4>1
    <3> QED BY <3>1, <3>2
  <2>4. CASE recover_submitting
    <3>1. ops'[d][v] = RecoveredOperation(ops[d][v])
      BY <2>4 DEF recover_submitting
    <3> QED BY <2>0, <3>1 DEF RecoveredOperation, TERMINAL_STATUSES
  <2> QED BY <2>1, <2>2, <2>3, <2>4 DEF JournalNext
<1> QED BY <1>1, JournalInvAlways, PTL DEF JournalSpec, JournalIsHistory

=============================================================================

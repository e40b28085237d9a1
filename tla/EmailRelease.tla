---------------------------- MODULE EmailRelease ----------------------------
(***************************************************************************)
(* The release of a reviewed reply: the draft box (tools/native/email.py), *)
(* the review queue (approval/queue.py), the handlers that review, edit,   *)
(* approve and send (daemon/approval_handlers.py), the actuator email.send *)
(* and the SMTP client (tools/native/email_delivery.py), the journal       *)
(* (EmailJournal), and what startup makes of the stores after a crash      *)
(* (app.py).                                                               *)
(*                                                                         *)
(* The daemon is one asyncio loop.  A handler runs without interruption    *)
(* from one await to the next, so an action is such a stretch, and any     *)
(* other handler may run between two of them.  Drafts, reviews and         *)
(* operations are durable; the executions of handlers die with the daemon. *)
(***************************************************************************)
EXTENDS EmailJournal, Sequences

CONSTANTS
  MaxReviews,   \* bound: how many reviews are ever submitted
  MaxRestarts,  \* bound: how often the daemon is stopped
  Labels,       \* label tags an origin session can carry
  Releasable    \* those this release path may declassify ("personal")

ASSUME MaxReviewsIsNat == MaxReviews \in Nat
ASSUME MaxRestartsIsNat == MaxRestarts \in Nat
ASSUME ReleasableAreLabels == Releasable \subseteq Labels

Ids == 1 .. MaxReviews

VARIABLES
  drafts,    \* drafts[d]: the saved draft; version 0 before it is created
  origin,    \* origin[d]: the session and the mailbox the draft came from
  reviews,   \* reviews[r]: the review with approval id r
  exec,      \* exec[r]: how far the approve handler of review r has come
  wire,      \* the messages the SMTP server accepted, in order
  daemon,    \* "up", "boot" (app.startup running) or "failed" (it raised)
  cursor,    \* the next review that startup looks at
  restarts   \* how often the daemon has been stopped

vars == <<ops, drafts, origin, reviews, exec, wire, daemon, cursor, restarts>>

-----------------------------------------------------------------------------
(* States *)

NoDraft == [version |-> 0, content |-> NoContent, present |-> FALSE]

DraftStates ==
  [version : Versions, content : Contents, present : BOOLEAN] \cup {NoDraft}

OriginStates == [labels : SUBSET Labels, active : BOOLEAN, sourceOk : BOOLEAN]

\* A review is bound to one version of one draft, its content, and the labels
\* the origin session had.  not_submitted is decision_scope's execution_status
\* "failed_before_submission".
ReviewStatuses == {"pending", "approved", "denied", "deferred", "expired", "superseded"}

Reviews == [status : ReviewStatuses,
            draft : Drafts, version : Versions, content : Contents,
            labels : SUBSET Labels, not_submitted : BOOLEAN]

NoReview == [status |-> "none"]

\* The approve handler: awaiting authentication ("auth"); approved and
\* preparing the one-shot session ("prepare"); row claimed and the worker
\* thread connecting ("claimed"), past the DATA command ("data"), accepted by
\* the server but not yet told so ("accepted"); back in email_send with the
\* thread's answer ("replied"); back in the handler ("returned").  A handler
\* that raised between the decision and its execution leaves it "orphaned".
Stages == {"idle", "auth", "prepare", "orphaned", "claimed", "data", "accepted", "replied",
           "returned"}

Executions == [at : Stages, reply : {"none"} \cup TERMINAL_STATUSES, delivered : BOOLEAN]

Idle == [at |-> "idle", reply |-> "none", delivered |-> FALSE]

At(stage) == [Idle EXCEPT !.at = stage]

Replied(s) == [Idle EXCEPT !.at = "replied", !.reply = s]

Returned(delivered) == [Idle EXCEPT !.at = "returned", !.delivered = delivered]

Messages == [draft : Drafts, version : Versions, content : Contents, review : Ids]

TypeOK ==
  /\ JournalTypeOK
  /\ drafts \in [Drafts -> DraftStates]
  /\ origin \in [Drafts -> OriginStates]
  /\ reviews \in [Ids -> Reviews \cup {NoReview}]
  /\ exec \in [Ids -> Executions]
  /\ wire \in Seq(Messages)
  /\ daemon \in {"up", "boot", "failed"}
  /\ cursor \in 1 .. MaxReviews + 1
  /\ restarts \in 0 .. MaxRestarts

Init ==
  /\ JournalInit
  /\ drafts = [d \in Drafts |-> NoDraft]
  /\ origin = [d \in Drafts |-> [labels |-> {}, active |-> TRUE, sourceOk |-> TRUE]]
  /\ reviews = [r \in Ids |-> NoReview]
  /\ exec = [r \in Ids |-> Idle]
  /\ wire = <<>>
  /\ daemon = "up"
  /\ cursor = 1
  /\ restarts = 0

-----------------------------------------------------------------------------
(* The draft box and the world around it *)

\* email.reply_create: a reply to a message the session read, carrying the
\* labels of the message and of the session.
reply_create(d, c, l) ==
  /\ daemon = "up"
  /\ drafts[d] = NoDraft
  /\ origin[d].sourceOk
  /\ drafts' = [drafts EXCEPT ![d] = [version |-> 1, content |-> c, present |-> TRUE]]
  /\ origin' = [origin EXCEPT ![d].labels = @ \cup {l}]
  /\ UNCHANGED <<ops, reviews, exec, wire, daemon, cursor, restarts>>

\* A mistake in email.draft_update: the journal is not consulted.
UpdatesBlockedDraft(d, c) ==
  /\ daemon = "up"
  /\ drafts[d].present
  /\ drafts[d].version < MaxVersion
  /\ drafts' = [drafts EXCEPT ![d].version = @ + 1, ![d].content = c]
  /\ UNCHANGED <<ops, origin, reviews, exec, wire, daemon, cursor, restarts>>

\* The tool email.draft_update, called by the agent or, after the withdrawal
\* below, by the operator's edit.  It looks at the journal, not at the reviews.
draft_update(d, c) ==
  /\ daemon = "up"
  /\ drafts[d].present
  /\ ~blocks_draft(d)
  /\ drafts[d].version < MaxVersion
  /\ drafts' = [drafts EXCEPT ![d].version = @ + 1, ![d].content = c]
  /\ UNCHANGED <<ops, origin, reviews, exec, wire, daemon, cursor, restarts>>

\* The tool email.draft_send, the agent's own way to send a draft, outside the
\* review and the journal: what it does here is to discard the draft.
email_draft_send(d) ==
  /\ daemon = "up"
  /\ drafts[d].present
  /\ drafts' = [drafts EXCEPT ![d].present = FALSE]
  /\ UNCHANGED <<ops, origin, reviews, exec, wire, daemon, cursor, restarts>>

\* The session's labels grow, it is paused, resumed or ended, the mailbox is
\* renumbered (UIDVALIDITY) or the sending account changes.
OriginChanges(d) ==
  /\ daemon = "up"
  /\ drafts[d].present
  /\ \/ \E l \in Labels \ origin[d].labels :
          origin' = [origin EXCEPT ![d].labels = @ \cup {l}]
     \/ origin' = [origin EXCEPT ![d].active = ~@]
     \/ origin' = [origin EXCEPT ![d].sourceOk = ~@]
  /\ UNCHANGED <<ops, drafts, reviews, exec, wire, daemon, cursor, restarts>>

-----------------------------------------------------------------------------
(* Reviews *)

Pending(r) == reviews[r].status = "pending"

\* _allocate_id: identifiers grow and are never used again.
NextId(r) == /\ reviews[r] = NoReview
             /\ \A q \in Ids : q < r => reviews[q] # NoReview

\* What a review of the draft as it is now would be bound to.
ReviewOf(d) == [status |-> "pending", draft |-> d, version |-> drafts[d].version,
                content |-> drafts[d].content, labels |-> origin[d].labels,
                not_submitted |-> FALSE]

SamePayload(q, d) == /\ reviews[q].draft = d
                     /\ reviews[q].version = drafts[d].version
                     /\ reviews[q].content = drafts[d].content

\* email.draft_review; a pending review of the same payload is returned as it is.
email_draft_review(d, r) ==
  /\ daemon = "up"
  /\ drafts[d].present
  /\ origin[d].labels \subseteq Releasable
  /\ origin[d].sourceOk
  /\ ~blocks_draft(d)
  /\ ~Exists(d, drafts[d].version)
  /\ ~\E q \in Ids : Pending(q) /\ SamePayload(q, d)
  /\ NextId(r)
  /\ reviews' = [reviews EXCEPT ![r] = ReviewOf(d)]
  /\ UNCHANGED <<ops, drafts, origin, exec, wire, daemon, cursor, restarts>>

\* approval.deny, approval.defer, and the expiry that every access to a review
\* past its time to live performs.
DecideAgainst(r, status) ==
  /\ daemon = "up"
  /\ Pending(r)
  /\ reviews' = [reviews EXCEPT ![r].status = status]
  /\ UNCHANGED <<ops, drafts, origin, exec, wire, daemon, cursor, restarts>>

Related(r, d, v) == /\ reviews[r] # NoReview
                    /\ reviews[r].draft = d
                    /\ reviews[r].version = v

\* The approved reviews of a version forbid its edit, unless their execution is
\* known to have sent nothing.
KnownNotSent(r) ==
  \/ reviews[r].not_submitted
  \/ LET op == for_draft(reviews[r].draft, reviews[r].version) IN
       op.status = "failed_before_submission" \/ op.reconciled = "confirmed_not_sent"

\* A mistake in the withdrawal: approved reviews are superseded as well.
WithdrawsApproved(d, v) ==
  /\ daemon = "up"
  /\ ~blocks_draft(d)
  /\ \E r \in Ids : Related(r, d, v)
  /\ reviews' = [r \in Ids |-> IF Related(r, d, v)
                               THEN [reviews[r] EXCEPT !.status = "superseded"]
                               ELSE reviews[r]]
  /\ UNCHANGED <<ops, drafts, origin, exec, wire, daemon, cursor, restarts>>

\* _withdraw_draft_reviews, the first stretch of email.draft_begin_edit and of
\* email.draft_update: the pending reviews of the version are superseded.
withdraw_draft_reviews(d, v) ==
  /\ daemon = "up"
  /\ ~blocks_draft(d)
  /\ \A r \in Ids : Related(r, d, v) /\ reviews[r].status = "approved" => KnownNotSent(r)
  /\ \E r \in Ids : Related(r, d, v) /\ Pending(r)
  /\ reviews' = [r \in Ids |-> IF Related(r, d, v) /\ Pending(r)
                               THEN [reviews[r] EXCEPT !.status = "superseded"]
                               ELSE reviews[r]]
  /\ UNCHANGED <<ops, drafts, origin, exec, wire, daemon, cursor, restarts>>

-----------------------------------------------------------------------------
(* Approval *)

DraftAsReviewed(r) == LET v == reviews[r]
                          d == drafts[v.draft] IN
  d.present /\ d.version = v.version /\ d.content = v.content

OriginAsReviewed(r) == LET o == origin[reviews[r].draft] IN
  o.sourceOk /\ o.active /\ o.labels = reviews[r].labels

\* _validate_reviewed_draft
ReviewedDraftIsValid(r) ==
  /\ DraftAsReviewed(r)
  /\ OriginAsReviewed(r)
  /\ reviews[r].labels \subseteq Releasable

\* ApprovalQueue.approve: the decision is durable before anything is executed.
RecordApproved(r) ==
  /\ reviews' = [reviews EXCEPT ![r].status = "approved"]
  /\ exec' = [exec EXCEPT ![r] = At("prepare")]

\* approval.approve where no strong authentication is required.
approve_locked(r) ==
  /\ daemon = "up"
  /\ Pending(r)
  /\ exec[r].at = "idle"
  /\ ReviewedDraftIsValid(r)
  /\ RecordApproved(r)
  /\ UNCHANGED <<ops, drafts, origin, wire, daemon, cursor, restarts>>

\* Otherwise the handler awaits the authentication of the operator, holding the
\* lock of this review and no other.
BeginAuthentication(r) ==
  /\ daemon = "up"
  /\ Pending(r)
  /\ exec[r].at = "idle"
  /\ ReviewedDraftIsValid(r)
  /\ exec' = [exec EXCEPT ![r] = At("auth")]
  /\ UNCHANGED <<ops, drafts, origin, reviews, wire, daemon, cursor, restarts>>

\* After the await the review and the draft are read again.
Authenticated(r) ==
  /\ daemon = "up"
  /\ exec[r].at = "auth"
  /\ Pending(r)
  /\ ReviewedDraftIsValid(r)
  /\ RecordApproved(r)
  /\ UNCHANGED <<ops, drafts, origin, wire, daemon, cursor, restarts>>

\* The authentication fails, or what it was for has changed meanwhile.
NotAuthenticated(r) ==
  /\ daemon = "up"
  /\ exec[r].at = "auth"
  /\ exec' = [exec EXCEPT ![r] = Idle]
  /\ UNCHANGED <<ops, drafts, origin, reviews, wire, daemon, cursor, restarts>>

-----------------------------------------------------------------------------
(* Execution of an approved review *)

DraftOf(r) == reviews[r].draft
VersionOf(r) == reviews[r].version
ContentOf(r) == reviews[r].content

\* A mistake in email_send: a version that failed is claimed again in place.
ReclaimsRow(r) ==
  /\ daemon = "up"
  /\ exec[r].at = "prepare"
  /\ DraftAsReviewed(r)
  /\ OriginAsReviewed(r)
  /\ ~blocks_draft(DraftOf(r))
  /\ ops' = [ops EXCEPT ![DraftOf(r)][VersionOf(r)] = Submitting(ContentOf(r))]
  /\ exec' = [exec EXCEPT ![r] = At("claimed")]
  /\ UNCHANGED <<drafts, origin, reviews, wire, daemon, cursor, restarts>>

\* The stretch of email_send up to the worker thread: the draft, its source and
\* its session are checked once more and the version is claimed.  A sending
\* account that has changed (sourceOk) is met here; the code meets it in deliver, after
\* the claim, as one of the failures before DATA that deliver has at that stage.
email_send(r) ==
  /\ daemon = "up"
  /\ exec[r].at = "prepare"
  /\ DraftAsReviewed(r)
  /\ OriginAsReviewed(r)
  /\ claim(DraftOf(r), VersionOf(r), ContentOf(r))
  /\ exec' = [exec EXCEPT ![r] = At("claimed")]
  /\ UNCHANGED <<drafts, origin, reviews, wire, daemon, cursor, restarts>>

\* The version is claimed already: nothing is sent, and the answer is how far
\* that operation has come.
email_send_existing(r) ==
  /\ daemon = "up"
  /\ exec[r].at = "prepare"
  /\ DraftAsReviewed(r)
  /\ OriginAsReviewed(r)
  /\ ClaimReturnsExisting(DraftOf(r), VersionOf(r), ContentOf(r))
  /\ exec' = [exec EXCEPT ![r] =
                Returned(for_draft(DraftOf(r), VersionOf(r)).status = "smtp_accepted")]
  /\ UNCHANGED <<ops, drafts, origin, reviews, wire, daemon, cursor, restarts>>

\* ApprovalQueue.approve raises after it has recorded the decision (the audit
\* write fails): the handler has not reached the try that would account for it.
ApproveRaises(r) ==
  /\ daemon = "up"
  /\ exec[r].at = "prepare"
  /\ exec' = [exec EXCEPT ![r] = At("orphaned")]
  /\ UNCHANGED <<ops, drafts, origin, reviews, wire, daemon, cursor, restarts>>

\* Anything that stops the execution before the claim: the chokepoint denies
\* the call, a check or the claim raises, the handler is cancelled.
StoppedBeforeClaim(r) ==
  /\ daemon = "up"
  /\ exec[r].at = "prepare"
  /\ exec' = [exec EXCEPT ![r] = Returned(FALSE)]
  /\ UNCHANGED <<ops, drafts, origin, reviews, wire, daemon, cursor, restarts>>

\* send_via_smtp crosses the DATA boundary.
SmtpData(r) ==
  /\ daemon = "up"
  /\ exec[r].at = "claimed"
  /\ exec' = [exec EXCEPT ![r] = At("data")]
  /\ UNCHANGED <<ops, drafts, origin, reviews, wire, daemon, cursor, restarts>>

\* The server accepts the message (external).
SmtpAccepts(r) ==
  /\ daemon = "up"
  /\ exec[r].at = "data"
  /\ wire' = Append(wire, [draft |-> DraftOf(r), version |-> VersionOf(r),
                           content |-> ContentOf(r), review |-> r])
  /\ exec' = [exec EXCEPT ![r] = At("accepted")]
  /\ UNCHANGED <<ops, drafts, origin, reviews, daemon, cursor, restarts>>

\* A mistake in send_via_smtp: any error is taken for a failure.
EveryErrorIsFailure(stage) ==
  IF stage = "accepted" THEN {"smtp_accepted", "failed_before_submission"}
                        ELSE {"failed_before_submission"}

\* What deliver reports: a failure before DATA (another SMTP account than the reviewed
\* one included) or an explicit rejection is definite, a connection lost after DATA is not, whether or not the server
\* accepted the message.
DeliveryResult(stage) ==
  CASE stage = "claimed"  -> {"failed_before_submission"}
    [] stage = "data"     -> {"failed_before_submission", "outcome_unknown"}
    [] stage = "accepted" -> {"smtp_accepted", "outcome_unknown"}

deliver(r, s) ==
  /\ daemon = "up"
  /\ exec[r].at \in {"claimed", "data", "accepted"}
  /\ s \in DeliveryResult(exec[r].at)
  /\ exec' = [exec EXCEPT ![r] = Replied(s)]
  /\ UNCHANGED <<ops, drafts, origin, reviews, wire, daemon, cursor, restarts>>

\* Mistakes in email_send: an unknown outcome is reported as delivered, and the
\* outcome is not journalled.
ReportsUnknownAsDelivered(r) ==
  /\ daemon = "up"
  /\ exec[r].at = "replied"
  /\ finish(DraftOf(r), VersionOf(r), exec[r].reply)
  /\ exec' = [exec EXCEPT ![r] = Returned(exec[r].reply # "failed_before_submission")]
  /\ UNCHANGED <<drafts, origin, reviews, wire, daemon, cursor, restarts>>

ForgetsOutcome(r) ==
  /\ daemon = "up"
  /\ exec[r].at = "replied"
  /\ exec' = [exec EXCEPT ![r] = Returned(exec[r].reply = "smtp_accepted")]
  /\ UNCHANGED <<ops, drafts, origin, reviews, wire, daemon, cursor, restarts>>

\* email_send resumes: the outcome is journalled.
FinishOperation(r) ==
  /\ daemon = "up"
  /\ exec[r].at = "replied"
  /\ finish(DraftOf(r), VersionOf(r), exec[r].reply)
  /\ exec' = [exec EXCEPT ![r] = Returned(exec[r].reply = "smtp_accepted")]
  /\ UNCHANGED <<drafts, origin, reviews, wire, daemon, cursor, restarts>>

\* email_send is cancelled before the thread starts: the handler cannot know
\* that, and journals an unknown outcome.
InterruptSubmission(r) ==
  /\ daemon = "up"
  /\ exec[r].at = "claimed"
  /\ finish(DraftOf(r), VersionOf(r), "outcome_unknown")
  /\ exec' = [exec EXCEPT ![r] = Returned(FALSE)]
  /\ UNCHANGED <<drafts, origin, reviews, wire, daemon, cursor, restarts>>

\* What follows email_send (an audit write, the end of the one-shot session)
\* raises: the finally below still runs, the discard does not.
ExecutionRaises(r) ==
  /\ daemon = "up"
  /\ exec[r].at = "returned"
  /\ exec[r].delivered
  /\ exec' = [exec EXCEPT ![r] = Returned(FALSE)]
  /\ UNCHANGED <<ops, drafts, origin, reviews, wire, daemon, cursor, restarts>>

\* Mistakes at the end of approve_locked: what was not delivered is marked as not
\* submitted, and nothing is marked at all.
MarksUndelivered(r) ==
  /\ daemon = "up"
  /\ exec[r].at = "returned"
  /\ reviews' = [reviews EXCEPT ![r].not_submitted = ~exec[r].delivered]
  /\ exec' = [exec EXCEPT ![r] = Idle]
  /\ UNCHANGED <<ops, drafts, origin, wire, daemon, cursor, restarts>>

MarksNothing(r) ==
  /\ daemon = "up"
  /\ exec[r].at = "returned"
  /\ exec' = [exec EXCEPT ![r] = Idle]
  /\ UNCHANGED <<ops, drafts, origin, reviews, wire, daemon, cursor, restarts>>

\* The end of approve_locked: without an operation the review is marked as not
\* submitted; a delivered draft is discarded.
SettleExecution(r) ==
  /\ daemon = "up"
  /\ exec[r].at = "returned"
  /\ reviews' = [reviews EXCEPT ![r].not_submitted =
                   @ \/ ~Exists(DraftOf(r), VersionOf(r))]
  /\ drafts' = IF exec[r].delivered
               THEN [drafts EXCEPT ![DraftOf(r)].present = FALSE]
               ELSE drafts
  /\ exec' = [exec EXCEPT ![r] = Idle]
  /\ UNCHANGED <<ops, origin, wire, daemon, cursor, restarts>>

-----------------------------------------------------------------------------
(* Reconciliation, crash and startup *)

Accepted(d, v) == \E i \in DOMAIN wire : wire[i].draft = d /\ wire[i].version = v

\* email.operation_reconcile.  The operator verifies the outcome with the
\* provider and reports what is the case (external).
email_operation_reconcile(d, v, outcome) ==
  /\ daemon = "up"
  /\ outcome = "smtp_accepted" <=> Accepted(d, v)
  /\ reconcile(d, v, outcome)
  /\ UNCHANGED <<drafts, origin, reviews, exec, wire, daemon, cursor, restarts>>

\* The daemon stops anywhere and is started again, startup itself included.
\* The review queue is constructed first: consent that was pending expires.
\* Then the journal recovers the submissions that were interrupted.
Restart ==
  /\ restarts < MaxRestarts
  /\ restarts' = restarts + 1
  /\ reviews' = [r \in Ids |-> IF Pending(r)
                               THEN [reviews[r] EXCEPT !.status = "expired"]
                               ELSE reviews[r]]
  /\ recover_submitting
  /\ exec' = [r \in Ids |-> Idle]
  /\ daemon' = "boot"
  /\ cursor' = 1
  /\ UNCHANGED <<drafts, origin, wire>>

\* An approved review that left no trace of its execution: startup claims its
\* version and closes it as unknown.
NeedsEvidence(r) == /\ reviews[r].status = "approved"
                    /\ ~Exists(DraftOf(r), VersionOf(r))
                    /\ ~reviews[r].not_submitted

\* The loop of App.startup, review by review in the order of their ids.
StartupAt(r) == /\ daemon = "boot"
                /\ cursor = r
                /\ UNCHANGED <<drafts, origin, reviews, exec, wire, restarts>>

StartupSkips(r) ==
  /\ StartupAt(r)
  /\ ~NeedsEvidence(r)
  /\ reviews[r] # NoReview => for_draft(DraftOf(r), VersionOf(r)).status # "submitting"
  /\ cursor' = r + 1
  /\ UNCHANGED <<ops, daemon>>

StartupClaims(r) ==
  /\ StartupAt(r)
  /\ NeedsEvidence(r)
  /\ claim(DraftOf(r), VersionOf(r), ContentOf(r))
  /\ UNCHANGED <<daemon, cursor>>

\* recover_submitting left no other row in this status.
StartupFinishes(r) ==
  /\ StartupAt(r)
  /\ reviews[r] # NoReview
  /\ for_draft(DraftOf(r), VersionOf(r)).status = "submitting"
  /\ finish(DraftOf(r), VersionOf(r), "outcome_unknown")
  /\ cursor' = r + 1
  /\ UNCHANGED daemon

\* claim raises ValueError, and with it App.startup: the daemon is not served.
StartupRaises(r) ==
  /\ StartupAt(r)
  /\ NeedsEvidence(r)
  /\ ~ClaimCreates(DraftOf(r), VersionOf(r))
  /\ daemon' = "failed"
  /\ UNCHANGED <<ops, cursor>>

StartupReview(r) ==
  StartupSkips(r) \/ StartupClaims(r) \/ StartupFinishes(r) \/ StartupRaises(r)

StartupEnds ==
  /\ daemon = "boot"
  /\ cursor = MaxReviews + 1
  /\ daemon' = "up"
  /\ cursor' = 1
  /\ UNCHANGED <<ops, drafts, origin, reviews, exec, wire, restarts>>

-----------------------------------------------------------------------------

DraftStep(d) ==
  \/ \E c \in Contents : draft_update(d, c) \/ \E l \in Labels : reply_create(d, c, l)
  \/ email_draft_send(d)
  \/ OriginChanges(d)
  \/ \E r \in Ids : email_draft_review(d, r)
  \/ \E v \in Versions : \/ withdraw_draft_reviews(d, v)
                         \/ \E o \in Outcomes : email_operation_reconcile(d, v, o)

ExecutionStep(r) ==
  \/ email_send(r) \/ email_send_existing(r) \/ StoppedBeforeClaim(r) \/ ApproveRaises(r)
  \/ SmtpData(r) \/ SmtpAccepts(r)
  \/ \E s \in TERMINAL_STATUSES : deliver(r, s)
  \/ FinishOperation(r) \/ InterruptSubmission(r) \/ ExecutionRaises(r) \/ SettleExecution(r)

ReviewStep(r) ==
  \/ \E s \in {"denied", "deferred", "expired"} : DecideAgainst(r, s)
  \/ approve_locked(r) \/ BeginAuthentication(r)
  \/ Authenticated(r) \/ NotAuthenticated(r)
  \/ ExecutionStep(r)
  \/ StartupReview(r)

Next == \/ \E d \in Drafts : DraftStep(d)
        \/ \E r \in Ids : ReviewStep(r)
        \/ Restart
        \/ StartupEnds

Spec == Init /\ [][Next]_vars

\* Handlers and the SMTP client go on (the socket has a timeout of 30 s), and
\* so does a startup that has begun.  Nothing obliges the operator, the agent
\* or the environment to act, and nothing restarts a daemon that is up.
Fairness == /\ \A r \in Ids : WF_vars(ExecutionStep(r)) /\ WF_vars(StartupReview(r))
            /\ WF_vars(StartupEnds)

FairSpec == Spec /\ Fairness

-----------------------------------------------------------------------------
(* Properties *)

\* The SMTP server never accepts two messages of one draft, whatever edits,
\* concurrent approvals, lost answers, crashes and reconciliations happen
\* (email_send, claim, recover_submitting and startup together).
AtMostOnce ==
  \A i, j \in DOMAIN wire : wire[i].draft = wire[j].draft => i = j

\* Whatever was accepted is, to the letter, what a review says that the
\* operator approved, and its labels were ones this path may release: consent
\* that was denied, deferred, withdrawn, expired or lost in a restart sends
\* nothing (approve_locked, _validate_reviewed_draft).
SentAsReviewed ==
  \A i \in DOMAIN wire :
    LET r == wire[i].review IN
      /\ reviews[r].status = "approved"
      /\ reviews[r].draft = wire[i].draft
      /\ reviews[r].version = wire[i].version
      /\ reviews[r].content = wire[i].content
      /\ reviews[r].labels \subseteq Releasable

\* A draft that was sent is never edited afterwards, so what approve_locked
\* discards, and what a client shows until then, is what went out
\* (draft_update and claim, which share no lock).
SentDraftIsFrozen ==
  \A i \in DOMAIN wire :
    LET d == drafts[wire[i].draft] IN
      d.version = wire[i].version /\ d.content = wire[i].content

\* approve_locked discards a draft only in the version its operation sent.
DiscardsWhatWasSent ==
  \A r \in Ids : exec[r].at = "returned" /\ exec[r].delivered
                   => Accepted(DraftOf(r), drafts[DraftOf(r)].version)

\* A definite outcome in the journal is the truth, and an accepted message is
\* never on record as failed, nor as absent (the DATA boundary of
\* send_via_smtp, email_send, recover_submitting).
JournalTellsTheTruth ==
  \A d \in Drafts, v \in Versions :
    LET op == ops[d][v] IN
      /\ op.status = "smtp_accepted" => Accepted(d, v)
      /\ Accepted(d, v) => /\ Blocks(op)
                           /\ op.status # "none"

\* A review that is marked as not submitted has sent nothing (the finally of
\* approve_locked).
NotSubmittedIsTrue ==
  \A i \in DOMAIN wire : ~reviews[wire[i].review].not_submitted

\* While the daemon serves requests no approved review is without a trace: it
\* is being executed, has an operation, or is marked as not submitted (the
\* finally of approve_locked and the loop of App.startup).  The one gap is an
\* approval whose audit write failed: it is closed by the next startup only.
ApprovedIsAccountedFor ==
  daemon = "up" =>
    \A r \in Ids : reviews[r].status = "approved" =>
      \/ exec[r].at \in {"prepare", "returned", "orphaned"}
      \/ Exists(DraftOf(r), VersionOf(r))
      \/ reviews[r].not_submitted

\* Startup never raises: an approved review without evidence ends as an unknown
\* operation that the operator can reconcile (the comment in App.startup).
StartupSucceeds == daemon # "failed"

\* Every submission is eventually given a terminal status, by email_send or by
\* the recovery of the next startup.
SubmissionSettles ==
  \A d \in Drafts, v \in Versions :
    (ops[d][v].status = "submitting") ~> (ops[d][v].status # "submitting")

\* Every approval is eventually answered for: an operation that is not in
\* progress, or the mark that nothing was submitted, unless the handler raised
\* before the execution, or startup failed.
Answered(r) == \/ for_draft(DraftOf(r), VersionOf(r)).status \in TERMINAL_STATUSES
               \/ reviews[r].not_submitted

ApprovalResolves ==
  \A r \in Ids : LET approved == reviews[r].status = "approved" IN
    approved ~> (approved /\ Answered(r)) \/ exec[r].at = "orphaned" \/ daemon = "failed"

\* The journal is used only through its own operations.
JournalIsUsedAsSpecified == JournalSpec

\* The promise kept: consent is what was approved, sent is what was accepted.
ConsentOf(r) == [draft |-> DraftOf(r), version |-> VersionOf(r),
                 content |-> ContentOf(r), review |-> r]

Consented == {ConsentOf(r) : r \in {q \in Ids : reviews[q].status = "approved"}}

Ledger == INSTANCE ReleaseLedger WITH consent <- Consented, sent <- wire

ImplementsLedger == Ledger!Spec

=============================================================================

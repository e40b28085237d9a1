------------------------- MODULE EmailReleaseProofs -------------------------
(***************************************************************************)
(* The release of reviewed mail keeps its promises for every set of        *)
(* drafts, any number of reviews and versions and any number of crashes.   *)
(***************************************************************************)
EXTENDS EmailRelease, EmailJournalProofs

(* The inductive invariant *)

\* An execution belongs to a daemon that is up and to a review whose outcome is
\* still open.
ExecutionsMatch ==
  \A r \in Ids : exec[r].at # "idle" =>
    /\ daemon = "up"
    /\ reviews[r] # NoReview
    /\ ~reviews[r].not_submitted
    /\ exec[r].at = "auth" => reviews[r].status # "approved"
    /\ exec[r].at # "auth" => reviews[r].status = "approved"

\* Approval was given to labels that may be released; only an approved review
\* is marked.
ReviewsMatch ==
  \A r \in Ids : reviews[r] # NoReview =>
    /\ reviews[r].status = "approved" => reviews[r].labels \subseteq Releasable
    /\ reviews[r].not_submitted => reviews[r].status = "approved"

Submits(r) == exec[r].at \in {"claimed", "data", "accepted", "replied"}

\* A submission in progress holds its row, and the draft stands still under it.
SubmissionsMatch ==
  \A r \in Ids : Submits(r) =>
    /\ ops[DraftOf(r)][VersionOf(r)].status = "submitting"
    /\ drafts[DraftOf(r)].version = VersionOf(r)
    /\ drafts[DraftOf(r)].content = ContentOf(r)

OneSubmitter ==
  \A r, q \in Ids :
    Submits(r) /\ Submits(q) /\ DraftOf(r) = DraftOf(q) /\ VersionOf(r) = VersionOf(q) => r = q

\* A row that was accepted keeps its draft blocked.
AcceptedBlocks ==
  \A i \in DOMAIN wire : Blocks(ops[wire[i].draft][wire[i].version])

\* The stage of an execution says whether the message is with the server.
StagesAreTrue ==
  \A r \in Ids :
    LET accepted == Accepted(DraftOf(r), VersionOf(r)) IN
      /\ exec[r].at \in {"claimed", "data"} => ~accepted
      /\ exec[r].at = "accepted" => accepted
      /\ exec[r].at = "replied" =>
           /\ exec[r].reply \in TERMINAL_STATUSES
           /\ exec[r].reply = "smtp_accepted" => accepted
           /\ exec[r].reply = "failed_before_submission" => ~accepted
      /\ exec[r].at = "returned" /\ exec[r].delivered => accepted

RowsAreTrue ==
  \A d \in Drafts, v \in Versions : ops[d][v].status = "smtp_accepted" => Accepted(d, v)

\* Startup has seen to the reviews before its cursor.
Traced(r) == Exists(DraftOf(r), VersionOf(r)) \/ reviews[r].not_submitted

StartupProgress ==
  daemon = "boot" =>
    \A r \in Ids : r < cursor /\ reviews[r].status = "approved" => Traced(r)

Inv ==
  /\ TypeOK
  /\ JournalInv
  /\ ExecutionsMatch
  /\ ReviewsMatch
  /\ SubmissionsMatch
  /\ OneSubmitter
  /\ AcceptedBlocks
  /\ SentAsReviewed
  /\ SentDraftIsFrozen
  /\ NotSubmittedIsTrue
  /\ StagesAreTrue
  /\ RowsAreTrue
  /\ AtMostOnce
  /\ StartupProgress
  /\ ApprovedIsAccountedFor

-----------------------------------------------------------------------------
(* Types *)

USE DEF Ids, Versions

LEMMA InitTyped == Init => TypeOK
  BY MaxReviewsIsNat, MaxRestartsIsNat
  DEF Init, TypeOK, JournalInit, JournalTypeOK, NoOperation, Operations, DraftStates, OriginStates,
      Executions, Idle, Stages

LEMMA ExecutionStates ==
  /\ Idle \in Executions
  /\ \A s \in Stages : At(s) \in Executions /\ At(s).at = s /\ ~At(s).delivered
  /\ \A s \in TERMINAL_STATUSES : Replied(s) \in Executions /\ Replied(s).at = "replied"
                                   /\ Replied(s).reply = s
  /\ \A b \in BOOLEAN : Returned(b) \in Executions /\ Returned(b).at = "returned"
                         /\ Returned(b).delivered = b
  BY DEF Executions, Idle, At, Replied, Returned, Stages

LEMMA ReviewWithStatus ==
  ASSUME NEW v \in Reviews, NEW s \in ReviewStatuses
  PROVE  /\ [v EXCEPT !.status = s] \in Reviews
         /\ [v EXCEPT !.status = s].status = s
         /\ [v EXCEPT !.status = s].draft = v.draft
         /\ [v EXCEPT !.status = s].version = v.version
         /\ [v EXCEPT !.status = s].content = v.content
         /\ [v EXCEPT !.status = s].labels = v.labels
         /\ [v EXCEPT !.status = s].not_submitted = v.not_submitted
  BY DEF Reviews

\* A review there is has a status; the absent one has none of them.
LEMMA ReviewIsThere ==
  ASSUME NEW v \in Reviews \cup {NoReview}
  PROVE  /\ v # NoReview => v \in Reviews
         /\ v = NoReview => v.status = "none"
         /\ v.status \in ReviewStatuses => v \in Reviews /\ v # NoReview
  BY DEF Reviews, NoReview, ReviewStatuses

\* What the invariant says of a review that is being executed.
LEMMA ExecutedReview ==
  ASSUME Inv, NEW r \in Ids, exec[r].at # "idle"
  PROVE  /\ daemon = "up"
         /\ reviews[r] \in Reviews
         /\ DraftOf(r) \in Drafts
         /\ VersionOf(r) \in Versions
         /\ ContentOf(r) \in Contents
  BY DEF Inv, TypeOK, ExecutionsMatch, Reviews, DraftOf, VersionOf, ContentOf

LEMMA AcceptedMessage ==
  ASSUME Inv, NEW i \in DOMAIN wire
  PROVE  /\ wire[i] \in Messages
         /\ wire[i].draft \in Drafts
         /\ wire[i].version \in Versions
         /\ wire[i].content \in Contents
         /\ wire[i].review \in Ids
         /\ reviews[wire[i].review] \in Reviews
<1>1. wire[i] \in Messages
  BY DEF Inv, TypeOK
<1>2. wire[i].review \in Ids
  BY <1>1 DEF Messages
<1>3. reviews[wire[i].review] \in Reviews
  BY <1>2, ReviewIsThere DEF Inv, TypeOK, SentAsReviewed, ReviewStatuses
<1> QED BY <1>1, <1>3 DEF Messages

-----------------------------------------------------------------------------
(* Steps that change the drafts and their origin *)

\* They preserve the invariant when a blocked draft stands still.
LEMMA DraftsChange ==
  ASSUME Inv,
         drafts' \in [Drafts -> DraftStates],
         origin' \in [Drafts -> OriginStates],
         UNCHANGED <<ops, reviews, exec, wire, daemon, cursor, restarts>>,
         \A d \in Drafts : blocks_draft(d) /\ drafts[d] # NoDraft =>
           drafts'[d].version = drafts[d].version /\ drafts'[d].content = drafts[d].content
  PROVE  Inv'
<1>1. TypeOK' /\ JournalInv'
  BY DEF Inv, TypeOK, JournalTypeOK, JournalInv, BlockingIsNewest, ReconciledWasUnknown, Exists,
         for_draft
<1>2. SubmissionsMatch'
  <2> SUFFICES ASSUME NEW r \in Ids, Submits(r)'
               PROVE  /\ ops[DraftOf(r)][VersionOf(r)].status = "submitting"
                      /\ drafts'[DraftOf(r)].version = VersionOf(r)
                      /\ drafts'[DraftOf(r)].content = ContentOf(r)
    BY DEF SubmissionsMatch, DraftOf, VersionOf, ContentOf
  <2>1. Submits(r)
    BY DEF Submits
  <2>2. DraftOf(r) \in Drafts /\ VersionOf(r) \in Versions
    BY <2>1, ExecutedReview DEF Submits
  <2>3. /\ ops[DraftOf(r)][VersionOf(r)].status = "submitting"
        /\ drafts[DraftOf(r)].version = VersionOf(r)
        /\ drafts[DraftOf(r)].content = ContentOf(r)
    BY <2>1 DEF Inv, SubmissionsMatch
  <2>4. blocks_draft(DraftOf(r)) /\ drafts[DraftOf(r)] # NoDraft
    BY <2>2, <2>3 DEF blocks_draft, Blocks, NoDraft
  <2> QED BY <2>2, <2>3, <2>4
<1>3. SentDraftIsFrozen'
  <2> SUFFICES ASSUME NEW i \in DOMAIN wire
               PROVE  /\ drafts'[wire[i].draft].version = wire[i].version
                      /\ drafts'[wire[i].draft].content = wire[i].content
    BY DEF SentDraftIsFrozen
  <2>1. /\ drafts[wire[i].draft].version = wire[i].version
        /\ drafts[wire[i].draft].content = wire[i].content
    BY DEF Inv, SentDraftIsFrozen
  <2>2. blocks_draft(wire[i].draft) /\ drafts[wire[i].draft] # NoDraft
    BY <2>1, AcceptedMessage DEF Inv, AcceptedBlocks, blocks_draft, NoDraft
  <2> QED BY <2>1, <2>2, AcceptedMessage
<1>4. /\ ExecutionsMatch' /\ ReviewsMatch' /\ OneSubmitter' /\ AcceptedBlocks' /\ SentAsReviewed'
      /\ NotSubmittedIsTrue' /\ StagesAreTrue' /\ RowsAreTrue' /\ AtMostOnce'
      /\ StartupProgress' /\ ApprovedIsAccountedFor'
  BY DEF Inv, ExecutionsMatch, ReviewsMatch, OneSubmitter, AcceptedBlocks, SentAsReviewed,
         NotSubmittedIsTrue, StagesAreTrue, RowsAreTrue, AtMostOnce, StartupProgress,
         ApprovedIsAccountedFor, Submits, Accepted, Traced, Exists, for_draft, DraftOf, VersionOf,
         ContentOf
<1> QED BY <1>1, <1>2, <1>3, <1>4 DEF Inv

LEMMA DraftBoxStep ==
  ASSUME Inv, NEW d \in Drafts,
         \/ \E c \in Contents : draft_update(d, c) \/ \E l \in Labels : reply_create(d, c, l)
         \/ email_draft_send(d)
         \/ OriginChanges(d)
  PROVE  Inv'
<1>0. drafts \in [Drafts -> DraftStates] /\ origin \in [Drafts -> OriginStates]
  BY DEF Inv, TypeOK
<1>1. ASSUME NEW c \in Contents, draft_update(d, c) PROVE Inv'
  <2>0. drafts[d].present /\ drafts[d].version < MaxVersion
    BY <1>1 DEF draft_update
  <2>1. drafts[d] \in [version : Versions, content : Contents, present : BOOLEAN]
    BY <1>0, <2>0 DEF DraftStates, NoDraft
  <2>2. [drafts[d] EXCEPT !.version = drafts[d].version + 1, !.content = c] \in DraftStates
    <3>1. drafts[d].version \in Versions
      BY <2>1
    <3>2. drafts[d].version + 1 \in Versions
      BY <2>0, <3>1, MaxVersionIsPositive
    <3> QED BY <2>1, <3>2 DEF DraftStates
  <2>3. drafts' \in [Drafts -> DraftStates]
    BY <1>0, <1>1, <2>2 DEF draft_update
  <2>4. \A e \in Drafts : e # d => drafts'[e] = drafts[e]
    BY <1>0, <1>1 DEF draft_update
  <2> QED BY <1>0, <1>1, <2>3, <2>4, DraftsChange DEF draft_update
<1>2. ASSUME NEW c \in Contents, NEW l \in Labels, reply_create(d, c, l) PROVE Inv'
  <2>1. [version |-> 1, content |-> c, present |-> TRUE] \in DraftStates
    BY MaxVersionIsPositive DEF DraftStates
  <2>2. [origin[d] EXCEPT !.labels = origin[d].labels \cup {l}] \in OriginStates
    BY <1>0 DEF OriginStates
  <2>3. drafts' \in [Drafts -> DraftStates] /\ origin' \in [Drafts -> OriginStates]
    BY <1>0, <1>2, <2>1, <2>2 DEF reply_create
  <2>4. \A e \in Drafts : drafts[e] # NoDraft => drafts'[e] = drafts[e]
    BY <1>0, <1>2 DEF reply_create
  <2> QED BY <1>2, <2>3, <2>4, DraftsChange DEF reply_create
<1>3. CASE email_draft_send(d)
  <2>1. drafts[d] \in [version : Versions, content : Contents, present : BOOLEAN]
    BY <1>0, <1>3 DEF email_draft_send, DraftStates, NoDraft
  <2>2. [drafts[d] EXCEPT !.present = FALSE] \in DraftStates
    BY <2>1 DEF DraftStates
  <2>3. drafts' \in [Drafts -> DraftStates]
    BY <1>0, <1>3, <2>2 DEF email_draft_send
  <2>4. \A e \in Drafts :
          drafts'[e].version = drafts[e].version /\ drafts'[e].content = drafts[e].content
    BY <1>0, <1>3, <2>1 DEF email_draft_send
  <2> QED BY <1>0, <1>3, <2>3, <2>4, DraftsChange DEF email_draft_send
<1>4. CASE OriginChanges(d)
  <2>1. origin' \in [Drafts -> OriginStates]
    <3>1. origin[d] \in OriginStates
      BY <1>0
    <3>2. /\ \A l \in Labels : [origin[d] EXCEPT !.labels = origin[d].labels \cup {l}] \in OriginStates
          /\ [origin[d] EXCEPT !.active = ~origin[d].active] \in OriginStates
          /\ [origin[d] EXCEPT !.sourceOk = ~origin[d].sourceOk] \in OriginStates
      BY <3>1 DEF OriginStates
    <3> QED BY <1>0, <1>4, <3>2 DEF OriginChanges
  <2> QED BY <1>0, <1>4, <2>1, DraftsChange DEF OriginChanges
<1> QED BY <1>1, <1>2, <1>3, <1>4

-----------------------------------------------------------------------------
(* Steps that change reviews *)

\* A pending review is closed without approval; its other fields stay.
Closes(r) == /\ Pending(r)
             /\ \E s \in ReviewStatuses \ {"pending", "approved"} :
                  reviews'[r] = [reviews[r] EXCEPT !.status = s]

LEMMA ReviewsClose ==
  ASSUME Inv,
         reviews' = [r \in Ids |-> reviews'[r]],
         \A r \in Ids : reviews'[r] = reviews[r] \/ Closes(r),
         UNCHANGED <<ops, drafts, origin, exec, wire, daemon, cursor, restarts>>
  PROVE  Inv'
<1>1. \A r \in Ids : reviews[r] \in Reviews \cup {NoReview}
  BY DEF Inv, TypeOK
<1>2. \A r \in Ids : Closes(r) =>
        /\ reviews[r] \in Reviews /\ reviews[r] # NoReview
        /\ reviews'[r] \in Reviews /\ reviews'[r] # NoReview
        /\ reviews'[r].status \in ReviewStatuses \ {"pending", "approved"}
        /\ reviews'[r].draft = reviews[r].draft
        /\ reviews'[r].version = reviews[r].version
        /\ reviews'[r].content = reviews[r].content
        /\ reviews'[r].labels = reviews[r].labels
        /\ reviews'[r].not_submitted = reviews[r].not_submitted
        /\ reviews[r].status = "pending"
  <2> SUFFICES ASSUME NEW r \in Ids, Closes(r)
               PROVE  /\ reviews[r] \in Reviews /\ reviews[r] # NoReview
                      /\ reviews'[r] \in Reviews /\ reviews'[r] # NoReview
                      /\ reviews'[r].status \in ReviewStatuses \ {"pending", "approved"}
                      /\ reviews'[r].draft = reviews[r].draft
                      /\ reviews'[r].version = reviews[r].version
                      /\ reviews'[r].content = reviews[r].content
                      /\ reviews'[r].labels = reviews[r].labels
                      /\ reviews'[r].not_submitted = reviews[r].not_submitted
                      /\ reviews[r].status = "pending"
    OBVIOUS
  <2>1. reviews[r] \in Reviews /\ reviews[r] # NoReview /\ reviews[r].status = "pending"
    BY <1>1, ReviewIsThere DEF Closes, Pending, ReviewStatuses
  <2>2. PICK s \in ReviewStatuses \ {"pending", "approved"} :
          reviews'[r] = [reviews[r] EXCEPT !.status = s]
    BY DEF Closes
  <2>3. reviews'[r] \in Reviews /\ reviews'[r].status = s
    BY <2>1, <2>2, ReviewWithStatus
  <2>4. reviews'[r] # NoReview
    BY <2>3 DEF NoReview, ReviewStatuses
  <2> QED BY <2>1, <2>2, <2>3, <2>4, ReviewWithStatus
<1>3. TypeOK' /\ JournalInv'
  BY <1>1, <1>2 DEF Inv, TypeOK, JournalTypeOK, JournalInv, BlockingIsNewest,
                    ReconciledWasUnknown, Exists, for_draft
<1>4. \A r \in Ids : /\ DraftOf(r)' = DraftOf(r)
                     /\ VersionOf(r)' = VersionOf(r)
                     /\ ContentOf(r)' = ContentOf(r)
                     /\ Submits(r)' = Submits(r)
  BY <1>2 DEF DraftOf, VersionOf, ContentOf, Submits
<1>5. ExecutionsMatch' /\ ReviewsMatch'
  BY <1>1, <1>2 DEF Inv, ExecutionsMatch, ReviewsMatch
<1>6. /\ SubmissionsMatch' /\ OneSubmitter' /\ AcceptedBlocks' /\ SentDraftIsFrozen'
      /\ RowsAreTrue' /\ AtMostOnce' /\ StagesAreTrue'
  BY <1>4 DEF Inv, SubmissionsMatch, OneSubmitter, AcceptedBlocks, SentDraftIsFrozen,
              RowsAreTrue, AtMostOnce, StagesAreTrue, Accepted
<1>7. SentAsReviewed' /\ NotSubmittedIsTrue'
  BY <1>2, AcceptedMessage DEF Inv, SentAsReviewed, NotSubmittedIsTrue
<1>8. StartupProgress' /\ ApprovedIsAccountedFor'
  BY <1>2, <1>4 DEF Inv, StartupProgress, ApprovedIsAccountedFor, Traced, Exists, for_draft
<1> QED BY <1>3, <1>5, <1>6, <1>7, <1>8 DEF Inv

LEMMA ClosingStep ==
  ASSUME Inv,
         \/ \E r \in Ids, s \in {"denied", "deferred", "expired"} : DecideAgainst(r, s)
         \/ \E d \in Drafts, v \in Versions : withdraw_draft_reviews(d, v)
  PROVE  Inv'
<1>0. reviews \in [Ids -> Reviews \cup {NoReview}]
  BY DEF Inv, TypeOK
<1>1. ASSUME NEW r \in Ids, NEW s \in {"denied", "deferred", "expired"}, DecideAgainst(r, s)
      PROVE  Inv'
  <2>1. reviews' = [reviews EXCEPT ![r] = [reviews[r] EXCEPT !.status = s]]
    BY <1>1 DEF DecideAgainst
  <2>2. Closes(r) /\ \A q \in Ids : q # r => reviews'[q] = reviews[q]
    BY <1>0, <1>1, <2>1 DEF DecideAgainst, Closes, ReviewStatuses
  <2>3. reviews' = [q \in Ids |-> reviews'[q]]
    BY <1>0, <2>1
  <2> QED BY <1>1, <2>2, <2>3, ReviewsClose DEF DecideAgainst
<1>2. ASSUME NEW d \in Drafts, NEW v \in Versions, withdraw_draft_reviews(d, v)
      PROVE  Inv'
  <2>1. \A r \in Ids : reviews'[r] = reviews[r] \/ Closes(r)
    BY <1>2 DEF withdraw_draft_reviews, Closes, ReviewStatuses
  <2>2. reviews' = [r \in Ids |-> reviews'[r]]
    BY <1>2 DEF withdraw_draft_reviews
  <2> QED BY <1>2, <2>1, <2>2, ReviewsClose DEF withdraw_draft_reviews
<1> QED BY <1>1, <1>2

\* A new review changes nothing for the executions: it has none yet.
LEMMA ReviewStep_Submit ==
  ASSUME Inv, NEW d \in Drafts, NEW r \in Ids, email_draft_review(d, r)
  PROVE  Inv'
<1>1. ReviewOf(d) \in Reviews /\ ReviewOf(d).status = "pending" /\ ~ReviewOf(d).not_submitted
      /\ ReviewOf(d) # NoReview
  <2>1. drafts[d] \in [version : Versions, content : Contents, present : BOOLEAN]
    BY DEF email_draft_review, Inv, TypeOK, DraftStates, NoDraft
  <2>2. origin[d].labels \in SUBSET Labels
    BY DEF Inv, TypeOK, OriginStates
  <2>3. ReviewOf(d) \in Reviews
    BY <2>1, <2>2 DEF ReviewOf, Reviews, ReviewStatuses
  <2> QED BY <2>3 DEF ReviewOf, NoReview
<1>2. reviews' = [reviews EXCEPT ![r] = ReviewOf(d)] /\ reviews[r] = NoReview
  BY DEF email_draft_review, NextId
<1>3. exec[r].at = "idle" /\ exec[r].at \in Stages
  BY <1>2 DEF Inv, ExecutionsMatch, TypeOK, Executions
<1>4. \A q \in Ids : q # r => reviews'[q] = reviews[q]
  BY <1>2 DEF Inv, TypeOK
<1>5. reviews'[r] = ReviewOf(d)
  BY <1>2 DEF Inv, TypeOK
<1>6. UNCHANGED <<ops, drafts, origin, exec, wire, daemon, cursor, restarts>>
  BY DEF email_draft_review
<1>7. \A i \in DOMAIN wire : wire[i].review \in Ids /\ wire[i].review # r
  BY <1>2, AcceptedMessage DEF Reviews, NoReview
<1>8. TypeOK' /\ JournalInv'
  BY <1>1, <1>2, <1>6 DEF Inv, TypeOK, JournalTypeOK, JournalInv, BlockingIsNewest,
                     ReconciledWasUnknown, Exists, for_draft
<1>9. ExecutionsMatch' /\ ReviewsMatch'
  BY <1>1, <1>3, <1>4, <1>5, <1>6 DEF Inv, ExecutionsMatch, ReviewsMatch
<1>10. /\ SubmissionsMatch' /\ OneSubmitter' /\ StagesAreTrue'
  BY <1>3, <1>4, <1>6 DEF Inv, SubmissionsMatch, OneSubmitter, StagesAreTrue, Accepted, Submits,
                          DraftOf, VersionOf, ContentOf
<1>11. AcceptedBlocks' /\ SentDraftIsFrozen' /\ RowsAreTrue' /\ AtMostOnce'
  BY <1>6 DEF Inv, AcceptedBlocks, SentDraftIsFrozen, RowsAreTrue, AtMostOnce, Accepted
<1>12. SentAsReviewed' /\ NotSubmittedIsTrue'
  BY <1>4, <1>6, <1>7 DEF Inv, SentAsReviewed, NotSubmittedIsTrue
<1>13. StartupProgress' /\ ApprovedIsAccountedFor'
  BY <1>1, <1>4, <1>5, <1>6 DEF Inv, StartupProgress, ApprovedIsAccountedFor, Traced, Exists,
                                for_draft, DraftOf, VersionOf
<1> QED BY <1>8, <1>9, <1>10, <1>11, <1>12, <1>13 DEF Inv

\* Approval with or without authentication: the execution starts.
LEMMA ApprovalStep ==
  ASSUME Inv, NEW r \in Ids, approve_locked(r) \/ Authenticated(r)
  PROVE  Inv'
<1>1. /\ daemon = "up"
      /\ Pending(r)
      /\ exec[r].at \in {"idle", "auth"}
      /\ reviews[r].labels \subseteq Releasable
      /\ RecordApproved(r)
      /\ UNCHANGED <<ops, drafts, origin, wire, daemon, cursor, restarts>>
  BY DEF approve_locked, Authenticated, ReviewedDraftIsValid
<1>2. reviews[r] \in Reviews /\ reviews[r] # NoReview
  BY <1>1, ReviewIsThere DEF Inv, TypeOK, Pending, ReviewStatuses
<1>3. ~reviews[r].not_submitted
  BY <1>1, <1>2 DEF Inv, ReviewsMatch, Pending
<1>4. DEFINE v == [reviews[r] EXCEPT !.status = "approved"]
<1>5. /\ v \in Reviews /\ v # NoReview /\ v.status = "approved"
      /\ v.draft = reviews[r].draft /\ v.version = reviews[r].version
      /\ v.content = reviews[r].content /\ v.labels = reviews[r].labels
      /\ ~v.not_submitted
  <2>1. "approved" \in ReviewStatuses
    BY DEF ReviewStatuses
  <2>2. /\ v \in Reviews /\ v.status = "approved"
        /\ v.draft = reviews[r].draft /\ v.version = reviews[r].version
        /\ v.content = reviews[r].content /\ v.labels = reviews[r].labels
        /\ v.not_submitted = reviews[r].not_submitted
    BY <1>2, <2>1, ReviewWithStatus
  <2>3. v # NoReview
    BY <2>2 DEF NoReview
  <2> QED BY <1>3, <2>2, <2>3
<1>6. reviews' = [reviews EXCEPT ![r] = v] /\ exec' = [exec EXCEPT ![r] = At("prepare")]
  BY <1>1 DEF RecordApproved
<1> HIDE DEF v
<1>7. At("prepare") \in Executions /\ At("prepare").at = "prepare"
  BY ExecutionStates DEF Stages
<1>8. \A q \in Ids : q # r => reviews'[q] = reviews[q] /\ exec'[q] = exec[q]
  BY <1>6 DEF Inv, TypeOK
<1>9. reviews'[r] = v /\ exec'[r] = At("prepare")
  BY <1>6 DEF Inv, TypeOK
<1>10. TypeOK' /\ JournalInv'
  BY <1>1, <1>5, <1>6, <1>7 DEF Inv, TypeOK, JournalTypeOK, JournalInv, BlockingIsNewest,
                     ReconciledWasUnknown, Exists, for_draft
<1>11. ExecutionsMatch' /\ ReviewsMatch'
  BY <1>1, <1>5, <1>7, <1>8, <1>9 DEF Inv, ExecutionsMatch, ReviewsMatch
<1>12. SubmissionsMatch' /\ OneSubmitter' /\ StagesAreTrue'
  BY <1>1, <1>7, <1>8, <1>9 DEF Inv, SubmissionsMatch, OneSubmitter, StagesAreTrue, Accepted,
                                Submits, DraftOf, VersionOf, ContentOf
<1>13. AcceptedBlocks' /\ SentDraftIsFrozen' /\ RowsAreTrue' /\ AtMostOnce'
  BY <1>1 DEF Inv, AcceptedBlocks, SentDraftIsFrozen, RowsAreTrue, AtMostOnce, Accepted
<1>14. SentAsReviewed' /\ NotSubmittedIsTrue'
  BY <1>1, <1>5, <1>8, <1>9, AcceptedMessage DEF Inv, SentAsReviewed, NotSubmittedIsTrue
<1>15. StartupProgress' /\ ApprovedIsAccountedFor'
  BY <1>1, <1>7, <1>8, <1>9 DEF Inv, StartupProgress, ApprovedIsAccountedFor, Exists,
                                for_draft, DraftOf, VersionOf
<1> QED BY <1>10, <1>11, <1>12, <1>13, <1>14, <1>15 DEF Inv

-----------------------------------------------------------------------------
(* Steps that change one execution only *)

\* What the new state e of the execution of r must satisfy.
LEMMA ExecutionChanges ==
  ASSUME Inv, NEW r \in Ids, NEW e \in Executions,
         daemon = "up",
         exec' = [exec EXCEPT ![r] = e],
         UNCHANGED <<ops, drafts, origin, reviews, wire, daemon, cursor, restarts>>,
         e.at # "idle" => /\ reviews[r] # NoReview
                          /\ ~reviews[r].not_submitted
                          /\ e.at = "auth" => reviews[r].status # "approved"
                          /\ e.at # "auth" => reviews[r].status = "approved",
         e.at \in {"claimed", "data", "accepted", "replied"} => Submits(r),
         LET accepted == Accepted(DraftOf(r), VersionOf(r)) IN
           /\ e.at \in {"claimed", "data"} => ~accepted
           /\ e.at = "accepted" => accepted
           /\ e.at = "replied" =>
                /\ e.reply \in TERMINAL_STATUSES
                /\ e.reply = "smtp_accepted" => accepted
                /\ e.reply = "failed_before_submission" => ~accepted
           /\ e.at = "returned" /\ e.delivered => accepted,
         reviews[r].status = "approved" =>
           e.at \in {"prepare", "returned", "orphaned"} \/ Traced(r)
  PROVE  Inv'
<1>1. \A q \in Ids : q # r => exec'[q] = exec[q]
  BY DEF Inv, TypeOK
<1>2. exec'[r] = e
  BY DEF Inv, TypeOK
<1>3. TypeOK' /\ JournalInv'
  BY DEF Inv, TypeOK, JournalTypeOK, JournalInv, BlockingIsNewest, ReconciledWasUnknown, Exists,
         for_draft
<1>4. ExecutionsMatch' /\ ReviewsMatch'
  BY <1>1, <1>2 DEF Inv, ExecutionsMatch, ReviewsMatch
<1>5. SubmissionsMatch' /\ OneSubmitter'
  BY <1>1, <1>2 DEF Inv, SubmissionsMatch, OneSubmitter, Submits, DraftOf, VersionOf, ContentOf
<1>6. StagesAreTrue'
  BY <1>1, <1>2 DEF Inv, StagesAreTrue, Accepted, DraftOf, VersionOf
<1>7. AcceptedBlocks' /\ SentDraftIsFrozen' /\ RowsAreTrue' /\ AtMostOnce' /\ SentAsReviewed'
      /\ NotSubmittedIsTrue'
  BY DEF Inv, AcceptedBlocks, SentDraftIsFrozen, RowsAreTrue, AtMostOnce, Accepted,
         SentAsReviewed, NotSubmittedIsTrue
<1>8. StartupProgress' /\ ApprovedIsAccountedFor'
  BY <1>1, <1>2 DEF Inv, StartupProgress, ApprovedIsAccountedFor, Traced, Exists, for_draft,
                    DraftOf, VersionOf
<1> QED BY <1>3, <1>4, <1>5, <1>6, <1>7, <1>8 DEF Inv

LEMMA AuthenticationStep ==
  ASSUME Inv, NEW r \in Ids, BeginAuthentication(r) \/ NotAuthenticated(r)
  PROVE  Inv'
<1>1. CASE BeginAuthentication(r)
  <2>1. reviews[r] # NoReview /\ reviews[r].status = "pending"
    BY <1>1, ReviewIsThere DEF BeginAuthentication, Inv, TypeOK, Pending, ReviewStatuses
  <2>2. ~reviews[r].not_submitted
    BY <2>1 DEF Inv, ReviewsMatch
  <2>3. At("auth") \in Executions /\ At("auth").at = "auth"
    BY ExecutionStates DEF Stages
  <2> QED BY <1>1, <2>1, <2>2, <2>3, ExecutionChanges DEF BeginAuthentication
<1>2. CASE NotAuthenticated(r)
  <2>1. reviews[r].status # "approved"
    BY <1>2 DEF NotAuthenticated, Inv, ExecutionsMatch
  <2>2. Idle \in Executions /\ Idle.at = "idle"
    BY ExecutionStates DEF Idle
  <2> QED BY <1>2, <2>1, <2>2, ExecutionChanges DEF NotAuthenticated
<1> QED BY <1>1, <1>2

\* The stages of email_send and send_via_smtp that change no store.
LEMMA ThreadStep ==
  ASSUME Inv, NEW r \in Ids,
         \/ email_send_existing(r)
         \/ StoppedBeforeClaim(r) \/ ApproveRaises(r) \/ ExecutionRaises(r)
         \/ SmtpData(r)
         \/ \E s \in TERMINAL_STATUSES : deliver(r, s)
  PROVE  Inv'
<1>1. exec[r].at \notin {"idle", "auth"}
  BY DEF email_send_existing, StoppedBeforeClaim, ApproveRaises, ExecutionRaises, SmtpData,
         deliver
<1>2. /\ daemon = "up" /\ reviews[r] # NoReview /\ ~reviews[r].not_submitted
      /\ reviews[r].status = "approved"
  BY <1>1 DEF Inv, ExecutionsMatch
<1>3. DraftOf(r) \in Drafts /\ VersionOf(r) \in Versions
  BY <1>1, ExecutedReview
<1>4. CASE email_send_existing(r)
  <2> DEFINE b == for_draft(DraftOf(r), VersionOf(r)).status = "smtp_accepted"
  <2>1. b => Accepted(DraftOf(r), VersionOf(r))
    BY <1>3 DEF Inv, RowsAreTrue, for_draft
  <2>2. Returned(b) \in Executions /\ Returned(b).at = "returned" /\ Returned(b).delivered = b
    BY ExecutionStates
  <2>3. /\ exec' = [exec EXCEPT ![r] = Returned(b)]
        /\ UNCHANGED <<ops, drafts, origin, reviews, wire, daemon, cursor, restarts>>
    BY <1>4 DEF email_send_existing
  <2> QED BY <1>2, <2>1, <2>2, <2>3, ExecutionChanges
<1>5. CASE StoppedBeforeClaim(r) \/ ExecutionRaises(r)
  <2>1. Returned(FALSE) \in Executions /\ Returned(FALSE).at = "returned"
        /\ Returned(FALSE).delivered = FALSE
    BY ExecutionStates
  <2> QED BY <1>2, <1>5, <2>1, ExecutionChanges DEF StoppedBeforeClaim, ExecutionRaises
<1>9. CASE ApproveRaises(r)
  <2>1. At("orphaned") \in Executions /\ At("orphaned").at = "orphaned"
    BY ExecutionStates DEF Stages
  <2> QED BY <1>2, <1>9, <2>1, ExecutionChanges DEF ApproveRaises
<1>6. ASSUME Submits(r) PROVE Traced(r)
  BY <1>3, <1>6 DEF Inv, SubmissionsMatch, Traced, Exists, for_draft
<1>7. CASE SmtpData(r)
  <2>1. At("data") \in Executions /\ At("data").at = "data"
    BY ExecutionStates DEF Stages
  <2>2. Submits(r) /\ ~Accepted(DraftOf(r), VersionOf(r))
    BY <1>7 DEF SmtpData, Submits, Inv, StagesAreTrue
  <2> QED BY <1>2, <1>6, <1>7, <2>1, <2>2, ExecutionChanges DEF SmtpData
<1>8. ASSUME NEW s \in TERMINAL_STATUSES, deliver(r, s) PROVE Inv'
  <2>1. Replied(s) \in Executions /\ Replied(s).at = "replied" /\ Replied(s).reply = s
    BY ExecutionStates
  <2>2. Submits(r)
    BY <1>8 DEF deliver, Submits
  <2>3. /\ s = "smtp_accepted" => Accepted(DraftOf(r), VersionOf(r))
        /\ s = "failed_before_submission" => ~Accepted(DraftOf(r), VersionOf(r))
    BY <1>8 DEF deliver, DeliveryResult, Inv, StagesAreTrue
  <2> QED BY <1>2, <1>6, <1>8, <2>1, <2>2, <2>3, ExecutionChanges DEF deliver
<1> QED BY <1>4, <1>5, <1>7, <1>8, <1>9

-----------------------------------------------------------------------------
(* Steps that change the journal *)

\* One row changes: the other rows, and every row's tests, as before.
LEMMA ClaimedRow ==
  ASSUME Inv, NEW d \in Drafts, NEW v \in Versions, NEW c \in Contents, claim(d, v, c)
  PROVE  /\ JournalInv'
         /\ ops[d][v].status = "none"
         /\ ops'[d][v] = Submitting(c)
         /\ ops'[d][v].status = "submitting"
         /\ \A e \in Drafts, w \in Versions : (e # d \/ w # v) => ops'[e][w] = ops[e][w]
         /\ \A e \in Drafts, w \in Versions : Blocks(ops[e][w]) => ops'[e][w] = ops[e][w]
<1>1. JournalInv'
  BY JournalStepInv DEF Inv, JournalNext
<1>2. ops[d][v].status = "none"
  BY DEF claim, ClaimCreates, Exists, for_draft
<1>3. ops'[d][v] = Submitting(c)
  BY DEF claim, Inv, TypeOK, JournalTypeOK
<1>4. \A e \in Drafts, w \in Versions : (e # d \/ w # v) => ops'[e][w] = ops[e][w]
  BY DEF claim, Inv, TypeOK, JournalTypeOK
<1> QED BY <1>1, <1>2, <1>3, <1>4 DEF Blocks, Submitting

LEMMA FinishedRow ==
  ASSUME Inv, NEW d \in Drafts, NEW v \in Versions, NEW s \in TERMINAL_STATUSES,
         finish(d, v, s), ops[d][v].status = "submitting"
  PROVE  /\ JournalInv'
         /\ ops'[d][v].status = s
         /\ s # "failed_before_submission" => Blocks(ops'[d][v])
         /\ \A e \in Drafts, w \in Versions : (e # d \/ w # v) => ops'[e][w] = ops[e][w]
<1>1. JournalInv'
  BY JournalStepInv DEF Inv, JournalNext
<1>2. ops[d][v] \in Operations
  BY DEF Inv, TypeOK, JournalTypeOK
<1>3. ops' = [ops EXCEPT ![d][v].status = s]
  BY DEF finish, for_draft
<1>4. ops'[d][v] = [ops[d][v] EXCEPT !.status = s]
  BY <1>3 DEF Inv, TypeOK, JournalTypeOK
<1>5. ops[d][v].reconciled = "none"
  BY DEF Inv, JournalInv, ReconciledWasUnknown
<1>6. ops'[d][v].status = s /\ ops'[d][v].reconciled = "none"
  BY <1>2, <1>4, <1>5 DEF Operations
<1>7. \A e \in Drafts, w \in Versions : (e # d \/ w # v) => ops'[e][w] = ops[e][w]
  BY <1>3 DEF Inv, TypeOK, JournalTypeOK
<1> QED BY <1>1, <1>6, <1>7 DEF Blocks, TERMINAL_STATUSES

LEMMA SendStep ==
  ASSUME Inv, NEW r \in Ids, email_send(r)
  PROVE  Inv'
<1>1. exec[r].at = "prepare"
  BY DEF email_send
<1>2. /\ reviews[r] \in Reviews /\ DraftOf(r) \in Drafts /\ VersionOf(r) \in Versions
      /\ ContentOf(r) \in Contents
  BY <1>1, ExecutedReview
<1>3. claim(DraftOf(r), VersionOf(r), ContentOf(r))
  BY DEF email_send
<1>4. /\ exec' = [exec EXCEPT ![r] = At("claimed")]
      /\ UNCHANGED <<drafts, origin, reviews, wire, daemon, cursor, restarts>>
      /\ daemon = "up"
  BY DEF email_send
<1>5. At("claimed") \in Executions /\ At("claimed").at = "claimed"
  BY ExecutionStates DEF Stages
<1>6. exec'[r] = At("claimed") /\ \A q \in Ids : q # r => exec'[q] = exec[q]
  BY <1>4 DEF Inv, TypeOK
<1>7. ~Accepted(DraftOf(r), VersionOf(r))
  BY <1>2, <1>3, ClaimedRow, AcceptedMessage DEF Accepted, Inv, AcceptedBlocks, Blocks
<1>8. \A q \in Ids : Submits(q) => /\ q # r
                                   /\ DraftOf(q) \in Drafts /\ VersionOf(q) \in Versions
                                   /\ ops[DraftOf(q)][VersionOf(q)].status = "submitting"
  BY <1>1, ExecutedReview DEF Submits, Inv, SubmissionsMatch
<1>9. TypeOK' /\ JournalInv'
  BY <1>2, <1>3, <1>4, <1>5, ClaimedRow DEF Inv, TypeOK, JournalInv
<1>10. ExecutionsMatch' /\ ReviewsMatch'
  BY <1>1, <1>4, <1>5, <1>6 DEF Inv, ExecutionsMatch, ReviewsMatch
<1>11. SubmissionsMatch'
  <2>1. drafts[DraftOf(r)].version = VersionOf(r) /\ drafts[DraftOf(r)].content = ContentOf(r)
    BY DEF email_send, DraftAsReviewed, DraftOf, VersionOf, ContentOf
  <2>2. ops'[DraftOf(r)][VersionOf(r)].status = "submitting"
    BY <1>2, <1>3, ClaimedRow
  <2>3. \A q \in Ids : Submits(q) => ops'[DraftOf(q)][VersionOf(q)].status = "submitting"
    BY <1>2, <1>3, <1>8, ClaimedRow DEF Blocks
  <2> QED BY <1>4, <1>6, <2>1, <2>2, <2>3
          DEF Inv, SubmissionsMatch, Submits, DraftOf, VersionOf, ContentOf
<1>12. OneSubmitter'
  <2>1. \A q \in Ids : Submits(q) => DraftOf(q) # DraftOf(r) \/ VersionOf(q) # VersionOf(r)
    BY <1>2, <1>3, <1>8, ClaimedRow
  <2> QED BY <1>4, <1>6, <2>1 DEF Inv, OneSubmitter, Submits, DraftOf, VersionOf
<1>13. AcceptedBlocks'
  BY <1>2, <1>3, <1>4, ClaimedRow, AcceptedMessage DEF Inv, AcceptedBlocks
<1>14. RowsAreTrue'
  BY <1>2, <1>3, <1>4, ClaimedRow DEF Inv, RowsAreTrue, Accepted
<1>15. StagesAreTrue'
  BY <1>4, <1>5, <1>6, <1>7 DEF Inv, StagesAreTrue, Accepted, DraftOf, VersionOf
<1>16. SentAsReviewed' /\ SentDraftIsFrozen' /\ NotSubmittedIsTrue' /\ AtMostOnce'
  BY <1>4 DEF Inv, SentAsReviewed, SentDraftIsFrozen, NotSubmittedIsTrue, AtMostOnce
<1>17. StartupProgress' /\ ApprovedIsAccountedFor'
  <2>1. \A q \in Ids : reviews[q].status = "approved" =>
          DraftOf(q) \in Drafts /\ VersionOf(q) \in Versions
    BY ReviewIsThere DEF Inv, TypeOK, Reviews, ReviewStatuses, DraftOf, VersionOf
  <2>2. \A q \in Ids : reviews[q].status = "approved" /\ Exists(DraftOf(q), VersionOf(q)) =>
          ops'[DraftOf(q)][VersionOf(q)].status # "none"
    BY <1>2, <1>3, <2>1, ClaimedRow DEF Exists, for_draft
  <2>3. ops'[DraftOf(r)][VersionOf(r)].status # "none"
    BY <1>2, <1>3, ClaimedRow
  <2> QED BY <1>4, <1>6, <2>2, <2>3
          DEF Inv, StartupProgress, ApprovedIsAccountedFor, Exists, for_draft, DraftOf, VersionOf
<1> QED BY <1>9, <1>10, <1>11, <1>12, <1>13, <1>14, <1>15, <1>16, <1>17 DEF Inv

\* email_send journals status s and returns to the handler.
LEMMA SubmissionEnds ==
  ASSUME Inv, NEW r \in Ids, NEW s \in TERMINAL_STATUSES, NEW b \in BOOLEAN,
         Submits(r),
         finish(DraftOf(r), VersionOf(r), s),
         exec' = [exec EXCEPT ![r] = Returned(b)],
         UNCHANGED <<drafts, origin, reviews, wire, daemon, cursor, restarts>>,
         s = "smtp_accepted" => Accepted(DraftOf(r), VersionOf(r)),
         s = "failed_before_submission" => ~Accepted(DraftOf(r), VersionOf(r)),
         b => s = "smtp_accepted"
  PROVE  Inv'
<1>1. /\ daemon = "up" /\ DraftOf(r) \in Drafts /\ VersionOf(r) \in Versions
      /\ ops[DraftOf(r)][VersionOf(r)].status = "submitting"
  BY ExecutedReview DEF Submits, Inv, SubmissionsMatch
<1>2. Returned(b) \in Executions /\ Returned(b).at = "returned" /\ Returned(b).delivered = b
  BY ExecutionStates
<1>3. exec'[r] = Returned(b) /\ \A q \in Ids : q # r => exec'[q] = exec[q]
  BY DEF Inv, TypeOK
<1>4. \A q \in Ids : Submits(q) => DraftOf(q) \in Drafts /\ VersionOf(q) \in Versions
  BY ExecutedReview DEF Submits
<1>5. TypeOK' /\ JournalInv'
  BY <1>1, <1>2, FinishedRow DEF Inv, TypeOK, JournalInv
<1>6. ExecutionsMatch' /\ ReviewsMatch'
  BY <1>1, <1>2, <1>3 DEF Inv, ExecutionsMatch, ReviewsMatch, Submits
<1>7. SubmissionsMatch' /\ OneSubmitter'
  <2>1. \A q \in Ids : Submits(q) /\ q # r =>
          ops'[DraftOf(q)][VersionOf(q)] = ops[DraftOf(q)][VersionOf(q)]
    BY <1>1, <1>4, FinishedRow DEF Inv, OneSubmitter
  <2> QED BY <1>2, <1>3, <2>1 DEF Inv, SubmissionsMatch, OneSubmitter, Submits, DraftOf,
                                   VersionOf, ContentOf
<1>8. AcceptedBlocks'
  BY <1>1, FinishedRow, AcceptedMessage DEF Inv, AcceptedBlocks, Accepted
<1>9. RowsAreTrue'
  BY <1>1, FinishedRow DEF Inv, RowsAreTrue, Accepted
<1>10. StagesAreTrue'
  BY <1>2, <1>3 DEF Inv, StagesAreTrue, Accepted, DraftOf, VersionOf
<1>11. SentAsReviewed' /\ SentDraftIsFrozen' /\ NotSubmittedIsTrue' /\ AtMostOnce'
  BY DEF Inv, SentAsReviewed, SentDraftIsFrozen, NotSubmittedIsTrue, AtMostOnce
<1>12. StartupProgress' /\ ApprovedIsAccountedFor'
  <2>1. \A q \in Ids : reviews[q].status = "approved" =>
          DraftOf(q) \in Drafts /\ VersionOf(q) \in Versions
    BY ReviewIsThere DEF Inv, TypeOK, Reviews, ReviewStatuses, DraftOf, VersionOf
  <2>2. \A q \in Ids : reviews[q].status = "approved" /\ Exists(DraftOf(q), VersionOf(q)) =>
          ops'[DraftOf(q)][VersionOf(q)].status # "none"
    BY <1>1, <2>1, FinishedRow DEF Exists, for_draft, TERMINAL_STATUSES
  <2> QED BY <1>1, <1>2, <1>3, <2>2
          DEF Inv, StartupProgress, ApprovedIsAccountedFor, Exists, for_draft, DraftOf, VersionOf
<1> QED BY <1>5, <1>6, <1>7, <1>8, <1>9, <1>10, <1>11, <1>12 DEF Inv

LEMMA FinishStep ==
  ASSUME Inv, NEW r \in Ids, FinishOperation(r) \/ InterruptSubmission(r)
  PROVE  Inv'
<1>1. CASE FinishOperation(r)
  <2> DEFINE s == exec[r].reply
             b == (exec[r].reply = "smtp_accepted")
  <2>1. Submits(r) /\ s \in TERMINAL_STATUSES
    BY <1>1 DEF FinishOperation, Submits, Inv, StagesAreTrue
  <2>2. /\ s = "smtp_accepted" => Accepted(DraftOf(r), VersionOf(r))
        /\ s = "failed_before_submission" => ~Accepted(DraftOf(r), VersionOf(r))
    BY <1>1 DEF FinishOperation, Inv, StagesAreTrue
  <2>3. /\ finish(DraftOf(r), VersionOf(r), s)
        /\ exec' = [exec EXCEPT ![r] = Returned(b)]
        /\ UNCHANGED <<drafts, origin, reviews, wire, daemon, cursor, restarts>>
    BY <1>1 DEF FinishOperation
  <2> HIDE DEF s
  <2>4. b \in BOOLEAN /\ (b => s = "smtp_accepted")
    BY DEF s
  <2> HIDE DEF b
  <2> QED BY <2>1, <2>2, <2>3, <2>4, SubmissionEnds
<1>2. CASE InterruptSubmission(r)
  <2>1. Submits(r) /\ "outcome_unknown" \in TERMINAL_STATUSES
    BY <1>2 DEF InterruptSubmission, Submits, TERMINAL_STATUSES
  <2> QED BY <1>2, <2>1, SubmissionEnds DEF InterruptSubmission
<1> QED BY <1>1, <1>2

\* Rows change outside any execution: none that is being submitted, and no
\* accepted one ceases to block.
LEMMA RowsChange ==
  ASSUME Inv, JournalInv',
         UNCHANGED <<drafts, origin, reviews, exec, wire, restarts>>,
         daemon' \in {"up", "boot", "failed"},
         cursor' \in 1 .. MaxReviews + 1,
         \A r \in Ids : exec[r].at # "idle" => daemon' = "up",
         \A d \in Drafts, v \in Versions :
           /\ \A r \in Ids : Submits(r) /\ DraftOf(r) = d /\ VersionOf(r) = v
                               => ops'[d][v] = ops[d][v]
           /\ Accepted(d, v) => Blocks(ops'[d][v])
           /\ ops'[d][v].status = "smtp_accepted" => Accepted(d, v),
         StartupProgress',
         ApprovedIsAccountedFor'
  PROVE  Inv'
<1>1. TypeOK' /\ JournalInv'
  BY DEF Inv, TypeOK, JournalInv
<1>2. ExecutionsMatch' /\ ReviewsMatch'
  BY DEF Inv, ExecutionsMatch, ReviewsMatch
<1>3. \A r \in Ids : Submits(r) =>
        /\ DraftOf(r) \in Drafts /\ VersionOf(r) \in Versions
        /\ ops'[DraftOf(r)][VersionOf(r)] = ops[DraftOf(r)][VersionOf(r)]
  BY ExecutedReview DEF Submits
<1>4. SubmissionsMatch' /\ OneSubmitter'
  BY <1>3 DEF Inv, SubmissionsMatch, OneSubmitter, Submits, DraftOf, VersionOf, ContentOf
<1>5. AcceptedBlocks'
  BY AcceptedMessage DEF AcceptedBlocks, Accepted
<1>6. RowsAreTrue'
  BY DEF RowsAreTrue, Accepted
<1>7. StagesAreTrue' /\ SentAsReviewed' /\ SentDraftIsFrozen' /\ NotSubmittedIsTrue' /\ AtMostOnce'
  BY DEF Inv, StagesAreTrue, Accepted, DraftOf, VersionOf, SentAsReviewed, SentDraftIsFrozen,
         NotSubmittedIsTrue, AtMostOnce
<1> QED BY <1>1, <1>2, <1>4, <1>5, <1>6, <1>7 DEF Inv

\* The reviews of the queue name drafts and versions there are.
LEMMA ApprovedReview ==
  ASSUME Inv, NEW r \in Ids, reviews[r].status = "approved"
  PROVE  /\ reviews[r] # NoReview
         /\ DraftOf(r) \in Drafts /\ VersionOf(r) \in Versions /\ ContentOf(r) \in Contents
  BY ReviewIsThere DEF Inv, TypeOK, Reviews, ReviewStatuses, DraftOf, VersionOf, ContentOf

LEMMA ReconcileStep ==
  ASSUME Inv, NEW d \in Drafts, NEW v \in Versions, NEW o \in Outcomes,
         email_operation_reconcile(d, v, o)
  PROVE  Inv'
<1>1. /\ reconcile(d, v, o) /\ daemon = "up"
      /\ UNCHANGED <<drafts, origin, reviews, exec, wire, daemon, cursor, restarts>>
      /\ (o = "smtp_accepted") <=> Accepted(d, v)
  BY DEF email_operation_reconcile
<1>2. JournalInv'
  BY <1>1, JournalStepInv DEF Inv, JournalNext
<1>3. ops[d][v] \in Operations /\ ops[d][v].status = "outcome_unknown"
  BY <1>1 DEF reconcile, for_draft, Inv, TypeOK, JournalTypeOK
<1>4. ops'[d][v] = [ops[d][v] EXCEPT !.reconciled = o]
  BY <1>1 DEF reconcile, Inv, TypeOK, JournalTypeOK
<1>5. ops'[d][v].status = "outcome_unknown" /\ ops'[d][v].reconciled = o
  BY <1>3, <1>4 DEF Operations
<1>6. \A e \in Drafts, w \in Versions : (e # d \/ w # v) => ops'[e][w] = ops[e][w]
  BY <1>1 DEF reconcile, Inv, TypeOK, JournalTypeOK
<1>7. \A r \in Ids : Submits(r) => ops[DraftOf(r)][VersionOf(r)].status = "submitting"
  BY DEF Inv, SubmissionsMatch
<1>8. \A e \in Drafts, w \in Versions : Accepted(e, w) => Blocks(ops[e][w])
  BY DEF Inv, AcceptedBlocks, Accepted
<1>9. \A e \in Drafts, w \in Versions :
        /\ \A r \in Ids : Submits(r) /\ DraftOf(r) = e /\ VersionOf(r) = w
                            => ops'[e][w] = ops[e][w]
        /\ Accepted(e, w) => Blocks(ops'[e][w])
        /\ ops'[e][w].status = "smtp_accepted" => Accepted(e, w)
  <2> SUFFICES ASSUME NEW e \in Drafts, NEW w \in Versions
               PROVE  /\ \A r \in Ids : Submits(r) /\ DraftOf(r) = e /\ VersionOf(r) = w
                                          => ops'[e][w] = ops[e][w]
                      /\ Accepted(e, w) => Blocks(ops'[e][w])
                      /\ ops'[e][w].status = "smtp_accepted" => Accepted(e, w)
    OBVIOUS
  <2>1. CASE e = d /\ w = v
    BY <1>1, <1>3, <1>5, <1>7, <2>1 DEF Blocks
  <2>2. CASE e # d \/ w # v
    <3>1. ops'[e][w] = ops[e][w]
      BY <1>6, <2>2
    <3> QED BY <1>8, <3>1 DEF Inv, RowsAreTrue
  <2> QED BY <2>1, <2>2
<1>10. StartupProgress' /\ ApprovedIsAccountedFor'
  <2>1. \A q \in Ids : reviews[q].status = "approved" /\ Exists(DraftOf(q), VersionOf(q)) =>
          ops'[DraftOf(q)][VersionOf(q)].status # "none"
    BY <1>5, <1>6, ApprovedReview DEF Exists, for_draft
  <2> QED BY <1>1, <2>1
          DEF Inv, StartupProgress, ApprovedIsAccountedFor, Exists, for_draft, DraftOf, VersionOf
<1>11. daemon' \in {"up", "boot", "failed"} /\ cursor' \in 1 .. MaxReviews + 1
  BY <1>1 DEF Inv, TypeOK
<1> QED BY <1>1, <1>2, <1>9, <1>10, <1>11, RowsChange

\* Startup, review by review: it runs before any handler does.
LEMMA StartupStep ==
  ASSUME Inv, NEW r \in Ids, StartupReview(r)
  PROVE  Inv'
<1>1. /\ daemon = "boot" /\ cursor = r
      /\ UNCHANGED <<drafts, origin, reviews, exec, wire, restarts>>
  BY DEF StartupReview, StartupSkips, StartupClaims, StartupFinishes, StartupRaises, StartupAt
<1>2. \A q \in Ids : exec[q].at = "idle" /\ ~Submits(q)
  BY <1>1 DEF Inv, ExecutionsMatch, Submits
<1>3. \A e \in Drafts, w \in Versions : Accepted(e, w) => Blocks(ops[e][w])
  BY DEF Inv, AcceptedBlocks, Accepted
<1>4. r \in 1 .. MaxReviews + 1 /\ r + 1 \in 1 .. MaxReviews + 1
  BY MaxReviewsIsNat
<1>5. \A q \in Ids : q < r + 1 => q < r \/ q = r
  BY MaxReviewsIsNat
<1>6. CASE StartupSkips(r)
  <2>1. UNCHANGED <<ops, daemon>> /\ cursor' = r + 1 /\ ~NeedsEvidence(r)
    BY <1>6 DEF StartupSkips
  <2>2. JournalInv'
    BY <2>1, JournalStepInv DEF Inv
  <2>3. StartupProgress' /\ ApprovedIsAccountedFor'
    BY <1>1, <1>5, <2>1 DEF Inv, StartupProgress, ApprovedIsAccountedFor, NeedsEvidence, Traced,
                            Exists, for_draft, DraftOf, VersionOf
  <2> QED BY <1>1, <1>2, <1>3, <1>4, <2>1, <2>2, <2>3, RowsChange DEF Inv, RowsAreTrue
<1>7. CASE StartupClaims(r)
  <2>1. /\ UNCHANGED <<daemon, cursor>> /\ NeedsEvidence(r)
        /\ claim(DraftOf(r), VersionOf(r), ContentOf(r))
    BY <1>7 DEF StartupClaims
  <2>2. DraftOf(r) \in Drafts /\ VersionOf(r) \in Versions /\ ContentOf(r) \in Contents
    BY <2>1, ApprovedReview DEF NeedsEvidence
  <2>3. JournalInv'
    BY <2>1, <2>2, ClaimedRow
  <2>4. \A e \in Drafts, w \in Versions : /\ Accepted(e, w) => Blocks(ops'[e][w])
                                          /\ ops'[e][w].status = "smtp_accepted" => Accepted(e, w)
    BY <1>3, <2>1, <2>2, ClaimedRow DEF Inv, RowsAreTrue
  <2>5. \A q \in Ids : reviews[q].status = "approved" /\ Exists(DraftOf(q), VersionOf(q)) =>
          ops'[DraftOf(q)][VersionOf(q)].status # "none"
    BY <2>1, <2>2, ClaimedRow, ApprovedReview DEF Exists, for_draft
  <2>6. StartupProgress' /\ ApprovedIsAccountedFor'
    BY <1>1, <2>1, <2>5 DEF Inv, StartupProgress, ApprovedIsAccountedFor, Traced, Exists,
                            for_draft, DraftOf, VersionOf
  <2> QED BY <1>1, <1>2, <1>4, <2>1, <2>3, <2>4, <2>6, RowsChange
<1>8. CASE StartupFinishes(r)
  <2>1. /\ UNCHANGED daemon /\ cursor' = r + 1 /\ reviews[r] # NoReview
        /\ ops[DraftOf(r)][VersionOf(r)].status = "submitting"
        /\ finish(DraftOf(r), VersionOf(r), "outcome_unknown")
    BY <1>8 DEF StartupFinishes, for_draft
  <2>2. DraftOf(r) \in Drafts /\ VersionOf(r) \in Versions
    BY <2>1, ReviewIsThere DEF Inv, TypeOK, Reviews, DraftOf, VersionOf
  <2>3. "outcome_unknown" \in TERMINAL_STATUSES
    BY DEF TERMINAL_STATUSES
  <2>4. JournalInv'
    BY <2>1, <2>2, <2>3, FinishedRow
  <2>5. \A e \in Drafts, w \in Versions : /\ Accepted(e, w) => Blocks(ops'[e][w])
                                          /\ ops'[e][w].status = "smtp_accepted" => Accepted(e, w)
    BY <1>3, <2>1, <2>2, <2>3, FinishedRow DEF Inv, RowsAreTrue
  <2>6. \A q \in Ids : reviews[q].status = "approved" /\ Exists(DraftOf(q), VersionOf(q)) =>
          ops'[DraftOf(q)][VersionOf(q)].status # "none"
    BY <2>1, <2>2, <2>3, FinishedRow, ApprovedReview DEF Exists, for_draft
  <2>7. ops'[DraftOf(r)][VersionOf(r)].status # "none"
    BY <2>1, <2>2, <2>3, FinishedRow
  <2>8. StartupProgress' /\ ApprovedIsAccountedFor'
    BY <1>1, <1>5, <2>1, <2>6, <2>7 DEF Inv, StartupProgress, ApprovedIsAccountedFor, Traced,
                                        Exists, for_draft, DraftOf, VersionOf
  <2> QED BY <1>1, <1>2, <1>4, <2>1, <2>4, <2>5, <2>8, RowsChange
<1>9. CASE StartupRaises(r)
  <2>1. UNCHANGED <<ops, cursor>> /\ daemon' = "failed"
    BY <1>9 DEF StartupRaises
  <2>2. JournalInv'
    BY <2>1, JournalStepInv DEF Inv
  <2>3. StartupProgress' /\ ApprovedIsAccountedFor'
    BY <2>1 DEF StartupProgress, ApprovedIsAccountedFor
  <2> QED BY <1>1, <1>2, <1>3, <1>4, <2>1, <2>2, <2>3, RowsChange DEF Inv, RowsAreTrue
<1> QED BY <1>6, <1>7, <1>8, <1>9 DEF StartupReview

LEMMA StartupEndsStep ==
  ASSUME Inv, StartupEnds
  PROVE  Inv'
<1>1. /\ daemon = "boot" /\ cursor = MaxReviews + 1 /\ daemon' = "up" /\ cursor' = 1
      /\ UNCHANGED <<ops, drafts, origin, reviews, exec, wire, restarts>>
  BY DEF StartupEnds
<1>2. JournalInv'
  BY <1>1, JournalStepInv DEF Inv
<1>3. \A q \in Ids : q < cursor
  BY <1>1, MaxReviewsIsNat
<1>4. StartupProgress' /\ ApprovedIsAccountedFor'
  BY <1>1, <1>3 DEF Inv, StartupProgress, ApprovedIsAccountedFor, Traced, Exists, for_draft,
                    DraftOf, VersionOf
<1>5. \A e \in Drafts, w \in Versions : Accepted(e, w) => Blocks(ops[e][w])
  BY DEF Inv, AcceptedBlocks, Accepted
<1>6. cursor' \in 1 .. MaxReviews + 1
  BY <1>1, MaxReviewsIsNat
<1> QED BY <1>1, <1>2, <1>4, <1>5, <1>6, RowsChange DEF Inv, RowsAreTrue

-----------------------------------------------------------------------------
(* Acceptance, the end of an execution, and the crash *)

\* The only step that puts a message on the wire: its row is submitting, so by
\* the journal no other row of the draft blocks, and no message of the draft is
\* on the wire.
LEMMA AcceptStep ==
  ASSUME Inv, NEW r \in Ids, SmtpAccepts(r)
  PROVE  Inv'
<1> DEFINE m == [draft |-> DraftOf(r), version |-> VersionOf(r),
                 content |-> ContentOf(r), review |-> r]
<1>1. /\ exec[r].at = "data" /\ daemon = "up"
      /\ wire' = Append(wire, m)
      /\ exec' = [exec EXCEPT ![r] = At("accepted")]
      /\ UNCHANGED <<ops, drafts, origin, reviews, daemon, cursor, restarts>>
  BY DEF SmtpAccepts
<1>2. /\ reviews[r] \in Reviews /\ DraftOf(r) \in Drafts /\ VersionOf(r) \in Versions
      /\ ContentOf(r) \in Contents
  BY <1>1, ExecutedReview
<1>3. m \in Messages /\ m.draft = DraftOf(r) /\ m.version = VersionOf(r)
      /\ m.content = ContentOf(r) /\ m.review = r
  BY <1>2 DEF Messages
<1> HIDE DEF m
<1>4. wire \in Seq(Messages)
  BY DEF Inv, TypeOK
<1>5. /\ Len(wire) \in Nat /\ DOMAIN wire = 1 .. Len(wire)
      /\ wire' \in Seq(Messages) /\ Len(wire') = Len(wire) + 1
      /\ DOMAIN wire' = 1 .. Len(wire) + 1
      /\ wire'[Len(wire) + 1] = m
      /\ \A i \in DOMAIN wire : wire'[i] = wire[i]
  BY <1>1, <1>3, <1>4
<1>6. \A i \in DOMAIN wire' : (i \in DOMAIN wire /\ wire'[i] = wire[i])
                              \/ (i = Len(wire) + 1 /\ wire'[i] = m)
  BY <1>5
<1>7. Submits(r) /\ ops[DraftOf(r)][VersionOf(r)].status = "submitting"
      /\ drafts[DraftOf(r)].version = VersionOf(r) /\ drafts[DraftOf(r)].content = ContentOf(r)
  BY <1>1 DEF Submits, Inv, SubmissionsMatch
<1>8. ~Accepted(DraftOf(r), VersionOf(r))
  BY <1>1 DEF Inv, StagesAreTrue
<1>9. \A i \in DOMAIN wire : wire[i].draft # DraftOf(r)
  <2> SUFFICES ASSUME NEW i \in DOMAIN wire, wire[i].draft = DraftOf(r) PROVE FALSE
    OBVIOUS
  <2>1. wire[i].version \in Versions /\ Blocks(ops[DraftOf(r)][wire[i].version])
    BY AcceptedMessage DEF Inv, AcceptedBlocks
  <2>2. Exists(DraftOf(r), wire[i].version) /\ Exists(DraftOf(r), VersionOf(r))
    BY <1>7, <2>1 DEF Blocks, Exists, for_draft
  <2>3. Blocks(ops[DraftOf(r)][VersionOf(r)])
    BY <1>7 DEF Blocks
  <2>4. VersionOf(r) <= wire[i].version /\ wire[i].version <= VersionOf(r)
    BY <1>2, <2>1, <2>2, <2>3 DEF Inv, JournalInv, BlockingIsNewest
  <2>5. wire[i].version = VersionOf(r)
    BY <1>2, <2>1, <2>4, MaxVersionIsPositive
  <2> QED BY <1>8, <2>5 DEF Accepted
<1>10. \A d \in Drafts, v \in Versions :
         Accepted(d, v)' <=> Accepted(d, v) \/ (d = DraftOf(r) /\ v = VersionOf(r))
  BY <1>3, <1>5, <1>6 DEF Accepted
<1>11. At("accepted") \in Executions /\ At("accepted").at = "accepted"
  BY ExecutionStates DEF Stages
<1>12. exec'[r] = At("accepted") /\ \A q \in Ids : q # r => exec'[q] = exec[q]
  BY <1>1 DEF Inv, TypeOK
<1>13. TypeOK' /\ JournalInv'
  BY <1>1, <1>5, <1>11 DEF Inv, TypeOK, JournalTypeOK, JournalInv, BlockingIsNewest,
                     ReconciledWasUnknown, Exists, for_draft
<1>14. ExecutionsMatch' /\ ReviewsMatch'
  BY <1>1, <1>11, <1>12 DEF Inv, ExecutionsMatch, ReviewsMatch
<1>15. SubmissionsMatch' /\ OneSubmitter'
  BY <1>1, <1>7, <1>12 DEF Inv, SubmissionsMatch, OneSubmitter, Submits, DraftOf, VersionOf,
                           ContentOf
<1>16. AcceptedBlocks' /\ SentDraftIsFrozen'
  BY <1>1, <1>3, <1>6, <1>7 DEF Inv, AcceptedBlocks, SentDraftIsFrozen, Blocks
<1>17. SentAsReviewed' /\ NotSubmittedIsTrue'
  <2>1. /\ reviews[r].status = "approved" /\ ~reviews[r].not_submitted
        /\ reviews[r].labels \subseteq Releasable
    BY <1>1 DEF Inv, ExecutionsMatch, ReviewsMatch
  <2> QED BY <1>1, <1>3, <1>6, <2>1 DEF Inv, SentAsReviewed, NotSubmittedIsTrue, DraftOf,
                                        VersionOf, ContentOf
<1>18. StagesAreTrue'
  <2>1. \A q \in Ids : exec[q].at # "idle" => DraftOf(q) \in Drafts /\ VersionOf(q) \in Versions
    BY ExecutedReview
  <2>2. \A q \in Ids : Submits(q) /\ q # r =>
          DraftOf(q) # DraftOf(r) \/ VersionOf(q) # VersionOf(r)
    BY <1>7 DEF Inv, OneSubmitter
  <2>3. \A q \in Ids : DraftOf(q)' = DraftOf(q) /\ VersionOf(q)' = VersionOf(q)
    BY <1>1 DEF DraftOf, VersionOf
  <2>4. ASSUME NEW q \in Ids, q # r, exec[q].at # "idle"
        PROVE  /\ Submits(q) => (Accepted(DraftOf(q), VersionOf(q))' <=> Accepted(DraftOf(q), VersionOf(q)))
               /\ Accepted(DraftOf(q), VersionOf(q)) => Accepted(DraftOf(q), VersionOf(q))'
    BY <1>10, <2>1, <2>2, <2>3, <2>4 DEF Accepted
  <2>5. Accepted(DraftOf(r), VersionOf(r))'
    BY <1>2, <1>10, <2>3 DEF Accepted
  <2> QED BY <1>11, <1>12, <2>3, <2>4, <2>5 DEF Inv, StagesAreTrue, Submits
<1>19. RowsAreTrue'
  BY <1>1, <1>10 DEF Inv, RowsAreTrue
<1>20. AtMostOnce'
  BY <1>3, <1>6, <1>9 DEF Inv, AtMostOnce
<1>21. StartupProgress' /\ ApprovedIsAccountedFor'
  BY <1>1, <1>2, <1>7, <1>12 DEF Inv, StartupProgress, ApprovedIsAccountedFor, Exists, for_draft,
                                 DraftOf, VersionOf
<1> QED BY <1>13, <1>14, <1>15, <1>16, <1>17, <1>18, <1>19, <1>20, <1>21 DEF Inv

\* A review that sent something has an operation, so it is not marked.
LEMMA SettleStep ==
  ASSUME Inv, NEW r \in Ids, SettleExecution(r)
  PROVE  Inv'
<1>1. /\ exec[r].at = "returned" /\ daemon = "up"
      /\ exec' = [exec EXCEPT ![r] = Idle]
      /\ UNCHANGED <<ops, origin, wire, daemon, cursor, restarts>>
  BY DEF SettleExecution
<1>2. /\ reviews[r] \in Reviews /\ DraftOf(r) \in Drafts /\ VersionOf(r) \in Versions
      /\ ContentOf(r) \in Contents
  BY <1>1, ExecutedReview
<1>3. reviews[r].status = "approved" /\ ~reviews[r].not_submitted
  BY <1>1 DEF Inv, ExecutionsMatch
<1> DEFINE mark == reviews[r].not_submitted \/ ~Exists(DraftOf(r), VersionOf(r))
           v == [reviews[r] EXCEPT !.not_submitted = mark]
<1>4. mark <=> ~Exists(DraftOf(r), VersionOf(r))
  BY <1>3
<1>5. reviews' = [reviews EXCEPT ![r] = v]
  BY DEF SettleExecution
<1>6. /\ v \in Reviews /\ v.status = reviews[r].status /\ v.draft = reviews[r].draft
      /\ v.version = reviews[r].version /\ v.content = reviews[r].content
      /\ v.labels = reviews[r].labels /\ v.not_submitted = mark
  <2>1. mark \in BOOLEAN
    OBVIOUS
  <2> HIDE DEF mark
  <2> QED BY <1>2, <2>1 DEF Reviews
<1>7. v # NoReview
  BY <1>3, <1>6 DEF NoReview
<1> HIDE DEF v, mark
<1>8. reviews'[r] = v /\ \A q \in Ids : q # r => reviews'[q] = reviews[q]
  BY <1>5 DEF Inv, TypeOK
<1>9. exec'[r] = Idle /\ \A q \in Ids : q # r => exec'[q] = exec[q]
  BY <1>1 DEF Inv, TypeOK
<1>10. Idle \in Executions /\ Idle.at = "idle"
  BY ExecutionStates DEF Idle
<1>11. /\ drafts' \in [Drafts -> DraftStates]
       /\ \A d \in Drafts :
            drafts'[d].version = drafts[d].version /\ drafts'[d].content = drafts[d].content
  <2>1. drafts \in [Drafts -> DraftStates]
    BY DEF Inv, TypeOK
  <2>2. CASE exec[r].delivered
    <3>1. drafts' = [drafts EXCEPT ![DraftOf(r)] = [drafts[DraftOf(r)] EXCEPT !.present = FALSE]]
      BY <2>2 DEF SettleExecution
    <3>2. Accepted(DraftOf(r), VersionOf(r))
      BY <1>1, <2>2 DEF Inv, StagesAreTrue
    <3>3. drafts[DraftOf(r)].version \in Versions
      BY <1>2, <3>2, AcceptedMessage DEF Inv, SentDraftIsFrozen, Accepted
    <3>4. drafts[DraftOf(r)] \in [version : Versions, content : Contents, present : BOOLEAN]
      BY <1>2, <2>1, <3>3, MaxVersionIsPositive DEF DraftStates, NoDraft
    <3>5. /\ [drafts[DraftOf(r)] EXCEPT !.present = FALSE] \in DraftStates
          /\ [drafts[DraftOf(r)] EXCEPT !.present = FALSE].version = drafts[DraftOf(r)].version
          /\ [drafts[DraftOf(r)] EXCEPT !.present = FALSE].content = drafts[DraftOf(r)].content
      BY <3>4 DEF DraftStates
    <3> QED BY <1>2, <2>1, <3>1, <3>5
  <2>3. CASE ~exec[r].delivered
    BY <2>1, <2>3 DEF SettleExecution
  <2> QED BY <2>2, <2>3
<1>12. \A q \in Ids : /\ DraftOf(q)' = DraftOf(q) /\ VersionOf(q)' = VersionOf(q)
                      /\ ContentOf(q)' = ContentOf(q)
  BY <1>6, <1>8 DEF DraftOf, VersionOf, ContentOf
<1>13. \A q \in Ids : Submits(q)' <=> Submits(q)
  BY <1>1, <1>9, <1>10 DEF Submits
<1>14. TypeOK' /\ JournalInv'
  BY <1>1, <1>5, <1>6, <1>10, <1>11 DEF Inv, TypeOK, JournalTypeOK, JournalInv, BlockingIsNewest,
                     ReconciledWasUnknown, Exists, for_draft
<1>15. ExecutionsMatch' /\ ReviewsMatch'
  BY <1>1, <1>3, <1>6, <1>8, <1>9, <1>10 DEF Inv, ExecutionsMatch, ReviewsMatch
<1>16. SubmissionsMatch' /\ OneSubmitter'
  <2>1. \A q \in Ids : Submits(q) => DraftOf(q) \in Drafts
    BY ExecutedReview DEF Submits
  <2> QED BY <1>1, <1>11, <1>12, <1>13, <2>1 DEF Inv, SubmissionsMatch, OneSubmitter
<1>17. AcceptedBlocks' /\ RowsAreTrue' /\ AtMostOnce'
  BY <1>1 DEF Inv, AcceptedBlocks, RowsAreTrue, AtMostOnce, Accepted
<1>18. SentDraftIsFrozen'
  BY <1>1, <1>11, AcceptedMessage DEF Inv, SentDraftIsFrozen
<1>19. StagesAreTrue'
  BY <1>1, <1>9, <1>10, <1>12 DEF Inv, StagesAreTrue, Accepted
<1>20. SentAsReviewed'
  BY <1>1, <1>6, <1>8, AcceptedMessage DEF Inv, SentAsReviewed
<1>21. NotSubmittedIsTrue'
  <2>1. ASSUME NEW i \in DOMAIN wire, wire[i].review = r PROVE ~mark
    BY <1>4, <2>1 DEF Inv, SentAsReviewed, AcceptedBlocks, Blocks, Exists, for_draft, DraftOf,
                      VersionOf
  <2> QED BY <1>1, <1>6, <1>8, <2>1, AcceptedMessage DEF Inv, NotSubmittedIsTrue
<1>22. StartupProgress' /\ ApprovedIsAccountedFor'
  <2>1. Exists(DraftOf(r), VersionOf(r))' \/ reviews'[r].not_submitted
    BY <1>1, <1>4, <1>6, <1>8, <1>12 DEF Exists, for_draft
  <2> QED BY <1>1, <1>8, <1>9, <1>12, <2>1 DEF Inv, StartupProgress, ApprovedIsAccountedFor,
                                               Exists, for_draft
<1> QED BY <1>14, <1>15, <1>16, <1>17, <1>18, <1>19, <1>20, <1>21, <1>22 DEF Inv

\* The crash ends every execution; what it left submitting stays blocked.
LEMMA RestartStep ==
  ASSUME Inv, Restart
  PROVE  Inv'
<1>1. /\ exec' = [r \in Ids |-> Idle] /\ daemon' = "boot" /\ cursor' = 1
      /\ restarts < MaxRestarts /\ restarts' = restarts + 1
      /\ recover_submitting
      /\ UNCHANGED <<drafts, origin, wire>>
  BY DEF Restart
<1>2. \A r \in Ids : exec'[r].at = "idle" /\ ~Submits(r)'
  BY <1>1 DEF Idle, Submits
<1>3. JournalInv'
  BY <1>1, JournalStepInv DEF Inv, JournalNext
<1>4. \A d \in Drafts, v \in Versions :
        ops[d][v] \in Operations /\ ops'[d][v] = RecoveredOperation(ops[d][v])
  BY <1>1 DEF recover_submitting, Inv, TypeOK, JournalTypeOK
<1>5. \A r \in Ids : reviews'[r] = reviews[r] \/ Closes(r)
  BY DEF Restart, Closes, ReviewStatuses
<1>6. \A r \in Ids : reviews[r] \in Reviews \cup {NoReview}
  BY DEF Inv, TypeOK
<1>7. ASSUME NEW r \in Ids, Closes(r)
      PROVE  /\ reviews[r] \in Reviews /\ reviews[r] # NoReview /\ reviews[r].status = "pending"
             /\ reviews'[r] \in Reviews /\ reviews'[r] # NoReview
             /\ reviews'[r].status # "approved"
             /\ reviews'[r].not_submitted = reviews[r].not_submitted
  <2>1. reviews[r] \in Reviews /\ reviews[r] # NoReview /\ reviews[r].status = "pending"
    BY <1>6, <1>7, ReviewIsThere DEF Closes, Pending, ReviewStatuses
  <2>2. PICK s \in ReviewStatuses \ {"pending", "approved"} :
          reviews'[r] = [reviews[r] EXCEPT !.status = s]
    BY <1>7 DEF Closes
  <2>3. reviews'[r] \in Reviews /\ reviews'[r].status = s
        /\ reviews'[r].not_submitted = reviews[r].not_submitted
    BY <2>1, <2>2, ReviewWithStatus
  <2>4. reviews'[r] # NoReview
    BY <2>3 DEF NoReview, ReviewStatuses
  <2> QED BY <2>1, <2>3, <2>4
<1>8. TypeOK'
  <2>1. reviews' \in [Ids -> Reviews \cup {NoReview}]
    BY <1>5, <1>6, <1>7 DEF Restart
  <2>2. exec' \in [Ids -> Executions]
    BY <1>1, ExecutionStates
  <2>3. restarts' \in 0 .. MaxRestarts /\ cursor' \in 1 .. MaxReviews + 1
    BY <1>1, MaxRestartsIsNat, MaxReviewsIsNat DEF Inv, TypeOK
  <2> QED BY <1>1, <1>3, <2>1, <2>2, <2>3 DEF Inv, TypeOK, JournalInv
<1>9. ExecutionsMatch' /\ SubmissionsMatch' /\ OneSubmitter' /\ StagesAreTrue'
  BY <1>2 DEF ExecutionsMatch, SubmissionsMatch, OneSubmitter, StagesAreTrue
<1>10. ReviewsMatch'
  BY <1>5, <1>7 DEF Inv, ReviewsMatch
<1>11. AcceptedBlocks'
  <2>1. ASSUME NEW i \in DOMAIN wire
        PROVE  Blocks(ops'[wire[i].draft][wire[i].version])
    <3> DEFINE op == ops[wire[i].draft][wire[i].version]
    <3>1. op \in Operations /\ ops'[wire[i].draft][wire[i].version] = RecoveredOperation(op)
      BY <1>4, AcceptedMessage
    <3>2. Blocks(op) /\ (op.reconciled # "none" => op.status = "outcome_unknown")
      BY AcceptedMessage DEF Inv, AcceptedBlocks, JournalInv, ReconciledWasUnknown
    <3> QED BY <3>1, <3>2 DEF RecoveredOperation, Blocks, Operations
  <2> QED BY <1>1, <2>1 DEF AcceptedBlocks
<1>12. RowsAreTrue'
  <2>1. \A d \in Drafts, v \in Versions :
          ops'[d][v].status = "smtp_accepted" => ops[d][v].status = "smtp_accepted"
    BY <1>4 DEF RecoveredOperation, Operations
  <2> QED BY <1>1, <2>1 DEF Inv, RowsAreTrue, Accepted
<1>13. SentDraftIsFrozen' /\ AtMostOnce'
  BY <1>1 DEF Inv, SentDraftIsFrozen, AtMostOnce
<1>14. SentAsReviewed' /\ NotSubmittedIsTrue'
  <2>1. \A i \in DOMAIN wire : reviews'[wire[i].review] = reviews[wire[i].review]
    BY <1>5, <1>7, AcceptedMessage DEF Inv, SentAsReviewed
  <2> QED BY <1>1, <2>1 DEF Inv, SentAsReviewed, NotSubmittedIsTrue
<1>15. StartupProgress' /\ ApprovedIsAccountedFor'
  BY <1>1, MaxReviewsIsNat DEF StartupProgress, ApprovedIsAccountedFor
<1> QED BY <1>3, <1>8, <1>9, <1>10, <1>11, <1>12, <1>13, <1>14, <1>15 DEF Inv

-----------------------------------------------------------------------------
(* The theorems *)

LEMMA InitInv == Init => Inv
<1> SUFFICES ASSUME Init PROVE Inv
  OBVIOUS
<1>1. TypeOK
  BY InitTyped
<1>2. JournalInv
  BY JournalInitInv DEF Init
<1>3. /\ \A r \in Ids : exec[r].at = "idle" /\ reviews[r] = NoReview /\ ~Submits(r)
      /\ DOMAIN wire = {} /\ daemon = "up"
  BY DEF Init, Idle, Submits
<1>4. RowsAreTrue
  BY DEF Init, JournalInit, RowsAreTrue, NoOperation
<1> QED BY <1>1, <1>2, <1>3, <1>4
        DEF Inv, ExecutionsMatch, ReviewsMatch, SubmissionsMatch, OneSubmitter, AcceptedBlocks,
            SentAsReviewed, SentDraftIsFrozen, NotSubmittedIsTrue, StagesAreTrue, AtMostOnce,
            StartupProgress, ApprovedIsAccountedFor, NoReview

LEMMA StutterStep ==
  ASSUME Inv, UNCHANGED vars
  PROVE  Inv'
<1>1. \A d \in Drafts, v \in Versions : Accepted(d, v)' <=> Accepted(d, v)
  BY DEF vars, Accepted
<1> QED BY DraftsChange DEF vars, Inv, TypeOK

LEMMA StepInv == Inv /\ [Next]_vars => Inv'
<1> SUFFICES ASSUME Inv, [Next]_vars PROVE Inv'
  OBVIOUS
<1>1. ASSUME NEW d \in Drafts, DraftStep(d) PROVE Inv'
  BY <1>1, DraftBoxStep, ReviewStep_Submit, ClosingStep, ReconcileStep DEF DraftStep
<1>2. ASSUME NEW r \in Ids, ReviewStep(r) PROVE Inv'
  <2>1. CASE ExecutionStep(r)
    BY <2>1, SendStep, ThreadStep, AcceptStep, FinishStep, SettleStep DEF ExecutionStep
  <2> QED BY <1>2, <2>1, ClosingStep, ApprovalStep, AuthenticationStep, StartupStep DEF ReviewStep
<1> QED BY <1>1, <1>2, RestartStep, StartupEndsStep, StutterStep DEF Next

LEMMA InvAlways == Spec => []Inv
  BY InitInv, StepInv, PTL DEF Spec

\* The stores, the executions and the wire are well formed in every state.
THEOREM TypeCorrect == Spec => []TypeOK
<1>1. Inv => TypeOK BY DEF Inv
<1> QED BY <1>1, InvAlways, PTL

\* No draft is accepted twice by the SMTP server.
THEOREM AtMostOnceAlways == Spec => []AtMostOnce
<1>1. Inv => AtMostOnce BY DEF Inv
<1> QED BY <1>1, InvAlways, PTL

\* Nothing is sent that the operator did not approve to the letter.
THEOREM SentAsReviewedAlways == Spec => []SentAsReviewed
<1>1. Inv => SentAsReviewed BY DEF Inv
<1> QED BY <1>1, InvAlways, PTL

\* A draft that was sent stays as it was sent.
THEOREM SentDraftIsFrozenAlways == Spec => []SentDraftIsFrozen
<1>1. Inv => SentDraftIsFrozen BY DEF Inv
<1> QED BY <1>1, InvAlways, PTL

\* No approved review is ever without a trace while the daemon is up.
THEOREM ApprovedIsAccountedForAlways == Spec => []ApprovedIsAccountedFor
<1>1. Inv => ApprovedIsAccountedFor BY DEF Inv
<1> QED BY <1>1, InvAlways, PTL

\* The definite outcomes of the journal are true.
THEOREM JournalTellsTheTruthAlways == Spec => []JournalTellsTheTruth
<1>1. Inv => JournalTellsTheTruth
  BY DEF Inv, RowsAreTrue, AcceptedBlocks, JournalTellsTheTruth, Accepted, Blocks
<1> QED BY <1>1, InvAlways, PTL

\* A review that is marked as not submitted has sent nothing.
THEOREM NotSubmittedIsTrueAlways == Spec => []NotSubmittedIsTrue
<1>1. Inv => NotSubmittedIsTrue BY DEF Inv
<1> QED BY <1>1, InvAlways, PTL

\* approve_locked discards a draft only in the version that was accepted.
THEOREM DiscardsWhatWasSentAlways == Spec => []DiscardsWhatWasSent
<1>1. ASSUME Inv PROVE DiscardsWhatWasSent
  BY <1>1 DEF Inv, StagesAreTrue, SentDraftIsFrozen, DiscardsWhatWasSent, Accepted
<1> QED BY <1>1, InvAlways, PTL

-----------------------------------------------------------------------------
(* Refinement: the system implements the ledger *)

\* Approved reviews, and what they consent to, are as they were.
SameConsent ==
  \A r \in Ids :
    /\ (reviews'[r].status = "approved") <=> (reviews[r].status = "approved")
    /\ reviews[r].status = "approved" => ConsentOf(r)' = ConsentOf(r)

LEMMA ConsentUnchanged == SameConsent => Consented' = Consented
  BY DEF SameConsent, Consented

\* Only approval changes what is consented to.
LEMMA ConsentSteps ==
  ASSUME Inv, Next, \A r \in Ids : ~approve_locked(r) /\ ~Authenticated(r)
  PROVE  SameConsent
<1> USE DEF ConsentOf, DraftOf, VersionOf, ContentOf
<1>1. CASE UNCHANGED reviews
  BY <1>1 DEF SameConsent
<1>2. ASSUME NEW d \in Drafts, NEW r \in Ids, email_draft_review(d, r) PROVE SameConsent
  <2>1. reviews' = [reviews EXCEPT ![r] = ReviewOf(d)] /\ reviews[r] = NoReview
    BY <1>2 DEF email_draft_review, NextId
  <2>2. ReviewOf(d).status # "approved" /\ reviews[r].status # "approved"
    BY <2>1 DEF ReviewOf, NoReview
  <2> QED BY <2>1, <2>2 DEF SameConsent, Inv, TypeOK
<1>3. ASSUME \A r \in Ids : reviews'[r] = reviews[r] \/ Closes(r) PROVE SameConsent
  <2>1. ASSUME NEW r \in Ids, Closes(r)
        PROVE  reviews[r].status # "approved" /\ reviews'[r].status # "approved"
    <3>1. reviews[r] \in Reviews /\ reviews[r].status = "pending"
      BY <2>1, ReviewIsThere DEF Closes, Pending, ReviewStatuses, Inv, TypeOK
    <3>2. PICK s \in ReviewStatuses \ {"pending", "approved"} :
            reviews'[r] = [reviews[r] EXCEPT !.status = s]
      BY <2>1 DEF Closes
    <3> QED BY <3>1, <3>2, ReviewWithStatus
  <2> QED BY <1>3, <2>1 DEF SameConsent
<1>4. ASSUME NEW r \in Ids, NEW s \in {"denied", "deferred", "expired"}, DecideAgainst(r, s)
      PROVE  SameConsent
  <2>1. \A q \in Ids : reviews'[q] = reviews[q] \/ Closes(q)
    BY <1>4 DEF DecideAgainst, Closes, ReviewStatuses, Inv, TypeOK
  <2> QED BY <1>3, <2>1
<1>5. ASSUME NEW d \in Drafts, NEW v \in Versions, withdraw_draft_reviews(d, v)
      PROVE  SameConsent
  <2>1. \A q \in Ids : reviews'[q] = reviews[q] \/ Closes(q)
    BY <1>5 DEF withdraw_draft_reviews, Closes, ReviewStatuses
  <2> QED BY <1>3, <2>1
<1>6. CASE Restart
  <2>1. \A q \in Ids : reviews'[q] = reviews[q] \/ Closes(q)
    BY <1>6 DEF Restart, Closes, ReviewStatuses
  <2> QED BY <1>3, <2>1
<1>7. ASSUME NEW r \in Ids, SettleExecution(r) PROVE SameConsent
  <2>1. reviews[r] \in Reviews
    BY <1>7, ExecutedReview DEF SettleExecution
  <2> DEFINE mark == reviews[r].not_submitted \/ ~Exists(DraftOf(r), VersionOf(r))
  <2>2. reviews' = [reviews EXCEPT ![r] = [reviews[r] EXCEPT !.not_submitted = mark]]
    BY <1>7 DEF SettleExecution
  <2> HIDE DEF mark
  <2> QED BY <2>1, <2>2 DEF SameConsent, Inv, TypeOK, Reviews
<1>8. ASSUME NEW d \in Drafts, DraftStep(d) PROVE SameConsent
  BY <1>1, <1>2, <1>5, <1>8
  DEF DraftStep, draft_update, reply_create, email_draft_send, OriginChanges,
      email_operation_reconcile
<1>9. ASSUME NEW r \in Ids, ReviewStep(r) PROVE SameConsent
  <2>1. CASE ExecutionStep(r)
    BY <1>1, <1>7, <2>1 DEF ExecutionStep, email_send, email_send_existing, StoppedBeforeClaim,
                            ApproveRaises, ExecutionRaises, SmtpData, SmtpAccepts, deliver, FinishOperation, InterruptSubmission
  <2>2. CASE StartupReview(r)
    BY <1>1, <2>2 DEF StartupReview, StartupSkips, StartupClaims, StartupFinishes, StartupRaises,
                      StartupAt
  <2> QED BY <1>1, <1>4, <1>9, <2>1, <2>2 DEF ReviewStep, BeginAuthentication, NotAuthenticated
<1> QED BY <1>1, <1>6, <1>8, <1>9 DEF Next, StartupEnds

\* Only acceptance changes the wire.
LEMMA WireSteps ==
  ASSUME Next, \A r \in Ids : ~SmtpAccepts(r)
  PROVE  wire' = wire
<1>1. ASSUME NEW d \in Drafts, DraftStep(d) PROVE wire' = wire
  BY <1>1 DEF DraftStep, draft_update, reply_create, email_draft_send, OriginChanges,
              email_draft_review, withdraw_draft_reviews, email_operation_reconcile
<1>2. ASSUME NEW r \in Ids, ReviewStep(r) PROVE wire' = wire
  <2>1. CASE ExecutionStep(r)
    BY <2>1 DEF ExecutionStep, email_send, email_send_existing, StoppedBeforeClaim, SmtpData,
                ApproveRaises, ExecutionRaises, deliver, FinishOperation, InterruptSubmission, SettleExecution
  <2>2. CASE StartupReview(r)
    BY <2>2 DEF StartupReview, StartupSkips, StartupClaims, StartupFinishes, StartupRaises, StartupAt
  <2> QED BY <1>2, <2>1, <2>2 DEF ReviewStep, DecideAgainst, approve_locked, BeginAuthentication,
                                  Authenticated, NotAuthenticated
<1> QED BY <1>1, <1>2 DEF Next, Restart, StartupEnds

LEMMA LedgerStep ==
  ASSUME Inv, Inv', [Next]_vars
  PROVE  [Ledger!Next]_<<Consented, wire>>
<1> USE DEF Ledger!Next
<1>1. ASSUME NEW r \in Ids, approve_locked(r) \/ Authenticated(r)
      PROVE  Ledger!Next
  <2>1. Pending(r) /\ RecordApproved(r) /\ wire' = wire
    BY <1>1 DEF approve_locked, Authenticated
  <2>2. reviews[r] \in Reviews /\ reviews[r].status = "pending"
    BY <2>1, ReviewIsThere DEF Inv, TypeOK, Pending, ReviewStatuses
  <2> DEFINE v == [reviews[r] EXCEPT !.status = "approved"]
  <2>3. /\ v.status = "approved" /\ v.draft = reviews[r].draft
        /\ v.version = reviews[r].version /\ v.content = reviews[r].content
    BY <2>2, ReviewWithStatus DEF ReviewStatuses
  <2>4. reviews' = [reviews EXCEPT ![r] = v]
    BY <2>1 DEF RecordApproved
  <2> HIDE DEF v
  <2>5. /\ reviews'[r].status = "approved" /\ ConsentOf(r)' = ConsentOf(r)
        /\ \A q \in Ids : q # r => reviews'[q] = reviews[q] /\ ConsentOf(q)' = ConsentOf(q)
    BY <2>3, <2>4 DEF Inv, TypeOK, ConsentOf, DraftOf, VersionOf, ContentOf
  <2>6. Consented' = Consented \cup {ConsentOf(r)}
    BY <2>2, <2>5 DEF Consented
  <2>7. ConsentOf(r) \in Messages
    BY <2>2 DEF ConsentOf, Messages, Reviews, DraftOf, VersionOf, ContentOf
  <2> QED BY <2>1, <2>6, <2>7 DEF Ledger!Consent
<1>2. ASSUME NEW r \in Ids, SmtpAccepts(r)
      PROVE  Ledger!Next
  <2>1. wire' = Append(wire, ConsentOf(r)) /\ exec[r].at = "data" /\ UNCHANGED reviews
    BY <1>2 DEF SmtpAccepts, ConsentOf
  <2>2. reviews[r] \in Reviews /\ reviews[r].status = "approved"
    BY <2>1, ExecutedReview DEF Inv, ExecutionsMatch
  <2>3. ConsentOf(r) \in Messages /\ ConsentOf(r).draft = DraftOf(r)
    BY <2>2 DEF ConsentOf, Messages, Reviews, DraftOf, VersionOf, ContentOf
  <2>4. ConsentOf(r) \in Consented /\ Consented' = Consented
    BY <2>1, <2>2 DEF Consented, ConsentOf, DraftOf, VersionOf, ContentOf
  <2>5. \A i \in DOMAIN wire : wire[i].draft # ConsentOf(r).draft
    <3>1. wire \in Seq(Messages)
      BY DEF Inv, TypeOK
    <3>2. /\ Len(wire) \in Nat /\ DOMAIN wire = 1 .. Len(wire)
          /\ DOMAIN wire' = 1 .. Len(wire) + 1
          /\ wire'[Len(wire) + 1] = ConsentOf(r)
          /\ \A i \in DOMAIN wire : wire'[i] = wire[i] /\ i # Len(wire) + 1
      BY <2>1, <2>3, <3>1
    <3> HIDE <2>1
    <3> QED BY <3>2 DEF Inv, AtMostOnce
  <2> QED BY <2>1, <2>3, <2>4, <2>5 DEF Ledger!Send
<1>3. ASSUME Next, \A r \in Ids : ~approve_locked(r) /\ ~Authenticated(r) /\ ~SmtpAccepts(r)
      PROVE  UNCHANGED <<Consented, wire>>
  BY <1>3, ConsentSteps, ConsentUnchanged, WireSteps
<1>4. CASE UNCHANGED vars
  BY <1>4 DEF vars, Consented, ConsentOf, DraftOf, VersionOf, ContentOf
<1> QED BY <1>1, <1>2, <1>3, <1>4

\* The release of mail, with all its stores, handlers and crashes, implements
\* the ledger: consent to exact messages, and one message for each draft.
THEOREM ReleaseImplementsLedger == Spec => ImplementsLedger
<1>1. Init => Ledger!Init
  BY DEF Init, Ledger!Init, Consented, NoReview
<1> QED BY <1>1, LedgerStep, InvAlways, PTL DEF Spec, ImplementsLedger, Ledger!Spec

\* What the ledger promises without the release: one message for each draft, and
\* none without consent.
OnlyConsented == \A i \in DOMAIN wire : wire[i] \in Consented

LEMMA LedgerKeeps ==
  ASSUME wire \in Seq(Messages), AtMostOnce, OnlyConsented, [Ledger!Next]_<<Consented, wire>>
  PROVE  wire' \in Seq(Messages) /\ AtMostOnce' /\ OnlyConsented'
<1>1. ASSUME NEW m \in Messages, Ledger!Consent(m)
      PROVE  wire' \in Seq(Messages) /\ AtMostOnce' /\ OnlyConsented'
  <2>1. wire' = wire /\ Consented \subseteq Consented'
    BY <1>1 DEF Ledger!Consent
  <2> QED BY <2>1 DEF AtMostOnce, OnlyConsented
<1>2. ASSUME NEW m \in Messages, Ledger!Send(m)
      PROVE  wire' \in Seq(Messages) /\ AtMostOnce' /\ OnlyConsented'
  <2>1. m \in Consented /\ Consented' = Consented
    BY <1>2 DEF Ledger!Send
  <2>2. \A i \in DOMAIN wire : wire[i].draft # m.draft
    BY <1>2 DEF Ledger!Send
  <2> DEFINE n == Len(wire)
  <2>3. /\ wire' \in Seq(Messages)
        /\ n \in Nat /\ DOMAIN wire = 1 .. n /\ DOMAIN wire' = 1 .. n + 1
        /\ wire'[n + 1] = m
        /\ \A i \in 1 .. n : wire'[i] = wire[i]
    <3>1. wire' = Append(wire, m)
      BY <1>2 DEF Ledger!Send
    <3> QED BY <3>1
  <2> HIDE DEF n
  <2>4. AtMostOnce'
    <3> SUFFICES ASSUME NEW i \in 1 .. n + 1, NEW j \in 1 .. n + 1, wire'[i].draft = wire'[j].draft
                 PROVE  i = j
      BY <2>3 DEF AtMostOnce
    <3>1. CASE i \in 1 .. n /\ j \in 1 .. n
      <4>1. wire[i].draft = wire[j].draft
        BY <2>3, <3>1
      <4> QED BY <2>3, <3>1, <4>1 DEF AtMostOnce
    <3>2. CASE i = n + 1 /\ j \in 1 .. n
      BY <2>2, <2>3, <3>2
    <3>3. CASE i \in 1 .. n /\ j = n + 1
      BY <2>2, <2>3, <3>3
    <3> QED BY <2>3, <3>1, <3>2, <3>3
  <2>5. OnlyConsented'
    <3> SUFFICES ASSUME NEW i \in 1 .. n + 1 PROVE wire'[i] \in Consented
      BY <2>1, <2>3 DEF OnlyConsented
    <3>1. CASE i \in 1 .. n
      BY <2>3, <3>1 DEF OnlyConsented
    <3>2. CASE i = n + 1
      BY <2>1, <2>3, <3>2
    <3> QED BY <2>3, <3>1, <3>2
  <2> QED BY <2>3, <2>4, <2>5
<1>3. CASE UNCHANGED <<Consented, wire>>
  BY <1>3 DEF AtMostOnce, OnlyConsented
<1> QED BY <1>1, <1>2, <1>3 DEF Ledger!Next

\* The ledger is strong enough to be worth implementing: whatever implements it sends a
\* draft at most once and sends nothing that was not consented to.  With
\* ReleaseImplementsLedger that is a second way to AtMostOnce.
THEOREM LedgerPromises == ImplementsLedger => [](AtMostOnce /\ OnlyConsented)
<1> DEFINE L == wire \in Seq(Messages) /\ AtMostOnce /\ OnlyConsented
<1>1. Ledger!Init => L
  BY DEF Ledger!Init, AtMostOnce, OnlyConsented
<1>2. L /\ [Ledger!Next]_<<Consented, wire>> => L'
  BY LedgerKeeps
<1>3. L => AtMostOnce /\ OnlyConsented
  OBVIOUS
<1> QED BY <1>1, <1>2, <1>3, PTL DEF ImplementsLedger, Ledger!Spec

-----------------------------------------------------------------------------
(* The journal is used only through its own operations *)

LEMMA JournalStep ==
  ASSUME Inv, [Next]_vars
  PROVE  [JournalNext]_ops
<1> USE DEF JournalNext
<1>1. ASSUME NEW r \in Ids, reviews[r] \in Reviews
      PROVE  DraftOf(r) \in Drafts /\ VersionOf(r) \in Versions /\ ContentOf(r) \in Contents
  BY <1>1 DEF Reviews, DraftOf, VersionOf, ContentOf
<1>2. ASSUME NEW d \in Drafts, DraftStep(d) PROVE [JournalNext]_ops
  BY <1>2 DEF DraftStep, draft_update, reply_create, email_draft_send, OriginChanges,
              email_draft_review, withdraw_draft_reviews, email_operation_reconcile
<1>3. ASSUME NEW r \in Ids, ExecutionStep(r) PROVE [JournalNext]_ops
  <2>1. CASE email_send(r)
    BY <1>1, <2>1, ExecutedReview DEF email_send
  <2>2. CASE FinishOperation(r)
    BY <1>1, <2>2, ExecutedReview DEF FinishOperation, finish
  <2>3. CASE InterruptSubmission(r)
    BY <1>1, <2>3, ExecutedReview DEF InterruptSubmission, finish
  <2> QED BY <1>3, <2>1, <2>2, <2>3
          DEF ExecutionStep, email_send_existing, StoppedBeforeClaim, ApproveRaises, SmtpData,
              SmtpAccepts, deliver, ExecutionRaises, SettleExecution
<1>4. ASSUME NEW r \in Ids, StartupReview(r) PROVE [JournalNext]_ops
  <2>1. CASE StartupClaims(r)
    <3>1. DraftOf(r) \in Drafts /\ VersionOf(r) \in Versions /\ ContentOf(r) \in Contents
      BY <2>1, ApprovedReview DEF StartupClaims, NeedsEvidence
    <3> QED BY <2>1, <3>1 DEF StartupClaims
  <2>2. CASE StartupFinishes(r)
    <3>1. reviews[r] \in Reviews
      BY <2>2, ReviewIsThere DEF StartupFinishes, Inv, TypeOK
    <3> QED BY <1>1, <2>2, <3>1 DEF StartupFinishes, finish
  <2> QED BY <1>4, <2>1, <2>2 DEF StartupReview, StartupSkips, StartupRaises
<1>5. ASSUME NEW r \in Ids, ReviewStep(r) PROVE [JournalNext]_ops
  BY <1>3, <1>4, <1>5 DEF ReviewStep, DecideAgainst, approve_locked, BeginAuthentication,
                          Authenticated, NotAuthenticated
<1> QED BY <1>2, <1>5 DEF Next, Restart, StartupEnds, vars

\* However handlers, agent, operator and crashes interleave, what happens to the
\* journal is a behaviour of the journal: a claim, a result, a reconciliation or
\* the recovery at startup, with its types and under its guards.
THEOREM JournalIsUsed == Spec => JournalIsUsedAsSpecified
<1>1. Init => JournalInit
  BY DEF Init
<1> QED BY <1>1, JournalStep, InvAlways, PTL DEF Spec, JournalSpec, JournalIsUsedAsSpecified

\* So the promises of the journal hold of the release, without a word about
\* drafts, reviews or crashes: one operation of a draft was or may have been
\* submitted, it is the newest, and no row is rewritten.
THEOREM JournalPromisesHold ==
  Spec => []OneBlockingOperation /\ []BlockingIsNewest /\ JournalIsHistory
  BY JournalIsUsed, OneBlockingOperationAlways, BlockingIsNewestAlways, JournalIsHistoryAlways
  DEF JournalIsUsedAsSpecified

=============================================================================

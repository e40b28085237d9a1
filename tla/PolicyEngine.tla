---------------------------- MODULE PolicyEngine ----------------------------
(***************************************************************************)
(* The policy chokepoint: engine.decide (policy/engine.py), the stages of  *)
(* ToolClient._call_tool that follow it (decision inspectors, shadow mode, *)
(* the restricted-source floor), and the re-dispatch of an approved action *)
(* by approval_handlers._execute_declassified_*.                           *)
(*                                                                         *)
(* A request is what decide() is given for one tool call, with every input *)
(* reduced to what the code asks of it: a capability to whether it         *)
(* matches, is expired or exhausted, and so on.  Capabilities and labels   *)
(* are Python frozensets, so where the code takes "the first" one the      *)
(* model takes any: decide is a set of possible results.                   *)
(***************************************************************************)
EXTENDS Naturals, FiniteSets

CONSTANTS
  Requests,    \* the tool calls that are made
  Categories,  \* data categories, "health" and "financial" among them
  CapIds,      \* capability audit ids
  None

-----------------------------------------------------------------------------
\* Outcomes and their order.

Decisions == {"deny", "override_required", "require_approval", "warn", "allow"}

Rank ==
  [deny |-> 0, override_required |-> 1, require_approval |-> 2, warn |-> 3, allow |-> 4]

Stricter(d, e) == Rank[d] < Rank[e]

RuleOutcomes == {"deny", "override_required", "require_approval", "suggest", "auto"}

OutcomeRank ==
  [deny |-> 0, override_required |-> 1, require_approval |-> 2, suggest |-> 3, auto |-> 4]

MostRestrictive(S) == CHOOSE o \in S : \A p \in S : OutcomeRank[o] <= OutcomeRank[p]

\* _V2_TO_LEGACY
ToLegacy ==
  [deny |-> "deny", override_required |-> "override_required",
   require_approval |-> "require_approval", suggest |-> "require_approval", auto |-> "allow"]

\* What one leg of the decision says; NoGate is a leg that has nothing to say.
Gate(decision, rule) == [decision |-> decision, rule |-> rule]

NoGate == Gate("allow", None)

\* A PolicyDecision: destructive is the matched capability's allows_destructive.
Result(decision, rule, destructive) ==
  [decision |-> decision, rule |-> rule, v2 |-> None, destructive |-> destructive]

Ratchet(base, gate) ==
  IF Stricter(gate.decision, base.decision)
  THEN [base EXCEPT !.decision = gate.decision, !.rule = gate.rule]
  ELSE base

-----------------------------------------------------------------------------
\* Requests.

Egress == {"email", "message", "purchase", "browser"}

Destructive == {"modify", "memory"}

\* "fetch" is web.fetch of a URL, "write" the kinds that create, edit, draft or execute
\* locally, and "read" every kind that is none of the others.
Kinds == Egress \cup Destructive \cup {"fetch", "write", "read"}

\* _PROMPTABLE_FIRST_USE_KINDS
Promptable == Egress \cup {"modify", "write"}

\* Effect classes: social.send_* and post_public; social.commit_promise; a class
\* whose name says it egresses; administer.*; EXECUTE.*; and the others.
Effects == {"send", "promise", "remote", "administer", "execute", "local"}

Social == {"send", "promise"}

Egressing == {"send", "remote"}

\* "system" and "human": reversible, by the system or by somebody.
Reversibilities == {"irreversible", "friction", "human", "system"}

Tag == [category : Categories, tier : 0 .. 4]

Regulated == 2

IntegrityRank == [untrusted |-> 0, system |-> 1, principal |-> 2]

Levels == DOMAIN IntegrityRank

Capability ==
  [id : CapIds, parent : CapIds \cup {None}, matches : BOOLEAN, expired : BOOLEAN,
   exhausted : BOOLEAN, prior : BOOLEAN, destructive : BOOLEAN]

Rule ==
  [outcome : RuleOutcomes \cup {"shadow"}, ratified : BOOLEAN, when : SUBSET Categories,
   holds : BOOLEAN, crosses : {None, "health-meets-egress", "financial-meets-email"}]

Envelope == [strictest : 0 .. 3, loosest : 0 .. 3]

Request ==
  [kind : Kinds, effect : Effects \cup {None}, rev : Reversibilities \cup {None},
   route : BOOLEAN, binding : {"none", "bound", "unbound"}, a : SUBSET Tag, b : SUBSET Levels,
   wired : BOOLEAN, orphan : BOOLEAN, clearance : 0 .. 4, integrity : 0 .. 2, refused : BOOLEAN,
   caps : SUBSET Capability, revoked : SUBSET CapIds,
   escalation : BOOLEAN, firstUse : BOOLEAN,
   rulesWired : BOOLEAN, rules : SUBSET Rule, default : RuleOutcomes \ {"auto"},
   envelopes : [Categories -> Envelope \cup {None}], dial : {None, "cautious", "balanced", "permissive"},
   super : SUBSET Categories, superTiers : SUBSET (0 .. 4), personal : BOOLEAN, approved : BOOLEAN,
   failure : {None, "deny", "require_approval"}, verdicts : SUBSET Decisions,
   shadow : BOOLEAN, restricted : BOOLEAN]

\* already_approved is set by the re-dispatch of an approved action alone.
ASSUME RequestsAreTyped == Requests \subseteq {r \in Request : ~r.approved}

ASSUME NoneIsNoOutcome == None \notin RuleOutcomes

CategoriesOf(r) == {t.category : t \in r.a}

-----------------------------------------------------------------------------
\* _decide_legacy: the capabilities.

Usable(r) == {c \in r.caps : c.matches /\ ~c.expired /\ ~c.exhausted}

\* The capability and its ancestors, as far as the session holds them.
Chain(r, c) ==
  LET up[n \in 0 .. Cardinality(r.caps)] ==
        IF n = 0 THEN {c} ELSE {p \in r.caps : \E k \in up[n - 1] : k.parent = p.id}
  IN  UNION {up[n] : n \in 0 .. Cardinality(r.caps)}

\* A chain that does not reach a root is broken or a cycle.
IsCascadedInert(r, c) ==
  \/ \E k \in Chain(r, c) : k.id \in r.revoked \/ k.expired \/ k.exhausted
  \/ \A k \in Chain(r, c) : k.parent # None

\* A mistake: a revoked ancestor is looked for only when the action is not destructive.
DestructiveFirst(r, c) ==
  IF r.kind \in Destructive
  THEN Result(IF c.destructive THEN "allow" ELSE "require_approval", None, c.destructive)
  ELSE IF IsCascadedInert(r, c) \/ c.prior THEN Result("deny", "capability-cascaded", FALSE)
  ELSE Result("allow", None, c.destructive)

WithCapability(r, c) ==
  IF IsCascadedInert(r, c) THEN Result("deny", "capability-cascaded", c.destructive)
  ELSE IF c.prior THEN Result("deny", "revoked-by-prior-use", c.destructive)
  ELSE IF r.kind \in Destructive /\ ~c.destructive
       THEN Result("require_approval", "destructive-op", FALSE)
  ELSE Result("allow", None, c.destructive)

WithoutCapability(r) ==
  LET matching == {c \in r.caps : c.matches}
  IN  IF \E c \in matching : c.expired THEN Result("deny", "capability-expired", FALSE)
      ELSE IF matching # {}
           THEN Result(IF r.escalation THEN "require_approval" ELSE "deny", "rate-limit-exceeded", FALSE)
      ELSE Result("deny", None, FALSE)

DecideLegacy(r) ==
  IF Usable(r) = {} THEN {WithoutCapability(r)} ELSE {WithCapability(r, c) : c \in Usable(r)}

-----------------------------------------------------------------------------
\* The floors.

\* A mistake: the conflict floors are looked at in the order of the categories first.
FinancialFirst(r) ==
  IF r.kind \notin Egress THEN NoGate
  ELSE IF "financial" \in CategoriesOf(r) /\ r.kind = "purchase"
       THEN Gate("require_approval", "financial-meets-purchase")
  ELSE IF "untrusted" \in r.b THEN Gate("deny", "untrusted-meets-egress")
  ELSE IF "health" \in CategoriesOf(r) THEN Gate("deny", "health-meets-egress")
  ELSE IF "financial" \in CategoriesOf(r) THEN Gate("deny", "financial-meets-email")
  ELSE NoGate

\* _conflict_invariant_outcome: the first that fires is the only one there is.
ConflictInvariantOutcome(r) ==
  IF r.kind \notin Egress THEN NoGate
  ELSE IF "untrusted" \in r.b THEN Gate("deny", "untrusted-meets-egress")
  ELSE IF "health" \in CategoriesOf(r) THEN Gate("deny", "health-meets-egress")
  ELSE IF "financial" \in CategoriesOf(r)
       THEN IF r.kind = "purchase" THEN Gate("require_approval", "financial-meets-purchase")
            ELSE Gate("deny", "financial-meets-email")
  ELSE NoGate

\* _fetch_url_egress_outcome: a bound destination is an allowlisted one.
FetchUrlEgressOutcome(r) ==
  IF r.kind # "fetch" \/ r.binding = "bound" THEN NoGate
  ELSE IF \E t \in r.a : t.tier > Regulated THEN Gate("deny", "restricted-meets-fetch-url")
  ELSE IF \E t \in r.a : t.tier = Regulated THEN Gate("require_approval", "regulated-meets-fetch-url")
  ELSE NoGate

\* _compose_with_conflict_invariant
ComposeWithConflictInvariant(base, floor, crossed) ==
  IF floor.rule \in crossed /\ floor.rule # "untrusted-meets-egress" THEN base ELSE Ratchet(base, floor)

-----------------------------------------------------------------------------
\* The reversibility gate and optimistic execution.

EgressNeedsOverride(r) == \E t \in r.a : t.category \in r.super \/ t.tier \in r.superTiers

ReversibilityOutcome(r) ==
  IF r.rev = None \/ r.effect = None THEN NoGate
  ELSE IF r.effect = "send"
       THEN IF EgressNeedsOverride(r) THEN Gate("override_required", "egress-requires-override")
            ELSE Gate("require_approval", "egress-requires-approval")
  ELSE IF r.rev = "irreversible" \/ r.effect \in Social THEN Gate("deny", "reversibility-irreversible")
  ELSE IF r.rev # "system" THEN Gate("require_approval", "reversibility-requires-approval")
  ELSE IF r.effect \in Egressing THEN NoGate
  ELSE Gate("allow", "optimistic-auto")

\* A mistake: optimistic execution does not ask whether a rule wants the approval.
LiftsRules(base, gate, approved, standing) ==
  IF gate.rule = "optimistic-auto" /\ base.decision = "require_approval"
  THEN [base EXCEPT !.decision = "allow", !.rule = gate.rule]
  ELSE Ratchet(base, gate)

\* _compose_with_reversibility
ComposeWithReversibility(base, gate, approved, standing) ==
  IF /\ base.decision = "allow"
     /\ gate.decision = "require_approval"
     /\ approved \/ (standing /\ gate.rule = "reversibility-requires-approval")
  THEN base
  ELSE IF /\ gate.rule = "optimistic-auto"
          /\ base.decision = "require_approval"
          /\ base.v2 = "suggest"
       THEN [base EXCEPT !.decision = "allow", !.rule = gate.rule]
  ELSE Ratchet(base, gate)

-----------------------------------------------------------------------------
\* The decision rules and the envelope dial.

LiveRules(r) ==
  {u \in r.rules : u.ratified /\ u.holds /\ u.when \subseteq CategoriesOf(r) /\ u.outcome # "shadow"}

\* evaluate: the crossed floors are honoured under the personal profile only.
Evaluate(r) ==
  [outcome |-> IF LiveRules(r) = {} THEN r.default ELSE MostRestrictive({u.outcome : u \in LiveRules(r)}),
   matched |-> LiveRules(r) # {},
   crossed |-> IF r.personal THEN {u.crosses : u \in LiveRules(r)} \ {None} ELSE {}]

\* A mistake: the rules forget that the action was approved.
RulesAgain(legacy, v2, approved, standing) ==
  [(IF legacy.decision = "allow" /\ standing /\ v2.outcome = "suggest" /\ ~v2.matched
    THEN legacy ELSE Ratchet(legacy, Gate(ToLegacy[v2.outcome], "v2"))) EXCEPT !.v2 = v2.outcome]

\* _compose_with_v2
ComposeWithV2(legacy, v2, approved, standing) ==
  LET suppressed ==
        /\ legacy.decision = "allow"
        /\ \/ standing /\ v2.outcome = "suggest" /\ ~v2.matched
           \/ approved /\ ToLegacy[v2.outcome] = "require_approval"
      ruled == IF suppressed THEN legacy ELSE Ratchet(legacy, Gate(ToLegacy[v2.outcome], "v2"))
  IN  [ruled EXCEPT !.v2 = v2.outcome]

EnvelopeOrder == <<"deny", "require_approval", "suggest", "auto">>

\* OutcomeEnvelope.select
Select(e, dial) ==
  EnvelopeOrder[1 + CASE dial = "cautious"   -> e.strictest
                      [] dial = "permissive" -> e.loosest
                      [] dial = "balanced"   -> e.strictest + (e.loosest - e.strictest) \div 2]

\* The dial looks up the cell of one of the session's categories.
EnvelopeOutcomes(r) ==
  IF r.dial = None \/ r.effect = None \/ r.rev = None \/ r.a = {} THEN {NoGate}
  ELSE {IF r.envelopes[c] = None THEN NoGate ELSE Gate(ToLegacy[Select(r.envelopes[c], r.dial)], "envelope-dial")
        : c \in CategoriesOf(r)}

\* _compose_with_envelope
ComposeWithEnvelope(base, gate, approved) ==
  IF approved /\ base.decision = "allow" /\ gate.decision = "require_approval"
  THEN base
  ELSE Ratchet(base, gate)

\* _maybe_first_use_escalation
MaybeFirstUseEscalation(r, base) ==
  IF r.firstUse /\ base.decision = "allow" /\ r.kind \in Promptable
  THEN [base EXCEPT !.decision = "require_approval", !.rule = "first-use-of-kind"]
  ELSE base

-----------------------------------------------------------------------------
\* _decide_impl, after the check for an override grant.

\* The checks that refuse before any capability is looked at, in their order.
Refusals(r) ==
  <<[fires |-> r.binding = "unbound", gate |-> Gate("deny", "binding-unbound")],
    [fires |-> r.effect = "administer" /\ "untrusted" \in r.b, gate |-> Gate("deny", "control-plane-tainted")],
    [fires |-> r.effect = "execute" /\ ~r.wired, gate |-> Gate("override_required", "no-actuator")],
    [fires |-> r.orphan, gate |-> Gate("deny", "orphan-risk-citation")],
    [fires |-> \E t \in r.a : t.tier > r.clearance, gate |-> Gate("deny", "clearance-refused")],
    [fires |-> \E l \in r.b : IntegrityRank[l] < r.integrity, gate |-> Gate("deny", "integrity-floor-refused")],
    [fires |-> r.refused, gate |-> Gate("deny", "relax-refused")]>>

Refused(r) == \E i \in 1 .. 7 : Refusals(r)[i].fires

Refusal(r) ==
  LET first == CHOOSE i \in 1 .. 7 : /\ Refusals(r)[i].fires
                                     /\ \A j \in 1 .. i - 1 : ~Refusals(r)[j].fires
  IN  Refusals(r)[first].gate

HasRules(r) == r.effect # None /\ r.rulesWired

\* The order of the composers; without rules no carve-out is passed on.
Compose(r, legacy, envelope) ==
  LET v2        == Evaluate(r)
      approved  == HasRules(r) /\ r.approved
      standing  == /\ HasRules(r)
                   /\ r.kind \in Destructive /\ legacy.decision = "allow" /\ legacy.destructive
      crossed   == IF HasRules(r) THEN v2.crossed ELSE {}
      ruled     == IF HasRules(r) THEN ComposeWithV2(legacy, v2, approved, standing) ELSE legacy
      weighed   == ComposeWithReversibility(ruled, ReversibilityOutcome(r), approved, standing)
      dialled   == ComposeWithEnvelope(weighed, envelope, approved)
      confined  == ComposeWithConflictInvariant(dialled, ConflictInvariantOutcome(r), crossed)
      fetched   == ComposeWithConflictInvariant(confined, FetchUrlEgressOutcome(r), crossed)
  IN  MaybeFirstUseEscalation(r, fetched)

Decide(r) ==
  IF Refused(r) THEN {Result(Refusal(r).decision, Refusal(r).rule, FALSE)}
  ELSE {Compose(r, legacy, envelope) : legacy \in DecideLegacy(r), envelope \in EnvelopeOutcomes(r)}

-----------------------------------------------------------------------------
\* The stages of _call_tool after decide().

\* apply_decision_inspectors: an inspector that fails closed decides alone; a verdict
\* is a tightening or a relaxation by where it lies from the proposal.
Inspect(r, base) ==
  LET tightens == {d \in r.verdicts : Stricter(d, base.decision)}
      relaxes  == {d \in r.verdicts : Stricter(base.decision, d)}
      verdict  == IF tightens # {}
                  THEN CHOOSE d \in tightens : \A e \in tightens : Rank[d] <= Rank[e]
                  ELSE CHOOSE d \in relaxes : \A e \in relaxes : Rank[e] <= Rank[d]
  IN  IF r.failure = "deny" \/ (r.failure = "require_approval" /\ base.decision = "allow")
      THEN [base EXCEPT !.decision = r.failure, !.rule = "inspector"]
      ELSE IF \/ tightens \cup relaxes = {}
              \/ Stricter(base.decision, verdict) /\ base.decision # "require_approval"
              \/ verdict = "warn" /\ base.decision # "allow"
           THEN base
           ELSE [base EXCEPT !.decision = verdict, !.rule = "inspector"]

\* maybe_shadow_rewrite: a refusal without a rule is the missing capability.
ShadowRewrite(r, base) ==
  IF r.shadow /\ base.decision \notin {"allow", "warn"} /\ base.rule # None
  THEN [base EXCEPT !.decision = "allow"]
  ELSE base

\* restricted_source_floor_decision
SourceFloor(r, base) ==
  IF r.restricted /\ base.decision \in {"allow", "warn"}
  THEN [base EXCEPT !.decision = "deny", !.rule = "restricted-source-flow"]
  ELSE base

Chokepoint(r, base) == SourceFloor(r, ShadowRewrite(r, Inspect(r, base)))

-----------------------------------------------------------------------------
\* A tool call, its retries and its approval.

VARIABLES
  request,  \* the call
  grant,    \* whether the store holds an active override grant for it
  phase,    \* "asked" or "decided"
  engine,   \* what decide() returned
  final     \* what the call was given in the end

vars == <<request, grant, phase, engine, final>>

TypeOK ==
  /\ request \in Request
  /\ grant \in BOOLEAN
  /\ phase \in {"asked", "decided"}
  /\ engine.decision \in Decisions
  /\ final.decision \in Decisions

Init ==
  /\ request \in Requests
  /\ grant \in BOOLEAN
  /\ phase = "asked"
  /\ engine = Result("deny", None, FALSE)
  /\ final = Result("deny", None, FALSE)

\* decide() spends the override grant it uses.
CallTool ==
  /\ phase = "asked"
  /\ \E base \in IF grant THEN {Result("allow", "override-grant-active", FALSE)} ELSE Decide(request) :
       engine' = base /\ final' = Chokepoint(request, base)
  /\ phase' = "decided"
  /\ grant' = FALSE
  /\ UNCHANGED request

\* The agent makes the same call again.
Retry ==
  /\ phase = "decided"
  /\ phase' = "asked"
  /\ UNCHANGED <<request, grant, engine, final>>

\* A fresh session without a purpose: one label, one capability for the approved
\* action, the first session's handles and purpose bindings out of its reach, and a
\* decision context of its own for the rules.
Redispatch(r, id, binding, holding) ==
  [r EXCEPT !.a = {}, !.b = {"principal"}, !.binding = binding,
            !.caps = {[id |-> id, parent |-> None, matches |-> TRUE, expired |-> FALSE,
                       exhausted |-> FALSE, prior |-> FALSE, destructive |-> r.kind \in Destructive]},
            !.revoked = {}, !.escalation = FALSE, !.firstUse = FALSE, !.orphan = FALSE,
            !.rules = {[u EXCEPT !.holds = u \in holding] : u \in r.rules},
            !.shadow = FALSE, !.approved = TRUE]

\* approve: the queue holds what was refused with require_approval by a tool that
\* has an approval route.
Approve ==
  /\ phase = "decided"
  /\ final.decision = "require_approval"
  /\ request.route
  /\ \E id \in CapIds, binding \in {request.binding, "unbound"}, holding \in SUBSET request.rules :
       /\ binding = request.binding \/ request.binding = "bound"
       /\ request' = Redispatch(request, id, binding, holding)
  /\ grant' = FALSE
  /\ phase' = "asked"
  /\ UNCHANGED <<engine, final>>

Next == CallTool \/ Retry \/ Approve

Spec == Init /\ [][Next]_vars

-----------------------------------------------------------------------------
\* Properties.

Overridden == engine.rule = "override-grant-active"

Crossed == IF HasRules(request) THEN Evaluate(request).crossed ELSE {}

\* No approval, standing authorization, dial, rule, inspector or optimistic execution
\* lets data past a confidentiality or integrity floor: only an override grant, shadow
\* mode or, for the operator's own categories, a ratified rule that names a floor.
FloorsHold ==
  (/\ phase = "decided" /\ ~Overridden /\ request.kind \in Egress
   /\ \/ "untrusted" \in request.b
      \/ "health" \in CategoriesOf(request) /\ "health-meets-egress" \notin Crossed
      \/ "financial" \in CategoriesOf(request) /\ request.kind # "purchase" /\ Crossed = {})
  => /\ engine.decision \in {"deny", "override_required"}
     /\ ~request.shadow => final.decision \in {"deny", "override_required"}

\* The carve-outs: the approval was given, the matched capability is a standing
\* authorization to destroy, and optimistic execution under the outcome "suggest".
Approved(r) == HasRules(r) /\ r.approved

Standing(r, legacy) ==
  HasRules(r) /\ r.kind \in Destructive /\ legacy.decision = "allow" /\ legacy.destructive

Optimistic(r) ==
  HasRules(r) /\ Evaluate(r).outcome = "suggest" /\ ReversibilityOutcome(r).rule = "optimistic-auto"

\* What is left of a leg when its required approval, and nothing else, is waived.
Waive(waived, decision) ==
  IF waived /\ decision = "require_approval" THEN "allow" ELSE decision

\* What the legs ask for, whatever the order they are composed in.
Demands(r, legacy, envelope) ==
  LET v2       == Evaluate(r)
      default  == v2.outcome = "suggest" /\ ~v2.matched
      reversal == ReversibilityOutcome(r)
      floor    == ConflictInvariantOutcome(r)
  IN  {Waive(Optimistic(r), legacy.decision),
       IF HasRules(r)
       THEN Waive(Approved(r) \/ Optimistic(r) \/ (Standing(r, legacy) /\ default), ToLegacy[v2.outcome])
       ELSE "allow",
       Waive(Approved(r) \/ (Standing(r, legacy) /\ reversal.rule = "reversibility-requires-approval"),
             reversal.decision),
       Waive(Approved(r), envelope.decision),
       IF HasRules(r) /\ floor.rule \in v2.crossed THEN "allow" ELSE floor.decision,
       FetchUrlEgressOutcome(r).decision,
       IF r.firstUse /\ r.kind \in Promptable THEN "require_approval" ELSE "allow"}

\* However the legs are composed, the decision is exactly that of the strictest one.  A
\* carve-out takes away a required approval of the legs it is for: a given approval those
\* of the rules, of the reversibility and of the dial; a standing authorization the
\* default of the rules and the prompt for a reversible action; optimistic execution that
\* of the rules and, which its docstring denies, that of an exhausted or not destructive
\* capability.  None takes away a denial, an override, the approval that a floor or a
\* matched rule with that outcome asks for, or the one of a first use.
MostRestrictiveWins ==
  phase = "decided" /\ ~Overridden /\ ~Refused(request) =>
    \E legacy \in DecideLegacy(request), envelope \in EnvelopeOutcomes(request) :
      LET demands == Demands(request, legacy, envelope)
      IN  engine.decision \in demands /\ \A d \in demands : Rank[engine.decision] <= Rank[d]

\* An approval that was asked for was lifted: by optimistic execution, which then gives its
\* rule, or, when the call runs all the same, by an inspector.
ApprovalLifted == engine.rule = "optimistic-auto" \/ engine.decision = "require_approval"

\* Outside shadow mode and overrides nothing runs without a capability that matches, is
\* not expired, and is unexhausted, alive with all its ancestors, not revoked by a prior
\* use, and destructive if the action is.  Only a call whose approval was really lifted
\* may fall short of that, and by the one thing the approval was asked for: a live
\* capability that is not destructive, or an exhausted one that may escalate.
AllowIsBacked ==
  phase = "decided" /\ ~Overridden /\ ~request.shadow /\ final.decision \in {"allow", "warn"} =>
    \E c \in request.caps :
      /\ c.matches /\ ~c.expired
      /\ \/ /\ ~c.exhausted /\ ~IsCascadedInert(request, c) /\ ~c.prior
            /\ request.kind \in Destructive /\ ~c.destructive => ApprovalLifted
         \/ c.exhausted /\ request.escalation /\ ApprovalLifted

\* What a human approved is not held for approval again by the engine when it is
\* dispatched: the approve button is never a no-op (with the rules the daemon loads).
ApprovalIsNotAskedAgain ==
  phase = "decided" /\ request.approved /\ (request.effect = None \/ request.rulesWired)
    => engine.decision # "require_approval"

\* What the comment on shadow mode in _call_tool says: a missing capability is missing
\* authority and never rewritten.
ShadowNeedsCapability ==
  phase = "decided" /\ ~Overridden /\ final.decision = "allow" => \E c \in request.caps : c.matches

=============================================================================

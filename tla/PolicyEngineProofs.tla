------------------------- MODULE PolicyEngineProofs -------------------------
(***************************************************************************)
(* Proofs about the policy chokepoint, for every set of requests,          *)
(* categories and capability ids.                                          *)
(*                                                                         *)
(* The inductive invariant only remembers where the two verdicts came from *)
(* and what a re-dispatched request looks like; the work is in the lemmas  *)
(* about the composers, each of which is shown to preserve the relation    *)
(* between the verdict so far and the legs it was composed of.             *)
(***************************************************************************)
EXTENDS PolicyEngine, TLAPS

\* The decisions the engine makes: "warn" is an inspector's.
Verdicts == {"deny", "override_required", "require_approval", "allow"}

\* A request whose verdict comes from what the re-dispatch made up.
Fresh(r) ==
  /\ r.a = {} /\ r.b = {"principal"} /\ ~r.firstUse
  /\ \E c \in r.caps : /\ r.caps = {c} /\ c.matches /\ ~c.expired /\ ~c.exhausted
                       /\ r.kind \in Destructive => c.destructive

Granted == Result("allow", "override-grant-active", FALSE)

Provenance ==
  /\ request.approved => Fresh(request)
  /\ phase = "decided" => /\ engine = Granted \/ engine \in Decide(request)
                          /\ final = Chokepoint(request, engine)

IInv == TypeOK /\ Provenance

-----------------------------------------------------------------------------
\* The legs are verdicts.

IsLeg(gate) == gate.decision \in Verdicts

IsVerdict(x) ==
  /\ x = [decision |-> x.decision, rule |-> x.rule, v2 |-> x.v2, destructive |-> x.destructive]
  /\ x.decision \in Verdicts

LEMMA RatchetIsMinimum ==
  ASSUME NEW base, NEW gate, IsVerdict(base), IsLeg(gate)
  PROVE  /\ IsVerdict(Ratchet(base, gate))
         /\ Ratchet(base, gate).v2 = base.v2
         /\ Ratchet(base, gate).decision = base.decision \/ Ratchet(base, gate).decision = gate.decision
         /\ Rank[Ratchet(base, gate).decision] <= Rank[base.decision]
         /\ Rank[Ratchet(base, gate).decision] <= Rank[gate.decision]
  <1>1. CASE Stricter(gate.decision, base.decision)
    <2>1. /\ Ratchet(base, gate) = [base EXCEPT !.decision = gate.decision, !.rule = gate.rule]
          /\ Ratchet(base, gate).decision = gate.decision
          /\ Ratchet(base, gate).v2 = base.v2
      BY <1>1 DEF Ratchet, IsVerdict
    <2>2. IsVerdict(Ratchet(base, gate))
      BY <2>1 DEF IsVerdict, IsLeg
    <2> QED BY <1>1, <2>1, <2>2 DEF Stricter, IsLeg, IsVerdict, Verdicts, Rank
  <1>2. CASE ~Stricter(gate.decision, base.decision)
    BY <1>2 DEF Ratchet, Stricter, IsLeg, IsVerdict, Verdicts, Rank
  <1> QED BY <1>1, <1>2

LEMMA ResultIsVerdict ==
  ASSUME NEW d \in Verdicts, NEW u, NEW b
  PROVE  /\ IsVerdict(Result(d, u, b))
         /\ Result(d, u, b).decision = d
         /\ Result(d, u, b).destructive = b
  BY DEF Result, IsVerdict

LEMMA NothingDestructive ==
  ASSUME NEW d, NEW u
  PROVE  ~Result(d, u, FALSE).destructive
  BY Zenon DEF Result

LEMMA NoRules ==
  ASSUME NEW d, NEW u, NEW b
  PROVE  Result(d, u, b).v2 = None
  BY DEF Result

LEMMA PlainDenial ==
  ASSUME NEW u
  PROVE  LET x == Result("deny", u, FALSE)
         IN  IsVerdict(x) /\ x.decision = "deny" /\ ~x.destructive
  <1>1. "deny" \in Verdicts
    BY DEF Verdicts
  <1>2. ~Result("deny", u, FALSE).destructive
    BY NothingDestructive
  <1>3. IsVerdict(Result("deny", u, FALSE)) /\ Result("deny", u, FALSE).decision = "deny"
    BY <1>1 DEF Result, IsVerdict
  <1> QED BY <1>2, <1>3, Zenon

LEMMA PlainApproval ==
  ASSUME NEW u
  PROVE  LET x == Result("require_approval", u, FALSE)
         IN  IsVerdict(x) /\ x.decision = "require_approval" /\ x.v2 = None
  <1>1. "require_approval" \in Verdicts
    BY DEF Verdicts
  <1> QED BY <1>1 DEF Result, IsVerdict

LEMMA GateIsLeg ==
  ASSUME NEW d \in Verdicts, NEW u
  PROVE  /\ IsLeg(Gate(d, u))
         /\ Gate(d, u).decision = d
         /\ Gate(d, u).rule = u
  BY DEF Gate, IsLeg

LEMMA NoGateIsLeg == IsLeg(NoGate) /\ NoGate.decision = "allow"
  BY DEF NoGate, Gate, IsLeg, Verdicts

LEMMA FloorsAreLegs ==
  ASSUME NEW r
  PROVE  /\ IsLeg(ConflictInvariantOutcome(r))
         /\ IsLeg(FetchUrlEgressOutcome(r))
         /\ IsLeg(ReversibilityOutcome(r))
  <1>1. IsLeg(ConflictInvariantOutcome(r))
    BY NoGateIsLeg DEF ConflictInvariantOutcome, Gate, NoGate, IsLeg, Verdicts
  <1>2. IsLeg(FetchUrlEgressOutcome(r))
    BY NoGateIsLeg DEF FetchUrlEgressOutcome, Gate, NoGate, IsLeg, Verdicts
  <1>3. IsLeg(ReversibilityOutcome(r))
    BY NoGateIsLeg DEF ReversibilityOutcome, Gate, NoGate, IsLeg, Verdicts
  <1> QED BY <1>1, <1>2, <1>3

\* ToLegacy takes every outcome of a rule to a verdict.
LEMMA LegacyIsVerdict ==
  ASSUME NEW o \in RuleOutcomes
  PROVE  ToLegacy[o] \in Verdicts
  BY DEF ToLegacy, RuleOutcomes, Verdicts

\* A set of outcomes has a strictest one.
LEMMA StrictestOutcome ==
  ASSUME NEW S \in SUBSET RuleOutcomes, S # {}
  PROVE  MostRestrictive(S) \in S
  <1>1. \E o \in S : \A p \in S : OutcomeRank[o] <= OutcomeRank[p]
    <2>1. CASE "deny" \in S
      BY <2>1 DEF RuleOutcomes, OutcomeRank
    <2>2. CASE "deny" \notin S /\ "override_required" \in S
      BY <2>2 DEF RuleOutcomes, OutcomeRank
    <2>3. CASE "deny" \notin S /\ "override_required" \notin S /\ "require_approval" \in S
      BY <2>3 DEF RuleOutcomes, OutcomeRank
    <2>4. CASE /\ "deny" \notin S /\ "override_required" \notin S /\ "require_approval" \notin S
               /\ "suggest" \in S
      BY <2>4 DEF RuleOutcomes, OutcomeRank
    <2>5. CASE S = {"auto"}
      BY <2>5 DEF RuleOutcomes, OutcomeRank
    <2>6. \E o \in S : o \in RuleOutcomes
      OBVIOUS
    <2> QED BY <2>1, <2>2, <2>3, <2>4, <2>5, <2>6 DEF RuleOutcomes
  <1> QED BY <1>1 DEF MostRestrictive

LEMMA RulesDecide ==
  ASSUME NEW r \in Request
  PROVE  Evaluate(r).outcome \in RuleOutcomes
  <1>1. CASE LiveRules(r) = {}
    BY <1>1 DEF Evaluate, Request
  <1>2. CASE LiveRules(r) # {}
    <2>1. \A u \in LiveRules(r) : u.outcome \in RuleOutcomes
      BY DEF LiveRules, Request, Rule
    <2>2. /\ {u.outcome : u \in LiveRules(r)} \in SUBSET RuleOutcomes
          /\ {u.outcome : u \in LiveRules(r)} # {}
      BY <1>2, <2>1
    <2>3. MostRestrictive({u.outcome : u \in LiveRules(r)}) \in RuleOutcomes
      BY <2>2, StrictestOutcome
    <2> QED BY <1>2, <2>3 DEF Evaluate
  <1> QED BY <1>1, <1>2

LEMMA EnvelopesAreLegs ==
  ASSUME NEW r \in Request, NEW e \in EnvelopeOutcomes(r)
  PROVE  IsLeg(e)
  <1>1. CASE r.dial = None \/ r.effect = None \/ r.rev = None \/ r.a = {}
    BY <1>1, NoGateIsLeg DEF EnvelopeOutcomes
  <1>2. CASE ~(r.dial = None \/ r.effect = None \/ r.rev = None \/ r.a = {})
    <2>1. PICK c \in CategoriesOf(r) :
            e = IF r.envelopes[c] = None THEN NoGate
                ELSE Gate(ToLegacy[Select(r.envelopes[c], r.dial)], "envelope-dial")
      BY <1>2, Zenon DEF EnvelopeOutcomes
    <2>2. c \in Categories
      BY DEF CategoriesOf, Request, Tag
    <2>3. CASE r.envelopes[c] = None
      BY <2>1, <2>3, NoGateIsLeg
    <2>4. CASE r.envelopes[c] # None
      <3> DEFINE v == r.envelopes[c]
                 i == CASE r.dial = "cautious"   -> v.strictest
                        [] r.dial = "permissive" -> v.loosest
                        [] r.dial = "balanced"   -> v.strictest + (v.loosest - v.strictest) \div 2
      <3>1. v \in Envelope
        BY <2>2, <2>4 DEF Request
      <3>2. v.strictest \in 0 .. 3 /\ v.loosest \in 0 .. 3
        BY <3>1 DEF Envelope
      <3>3. r.dial \in {"cautious", "balanced", "permissive"}
        BY <1>2 DEF Request
      <3>4. \A x, y \in 0 .. 3 : x + (y - x) \div 2 \in 0 .. 3
        OBVIOUS
      <3>5. i \in 0 .. 3
        BY <3>2, <3>3, <3>4
      <3> HIDE DEF i
      <3>6. EnvelopeOrder[1 + i] \in RuleOutcomes
        BY <3>5 DEF EnvelopeOrder, RuleOutcomes
      <3>7. Select(v, r.dial) = EnvelopeOrder[1 + i]
        BY DEF Select, i
      <3>8. ToLegacy[Select(v, r.dial)] \in Verdicts
        BY <3>6, <3>7, LegacyIsVerdict
      <3> QED BY <2>1, <2>4, <3>8, GateIsLeg
    <2> QED BY <2>3, <2>4
  <1> QED BY <1>1, <1>2

\* What the capabilities say, and what a verdict other than a denial says of them.
Live(r, c) == c.matches /\ ~c.expired /\ ~c.exhausted /\ ~IsCascadedInert(r, c) /\ ~c.prior

MayAsk(r, c) ==
  \/ Live(r, c)
  \/ c.matches /\ ~c.expired /\ c.exhausted /\ r.escalation

LEMMA LegacyIsBacked ==
  ASSUME NEW r \in Request, NEW legacy \in DecideLegacy(r)
  PROVE  /\ IsVerdict(legacy)
         /\ legacy.v2 = None
         /\ legacy.decision # "override_required"
         /\ legacy.decision = "require_approval" => \E c \in r.caps : MayAsk(r, c)
         /\ legacy.decision = "allow" =>
              \E c \in r.caps : Live(r, c) /\ (r.kind \in Destructive => c.destructive)
  <1>1. CASE Usable(r) = {}
    <2>1. legacy = WithoutCapability(r)
      BY <1>1 DEF DecideLegacy
    <2> DEFINE matching == {c \in r.caps : c.matches}
    <2>2. CASE \E c \in matching : c.expired
      <3>1. legacy = Result("deny", "capability-expired", FALSE)
        BY <2>1, <2>2 DEF WithoutCapability
      <3> QED BY <3>1, PlainDenial, NoRules
    <2>3. CASE ~(\E c \in matching : c.expired) /\ matching # {}
      <3>1. legacy = Result(IF r.escalation THEN "require_approval" ELSE "deny", "rate-limit-exceeded", FALSE)
        BY <2>1, <2>3 DEF WithoutCapability
      <3>2. \E c \in r.caps : c.matches /\ ~c.expired /\ c.exhausted
        BY <1>1, <2>3 DEF Usable
      <3>3. CASE r.escalation
        <4>1. legacy = Result("require_approval", "rate-limit-exceeded", FALSE)
          BY <3>1, <3>3
        <4>2. IsVerdict(legacy) /\ legacy.v2 = None /\ legacy.decision = "require_approval"
          BY <4>1, PlainApproval, Zenon
        <4>3. \E c \in r.caps : MayAsk(r, c)
          BY <3>2, <3>3 DEF MayAsk
        <4> QED BY <4>2, <4>3
      <3>4. CASE ~r.escalation
        BY <3>1, <3>4, PlainDenial, NoRules
      <3> QED BY <3>3, <3>4
    <2>4. CASE ~(\E c \in matching : c.expired) /\ matching = {}
      <3>1. legacy = Result("deny", None, FALSE)
        BY <2>1, <2>4 DEF WithoutCapability
      <3> QED BY <3>1, PlainDenial, NoRules
    <2> QED BY <2>2, <2>3, <2>4
  <1>2. CASE Usable(r) # {}
    <2>1. PICK c \in Usable(r) : legacy = WithCapability(r, c)
      BY <1>2 DEF DecideLegacy
    <2>2. c \in r.caps /\ c.matches /\ ~c.expired /\ ~c.exhausted
      BY DEF Usable
    <2>3. c.destructive \in BOOLEAN
      BY <2>2 DEF Request, Capability
    <2>4. CASE IsCascadedInert(r, c)
      BY <2>1, <2>2, <2>3, <2>4, ResultIsVerdict, NoRules DEF WithCapability, Verdicts
    <2>5. CASE ~IsCascadedInert(r, c) /\ c.prior
      BY <2>1, <2>2, <2>3, <2>5, ResultIsVerdict, NoRules DEF WithCapability, Verdicts
    <2>6. CASE ~IsCascadedInert(r, c) /\ ~c.prior /\ r.kind \in Destructive /\ ~c.destructive
      <3>1. legacy = Result("require_approval", "destructive-op", FALSE)
        BY <2>1, <2>6 DEF WithCapability
      <3>2. IsVerdict(legacy) /\ legacy.v2 = None /\ legacy.decision = "require_approval"
        BY <3>1, PlainApproval, Zenon
      <3>3. \E k \in r.caps : MayAsk(r, k)
        BY <2>2, <2>6 DEF MayAsk, Live
      <3> QED BY <3>2, <3>3
    <2>7. CASE ~IsCascadedInert(r, c) /\ ~c.prior /\ ~(r.kind \in Destructive /\ ~c.destructive)
      <3>1. legacy = Result("allow", None, c.destructive)
        BY <2>1, <2>7 DEF WithCapability
      <3>2. "allow" \in Verdicts
        BY DEF Verdicts
      <3>3. IsVerdict(legacy) /\ legacy.v2 = None /\ legacy.decision = "allow"
        BY <3>1, <3>2, ResultIsVerdict, NoRules
      <3>4. \E k \in r.caps : Live(r, k) /\ (r.kind \in Destructive => k.destructive)
        BY <2>2, <2>3, <2>7 DEF Live
      <3> QED BY <3>3, <3>4
    <2> QED BY <2>4, <2>5, <2>6, <2>7
  <1> QED BY <1>1, <1>2

\* The refusal that is reported is the first that fires.
LEMMA FirstRefusal ==
  ASSUME NEW r, Refused(r)
  PROVE  \E i \in 1 .. 7 : /\ Refusals(r)[i].fires /\ Refusal(r) = Refusals(r)[i].gate
                           /\ \A j \in 1 .. i - 1 : ~Refusals(r)[j].fires
  <1> DEFINE least(i) == Refusals(r)[i].fires /\ \A j \in 1 .. i - 1 : ~Refusals(r)[j].fires
             f(i) == Refusals(r)[i].fires
  <1>1. PICK k \in 1 .. 7 : f(k)
    BY DEF Refused
  <1>2. \E i \in 1 .. 7 : f(i) /\ \A j \in 1 .. i - 1 : ~f(j)
    <2> HIDE DEF f
    <2>1. CASE f(1)  BY <2>1
    <2>2. CASE ~f(1) /\ f(2)  BY <2>2
    <2>3. CASE ~f(1) /\ ~f(2) /\ f(3)  BY <2>3
    <2>4. CASE ~f(1) /\ ~f(2) /\ ~f(3) /\ f(4)  BY <2>4
    <2>5. CASE ~f(1) /\ ~f(2) /\ ~f(3) /\ ~f(4) /\ f(5)  BY <2>5
    <2>6. CASE ~f(1) /\ ~f(2) /\ ~f(3) /\ ~f(4) /\ ~f(5) /\ f(6)  BY <2>6
    <2>7. CASE ~f(1) /\ ~f(2) /\ ~f(3) /\ ~f(4) /\ ~f(5) /\ ~f(6)  BY <1>1, <2>7
    <2> QED BY <2>1, <2>2, <2>3, <2>4, <2>5, <2>6, <2>7
  <1>3. \E i \in 1 .. 7 : least(i)
    BY <1>2
  <1> DEFINE first == CHOOSE i \in 1 .. 7 : least(i)
  <1>4. Refusal(r) = Refusals(r)[first].gate
    BY DEF Refusal
  <1> HIDE DEF least
  <1>5. first \in 1 .. 7 /\ least(first)
    BY <1>3
  <1> HIDE DEF first
  <1> QED BY <1>4, <1>5 DEF least

LEMMA RefusalForbids ==
  ASSUME NEW r, Refused(r)
  PROVE  /\ Refusal(r).decision \in {"deny", "override_required"}
         /\ IsLeg(Refusal(r))
  <1>1. \A i \in 1 .. 7 : /\ IsLeg(Refusals(r)[i].gate)
                          /\ Refusals(r)[i].gate.decision \in {"deny", "override_required"}
    BY DEF Refusals, Gate, IsLeg, Verdicts
  <1> QED BY <1>1, FirstRefusal

-----------------------------------------------------------------------------
\* The composers.

\* x is the strictest of the demands S.
Strictest(x, S) == x.decision \in S /\ \A d \in S : Rank[x.decision] <= Rank[d]

LEMMA RatchetComposes ==
  ASSUME NEW base, NEW gate, NEW S \in SUBSET Verdicts,
         IsVerdict(base), IsLeg(gate), Strictest(base, S)
  PROVE  Strictest(Ratchet(base, gate), S \cup {gate.decision})
  <1> DEFINE x == Ratchet(base, gate)
  <1>1. /\ x.decision \in Verdicts /\ gate.decision \in Verdicts /\ base.decision \in Verdicts
        /\ x.decision = base.decision \/ x.decision = gate.decision
        /\ Rank[x.decision] <= Rank[base.decision]
        /\ Rank[x.decision] <= Rank[gate.decision]
    BY RatchetIsMinimum DEF IsVerdict, IsLeg
  <1>2. \A d \in Verdicts : Rank[d] \in Nat
    BY DEF Verdicts, Rank
  <1> HIDE DEF x
  <1>3. \A d \in S : Rank[x.decision] <= Rank[d]
    BY <1>1, <1>2 DEF Strictest
  <1>4. Strictest(x, S \cup {gate.decision})
    BY <1>1, <1>3 DEF Strictest
  <1> QED BY <1>4 DEF x

\* A leg that asks for nothing changes nothing.
LEMMA AllowComposes ==
  ASSUME NEW base, NEW S \in SUBSET Verdicts, Strictest(base, S)
  PROVE  Strictest(base, S \cup {"allow"})
  <1>1. \A d \in Verdicts : Rank[d] <= Rank["allow"]
    BY DEF Verdicts, Rank
  <1> QED BY <1>1 DEF Strictest

\* Keeping an "allow" against a required approval, and otherwise taking the stricter one,
\* is composing with the leg whose approval is waived.
LEMMA WaiverComposes ==
  ASSUME NEW base, NEW gate, NEW x, NEW S \in SUBSET Verdicts, NEW waived \in BOOLEAN,
         IsVerdict(base), IsLeg(gate), Strictest(base, S),
         x = IF waived /\ base.decision = "allow" /\ gate.decision = "require_approval"
             THEN base ELSE Ratchet(base, gate)
  PROVE  Strictest(x, S \cup {Waive(waived, gate.decision)})
  <1>1. CASE waived /\ gate.decision = "require_approval"
    <2>1. Waive(waived, gate.decision) = "allow"
      BY <1>1 DEF Waive
    <2>2. x = base
      <3>1. base.decision # "allow" => ~Stricter(gate.decision, base.decision)
        BY <1>1 DEF Stricter, Rank, IsVerdict, Verdicts
      <3> QED BY <1>1, <3>1 DEF Ratchet
    <2> QED BY <2>1, <2>2, AllowComposes
  <1>2. CASE ~(waived /\ gate.decision = "require_approval")
    <2>1. Waive(waived, gate.decision) = gate.decision
      BY <1>2 DEF Waive
    <2>2. x = Ratchet(base, gate)
      BY <1>2
    <2> QED BY <2>1, <2>2, RatchetComposes
  <1> QED BY <1>1, <1>2

\* What is still "allow" after a ratchet has not been changed by it.
LEMMA RatchetKeepsAllow ==
  ASSUME NEW base, NEW gate, IsVerdict(base), IsLeg(gate), Ratchet(base, gate).decision = "allow"
  PROVE  Ratchet(base, gate) = base
  <1>1. CASE Stricter(gate.decision, base.decision)
    <2>1. Ratchet(base, gate).decision = gate.decision
      BY <1>1 DEF Ratchet, IsVerdict
    <2> QED BY <1>1, <2>1 DEF Stricter, Rank, IsVerdict, Verdicts
  <1>2. CASE ~Stricter(gate.decision, base.decision)
    BY <1>2 DEF Ratchet
  <1> QED BY <1>1, <1>2

LEMMA RulesCompose ==
  ASSUME NEW legacy, NEW v2, NEW approved \in BOOLEAN, NEW standing \in BOOLEAN,
         IsVerdict(legacy), v2.outcome \in RuleOutcomes
  PROVE  LET x == ComposeWithV2(legacy, v2, approved, standing)
             waived == approved \/ (standing /\ v2.outcome = "suggest" /\ ~v2.matched)
         IN  /\ IsVerdict(x)
             /\ x.v2 = v2.outcome
             /\ Strictest(x, {legacy.decision, Waive(waived, ToLegacy[v2.outcome])})
             /\ legacy.decision = "deny" => x.decision = "deny"
             /\ x.decision = "allow" => legacy.decision = "allow"
             /\ approved /\ legacy.decision # "require_approval" => x.decision # "require_approval"
  <1> DEFINE leg == ToLegacy[v2.outcome]
             gate == Gate(leg, "v2")
             waived == approved \/ (standing /\ v2.outcome = "suggest" /\ ~v2.matched)
             suppressed == /\ legacy.decision = "allow"
                           /\ \/ standing /\ v2.outcome = "suggest" /\ ~v2.matched
                              \/ approved /\ leg = "require_approval"
             ruled == IF suppressed THEN legacy ELSE Ratchet(legacy, gate)
             x == ComposeWithV2(legacy, v2, approved, standing)
  <1>1. leg \in Verdicts /\ IsLeg(gate) /\ gate.decision = leg
    BY LegacyIsVerdict, GateIsLeg
  <1>2. IsVerdict(ruled)
    BY <1>1, RatchetIsMinimum
  <1>3. x = [ruled EXCEPT !.v2 = v2.outcome]
    BY DEF ComposeWithV2
  <1>4. legacy.decision \in Verdicts
    BY DEF IsVerdict
  <1>5. Strictest(legacy, {legacy.decision})
    <2>1. Rank[legacy.decision] <= Rank[legacy.decision]
      BY <1>4 DEF Verdicts, Rank
    <2> QED BY <2>1 DEF Strictest
  <1>6. suppressed <=> waived /\ legacy.decision = "allow" /\ leg = "require_approval"
    BY DEF ToLegacy, RuleOutcomes
  <1>7. ruled = IF waived /\ legacy.decision = "allow" /\ gate.decision = "require_approval"
                THEN legacy ELSE Ratchet(legacy, gate)
    BY <1>1, <1>6
  <1>8. waived \in BOOLEAN
    OBVIOUS
  <1>9. approved => waived
    OBVIOUS
  <1> HIDE DEF x, ruled, waived, suppressed
  <1>10. IsVerdict(x) /\ x.decision = ruled.decision /\ x.v2 = v2.outcome
    BY <1>2, <1>3 DEF IsVerdict
  <1>11. Strictest(ruled, {legacy.decision, Waive(waived, leg)})
    <2>1. Strictest(ruled, {legacy.decision} \cup {Waive(waived, gate.decision)})
      BY <1>1, <1>4, <1>5, <1>7, <1>8, WaiverComposes
    <2>2. {legacy.decision} \cup {Waive(waived, gate.decision)} = {legacy.decision, Waive(waived, leg)}
      BY <1>1
    <2> QED BY <2>1, <2>2
  <1>12. /\ legacy.decision = "deny" => ruled.decision = "deny"
         /\ ruled.decision = "allow" => legacy.decision = "allow"
         /\ approved /\ legacy.decision # "require_approval" => ruled.decision # "require_approval"
    <2>1. CASE ruled = legacy
      BY <2>1
    <2>2. CASE /\ ruled = Ratchet(legacy, gate)
               /\ ~(waived /\ legacy.decision = "allow" /\ gate.decision = "require_approval")
      <3>1. /\ ruled.decision = legacy.decision \/ ruled.decision = leg
            /\ Rank[ruled.decision] <= Rank[legacy.decision]
            /\ Rank[ruled.decision] <= Rank[leg]
        BY <1>1, <2>2, RatchetIsMinimum
      <3> QED BY <1>1, <1>4, <1>9, <2>2, <3>1 DEF Rank, Verdicts
    <2> QED BY <1>7, <2>1, <2>2
  <1>13. Strictest(x, {legacy.decision, Waive(waived, leg)})
    BY <1>10, <1>11 DEF Strictest
  <1> QED BY <1>10, <1>12, <1>13 DEF x, waived

\* The reversibility gate: it lifts an approval, or is composed with what is not waived.
ReversibilityFacts(x, base, gate, approved, standing) ==
  LET waived == approved \/ (standing /\ gate.rule = "reversibility-requires-approval")
      lifts == /\ gate.rule = "optimistic-auto"
               /\ base.decision = "require_approval" /\ base.v2 = "suggest"
  IN  /\ IsVerdict(x)
      /\ lifts => x.decision = "allow"
      /\ ~lifts => \A S \in SUBSET Verdicts :
           Strictest(base, S) => Strictest(x, S \cup {Waive(waived, gate.decision)})
      /\ ~lifts /\ gate.decision = "allow" => x.decision = base.decision
      /\ base.decision = "deny" => x.decision = "deny"
      /\ x.decision = "allow" => base.decision = "allow" \/ x.rule = "optimistic-auto"
      /\ (approved \/ gate.decision = "allow") /\ base.decision # "require_approval"
           => x.decision # "require_approval"

LEMMA ReversibilityComposes ==
  ASSUME NEW base, NEW gate, NEW approved \in BOOLEAN, NEW standing \in BOOLEAN,
         IsVerdict(base), IsLeg(gate),
         gate.rule = "optimistic-auto" => gate.decision = "allow"
  PROVE  ReversibilityFacts(ComposeWithReversibility(base, gate, approved, standing),
                            base, gate, approved, standing)
  <1> DEFINE x == ComposeWithReversibility(base, gate, approved, standing)
             waived == approved \/ (standing /\ gate.rule = "reversibility-requires-approval")
             lifts == /\ gate.rule = "optimistic-auto"
                      /\ base.decision = "require_approval" /\ base.v2 = "suggest"
             kept == waived /\ base.decision = "allow" /\ gate.decision = "require_approval"
  <1>1. CASE lifts
    <2>1. ~kept
      BY <1>1
    <2>2. x = [base EXCEPT !.decision = "allow", !.rule = gate.rule]
      BY <1>1, <2>1 DEF ComposeWithReversibility
    <2>3. IsVerdict(x) /\ x.decision = "allow" /\ x.rule = "optimistic-auto"
      BY <1>1, <2>2 DEF IsVerdict, Verdicts
    <2> QED BY <1>1, <2>3 DEF ReversibilityFacts
  <1>2. CASE ~lifts
    <2>1. x = IF kept THEN base ELSE Ratchet(base, gate)
      BY <1>2 DEF ComposeWithReversibility
    <2>2. waived \in BOOLEAN /\ (approved => waived)
      OBVIOUS
    <2>3. base.decision \in Verdicts /\ gate.decision \in Verdicts
      BY DEF IsVerdict, IsLeg
    <2> HIDE DEF x, waived, ReversibilityFacts
    <2>4. \A S \in SUBSET Verdicts :
            Strictest(base, S) => Strictest(x, S \cup {Waive(waived, gate.decision)})
      BY <2>1, <2>2, WaiverComposes
    <2>5. CASE kept
      BY <1>2, <2>1, <2>4, <2>5 DEF x, waived, ReversibilityFacts
    <2>6. CASE ~kept
      <3>1. x = Ratchet(base, gate)
        BY <2>1, <2>6
      <3>2. /\ IsVerdict(x)
            /\ x.decision = base.decision \/ x.decision = gate.decision
            /\ Rank[x.decision] <= Rank[base.decision]
            /\ Rank[x.decision] <= Rank[gate.decision]
        BY <3>1, RatchetIsMinimum
      <3>3. /\ base.decision = "deny" => x.decision = "deny"
            /\ x.decision = "allow" => base.decision = "allow"
            /\ gate.decision = "allow" => x.decision = base.decision
            /\ (approved \/ gate.decision = "allow") /\ base.decision # "require_approval"
                 => x.decision # "require_approval"
        BY <2>2, <2>3, <2>6, <3>2 DEF Rank, Verdicts
      <3> QED BY <1>2, <2>4, <3>2, <3>3 DEF x, waived, ReversibilityFacts
    <2> QED BY <2>5, <2>6
  <1> QED BY <1>1, <1>2

LEMMA EnvelopeComposes ==
  ASSUME NEW base, NEW gate, NEW approved \in BOOLEAN,
         NEW S \in SUBSET Verdicts, IsVerdict(base), IsLeg(gate), Strictest(base, S)
  PROVE  LET x == ComposeWithEnvelope(base, gate, approved)
         IN  /\ IsVerdict(x)
             /\ Strictest(x, S \cup {Waive(approved, gate.decision)})
             /\ base.decision = "deny" => x.decision = "deny"
             /\ x.decision = "allow" => x = base
             /\ (approved \/ gate.decision = "allow") /\ base.decision # "require_approval"
                  => x.decision # "require_approval"
  <1> DEFINE x == ComposeWithEnvelope(base, gate, approved)
             kept == approved /\ base.decision = "allow" /\ gate.decision = "require_approval"
  <1>1. x = IF kept THEN base ELSE Ratchet(base, gate)
    BY DEF ComposeWithEnvelope
  <1> HIDE DEF x
  <1>2. Strictest(x, S \cup {Waive(approved, gate.decision)})
    BY <1>1, WaiverComposes
  <1>3. CASE kept
    BY <1>1, <1>2, <1>3 DEF x
  <1>4. CASE ~kept
    <2>1. x = Ratchet(base, gate)
      BY <1>1, <1>4
    <2>2. /\ IsVerdict(x)
          /\ x.decision = base.decision \/ x.decision = gate.decision
          /\ Rank[x.decision] <= Rank[base.decision]
          /\ Rank[x.decision] <= Rank[gate.decision]
      BY <2>1, RatchetIsMinimum
    <2>3. base.decision \in Verdicts /\ gate.decision \in Verdicts
      BY DEF IsVerdict, IsLeg
    <2>4. x.decision = "allow" => x = base
      BY <2>1, RatchetKeepsAllow
    <2>5. /\ base.decision = "deny" => x.decision = "deny"
          /\ (approved \/ gate.decision = "allow") /\ base.decision # "require_approval"
                  => x.decision # "require_approval"
      BY <1>4, <2>2, <2>3 DEF Rank, Verdicts
    <2> QED BY <1>2, <2>2, <2>4, <2>5 DEF x
  <1> QED BY <1>3, <1>4

LEMMA FloorComposes ==
  ASSUME NEW base, NEW floor, NEW crossed, NEW S \in SUBSET Verdicts,
         IsVerdict(base), IsLeg(floor), Strictest(base, S)
  PROVE  LET x == ComposeWithConflictInvariant(base, floor, crossed)
             passed == floor.rule \in crossed /\ floor.rule # "untrusted-meets-egress"
         IN  /\ IsVerdict(x)
             /\ Strictest(x, S \cup {IF passed THEN "allow" ELSE floor.decision})
             /\ base.decision = "deny" => x.decision = "deny"
             /\ x.decision = "allow" => x = base
             /\ floor.decision = "allow" => x.decision = base.decision
             /\ floor.decision = "deny" /\ ~passed => x.decision = "deny"
  <1> DEFINE x == ComposeWithConflictInvariant(base, floor, crossed)
             passed == floor.rule \in crossed /\ floor.rule # "untrusted-meets-egress"
  <1>1. CASE passed
    <2>1. x = base
      BY <1>1 DEF ComposeWithConflictInvariant
    <2>2. Strictest(base, S \cup {"allow"})
      BY AllowComposes
    <2> QED BY <1>1, <2>1, <2>2
  <1>2. CASE ~passed
    <2>1. x = Ratchet(base, floor)
      BY <1>2 DEF ComposeWithConflictInvariant
    <2>2. /\ IsVerdict(x)
          /\ x.decision = base.decision \/ x.decision = floor.decision
          /\ Rank[x.decision] <= Rank[base.decision]
          /\ Rank[x.decision] <= Rank[floor.decision]
      BY <2>1, RatchetIsMinimum
    <2>3. Strictest(x, S \cup {floor.decision})
      BY <2>1, RatchetComposes
    <2>4. base.decision \in Verdicts /\ floor.decision \in Verdicts
      BY DEF IsVerdict, IsLeg
    <2>5. x.decision = "allow" => x = base
      BY <2>1, RatchetKeepsAllow
    <2> HIDE DEF x, passed
    <2>6. /\ base.decision = "deny" => x.decision = "deny"
          /\ floor.decision = "allow" => x.decision = base.decision
          /\ floor.decision = "deny" => x.decision = "deny"
      BY <2>2, <2>4 DEF Rank, Verdicts
    <2> QED BY <1>2, <2>2, <2>3, <2>5, <2>6 DEF x, passed
  <1> QED BY <1>1, <1>2

\* Asking at the first use is one more leg.
LEMMA FirstUseComposes ==
  ASSUME NEW r, NEW base, NEW S \in SUBSET Verdicts, IsVerdict(base), Strictest(base, S)
  PROVE  LET x == MaybeFirstUseEscalation(r, base)
             leg == IF r.firstUse /\ r.kind \in Promptable THEN "require_approval" ELSE "allow"
         IN  /\ IsVerdict(x)
             /\ Strictest(x, S \cup {leg})
             /\ base.decision = "deny" => x.decision = "deny"
             /\ x.decision = "allow" => x = base
             /\ ~r.firstUse => x = base
  <1> DEFINE x == MaybeFirstUseEscalation(r, base)
             asks == r.firstUse /\ r.kind \in Promptable
             gate == Gate("require_approval", "first-use-of-kind")
  <1>1. CASE asks
    <2>1. IsLeg(gate) /\ gate.decision = "require_approval" /\ gate.rule = "first-use-of-kind"
      BY DEF Gate, IsLeg, Verdicts
    <2>2. base.decision \in Verdicts
      BY DEF IsVerdict
    <2>3. x = Ratchet(base, gate)
      <3>1. Stricter("require_approval", base.decision) <=> base.decision = "allow"
        BY <2>2 DEF Stricter, Rank, Verdicts
      <3> QED BY <1>1, <2>1, <3>1 DEF MaybeFirstUseEscalation, Ratchet
    <2>4. Strictest(x, S \cup {"require_approval"})
      BY <2>1, <2>3, RatchetComposes
    <2>5. /\ IsVerdict(x)
          /\ x.decision = base.decision \/ x.decision = gate.decision
          /\ Rank[x.decision] <= Rank[base.decision]
      BY <2>1, <2>3, RatchetIsMinimum
    <2>6. x.decision = "allow" => x = base
      BY <2>1, <2>3, RatchetKeepsAllow
    <2> HIDE DEF x
    <2>7. base.decision = "deny" => x.decision = "deny"
      BY <2>1, <2>2, <2>5 DEF Rank, Verdicts
    <2> QED BY <1>1, <2>4, <2>5, <2>6, <2>7 DEF x
  <1>2. CASE ~asks
    <2>1. x = base
      BY <1>2 DEF MaybeFirstUseEscalation
    <2>2. Strictest(base, S \cup {"allow"})
      BY AllowComposes
    <2> QED BY <1>2, <2>1, <2>2
  <1> QED BY <1>1, <1>2

-----------------------------------------------------------------------------
\* decide().

LEMMA CrossedFloors ==
  ASSUME NEW r \in Request
  PROVE  /\ "untrusted-meets-egress" \notin Evaluate(r).crossed
         /\ FetchUrlEgressOutcome(r).rule \notin Evaluate(r).crossed
  <1> DEFINE crosses == {u.crosses : u \in LiveRules(r)} \ {None}
  <1>1. crosses \subseteq {"health-meets-egress", "financial-meets-email"}
    BY DEF LiveRules, Request, Rule
  <1>2. Evaluate(r).crossed = IF r.personal THEN crosses ELSE {}
    BY DEF Evaluate
  <1>3. FetchUrlEgressOutcome(r).rule \in {None, "restricted-meets-fetch-url", "regulated-meets-fetch-url"}
    BY DEF FetchUrlEgressOutcome, Gate, NoGate
  <1>4. None \notin crosses
    OBVIOUS
  <1> HIDE DEF crosses
  <1> QED BY <1>1, <1>2, <1>3, <1>4

\* The first two legs when optimistic execution may lift what they ask for.
LEMMA OptimisticComposes ==
  ASSUME NEW ruled, NEW weighed, NEW legacy, NEW leg,
         IsVerdict(ruled), IsVerdict(legacy), leg \in {"allow", "require_approval"},
         Strictest(ruled, {legacy.decision, leg}),
         ruled.decision = "require_approval" => weighed.decision = "allow",
         ruled.decision # "require_approval" => weighed.decision = ruled.decision
  PROVE  Strictest(weighed, {Waive(TRUE, legacy.decision), "allow"})
  <1>1. legacy.decision \in Verdicts /\ ruled.decision \in Verdicts
    BY DEF IsVerdict
  <1>2. CASE ruled.decision \in {"require_approval", "allow"}
    <2>1. legacy.decision \in {"require_approval", "allow"}
      BY <1>1, <1>2 DEF Strictest, Rank, Verdicts
    <2>2. Waive(TRUE, legacy.decision) = "allow" /\ weighed.decision = "allow"
      BY <1>2, <2>1 DEF Waive
    <2>3. Rank["allow"] <= Rank["allow"]
      BY DEF Rank
    <2> QED BY <2>2, <2>3 DEF Strictest
  <1>3. CASE ruled.decision \in {"deny", "override_required"}
    <2>1. legacy.decision = ruled.decision /\ weighed.decision = ruled.decision
      BY <1>1, <1>3 DEF Strictest
    <2>2. Waive(TRUE, legacy.decision) = legacy.decision
      BY <1>3, <2>1 DEF Waive
    <2>3. /\ Rank[ruled.decision] <= Rank[ruled.decision]
          /\ Rank[ruled.decision] <= Rank["allow"]
      BY <1>3 DEF Rank
    <2> QED BY <2>1, <2>2, <2>3 DEF Strictest
  <1> QED BY <1>1, <1>2, <1>3 DEF Verdicts

LEMMA ComposeFacts ==
  ASSUME NEW r \in Request, NEW legacy \in DecideLegacy(r), NEW envelope \in EnvelopeOutcomes(r)
  PROVE  LET x == Compose(r, legacy, envelope)
             crossed == IF HasRules(r) THEN Evaluate(r).crossed ELSE {}
             floor == ConflictInvariantOutcome(r)
         IN  /\ IsVerdict(x)
             /\ Strictest(x, Demands(r, legacy, envelope))
             /\ legacy.decision = "deny" => x.decision = "deny"
             /\ x.decision = "allow" => legacy.decision = "allow" \/ x.rule = "optimistic-auto"
             /\ /\ floor.decision = "deny"
                /\ floor.rule \notin crossed \/ floor.rule = "untrusted-meets-egress"
                => x.decision = "deny"
             /\ /\ (HasRules(r) /\ r.approved) \/ r.effect = None
                /\ legacy.decision # "require_approval"
                /\ floor.decision = "allow" /\ FetchUrlEgressOutcome(r).decision = "allow" /\ ~r.firstUse
                => x.decision # "require_approval"
  <1> DEFINE
        v2        == Evaluate(r)
        approved  == HasRules(r) /\ r.approved
        standing  == /\ HasRules(r)
                     /\ r.kind \in Destructive /\ legacy.decision = "allow" /\ legacy.destructive
        optimistic == Optimistic(r)
        crossed   == IF HasRules(r) THEN v2.crossed ELSE {}
        reversal  == ReversibilityOutcome(r)
        floor     == ConflictInvariantOutcome(r)
        fetch     == FetchUrlEgressOutcome(r)
        ruled     == IF HasRules(r) THEN ComposeWithV2(legacy, v2, approved, standing) ELSE legacy
        weighed   == ComposeWithReversibility(ruled, reversal, approved, standing)
        dialled   == ComposeWithEnvelope(weighed, envelope, approved)
        confined  == ComposeWithConflictInvariant(dialled, floor, crossed)
        fetched   == ComposeWithConflictInvariant(confined, fetch, crossed)
        x         == MaybeFirstUseEscalation(r, fetched)
        default   == standing /\ v2.outcome = "suggest" /\ ~v2.matched
        friction  == standing /\ reversal.rule = "reversibility-requires-approval"
        leg       == IF HasRules(r) THEN Waive(approved \/ default, ToLegacy[v2.outcome]) ELSE "allow"
        leg2      == IF HasRules(r) THEN Waive(approved \/ optimistic \/ default, ToLegacy[v2.outcome])
                     ELSE "allow"
        S1        == {Waive(optimistic, legacy.decision), leg2}
        S2        == S1 \cup {Waive(approved \/ friction, reversal.decision)}
        S3        == S2 \cup {Waive(approved, envelope.decision)}
        passed    == floor.rule \in crossed /\ floor.rule # "untrusted-meets-egress"
        S4        == S3 \cup {IF passed THEN "allow" ELSE floor.decision}
        S5        == S4 \cup {fetch.decision}
        asked     == IF r.firstUse /\ r.kind \in Promptable THEN "require_approval" ELSE "allow"
        S6        == S5 \cup {asked}
  <1>1. x = Compose(r, legacy, envelope)
    BY DEF Compose
  <1>2. /\ IsVerdict(legacy) /\ legacy.v2 = None /\ legacy.decision \in Verdicts
    BY LegacyIsBacked DEF IsVerdict
  <1>3. v2.outcome \in RuleOutcomes /\ ToLegacy[v2.outcome] \in Verdicts
    BY RulesDecide, LegacyIsVerdict
  <1>4. IsLeg(reversal) /\ IsLeg(floor) /\ IsLeg(fetch) /\ IsLeg(envelope)
    BY FloorsAreLegs, EnvelopesAreLegs
  <1>5. approved \in BOOLEAN /\ standing \in BOOLEAN /\ optimistic \in BOOLEAN
    <2>1. r.approved \in BOOLEAN
      BY DEF Request
    <2>2. standing \in BOOLEAN /\ optimistic \in BOOLEAN
      BY DEF Optimistic, HasRules
    <2> QED BY <2>1, <2>2 DEF HasRules
  <1>6. /\ passed <=> HasRules(r) /\ floor.rule \in v2.crossed
        /\ fetch.rule \notin crossed
    BY CrossedFloors
  <1>7. /\ reversal.rule = "optimistic-auto" => reversal.decision = "allow"
        /\ optimistic <=> HasRules(r) /\ v2.outcome = "suggest" /\ reversal.rule = "optimistic-auto"
    BY DEF ReversibilityOutcome, Gate, NoGate, Optimistic
  <1>8. \A w \in BOOLEAN, d \in Verdicts : Waive(w, d) \in Verdicts
    BY DEF Waive, Verdicts
  <1>9. /\ S1 \in SUBSET Verdicts /\ S2 \in SUBSET Verdicts /\ S3 \in SUBSET Verdicts
        /\ S4 \in SUBSET Verdicts /\ S5 \in SUBSET Verdicts
    <2>1. "allow" \in Verdicts
      BY DEF Verdicts
    <2>2. reversal.decision \in Verdicts /\ envelope.decision \in Verdicts
          /\ floor.decision \in Verdicts /\ fetch.decision \in Verdicts
      BY <1>4 DEF IsLeg
    <2> HIDE DEF v2, approved, standing, optimistic, crossed, reversal, floor, fetch, default, friction, passed
    <2>3. leg2 \in Verdicts /\ Waive(optimistic, legacy.decision) \in Verdicts
      BY <1>2, <1>3, <1>5, <1>8, <2>1
    <2>4. /\ Waive(approved \/ friction, reversal.decision) \in Verdicts
          /\ Waive(approved, envelope.decision) \in Verdicts
      BY <1>5, <1>8, <2>2
    <2> HIDE DEF leg2
    <2> QED BY <2>1, <2>2, <2>3, <2>4
  <1>10. S6 = Demands(r, legacy, envelope)
    <2>1. Approved(r) = approved /\ Standing(r, legacy) = standing
      BY DEF Approved, Standing
    <2>2. Demands(r, legacy, envelope) =
            {Waive(optimistic, legacy.decision), leg2, Waive(approved \/ friction, reversal.decision),
             Waive(approved, envelope.decision), IF HasRules(r) /\ floor.rule \in v2.crossed THEN "allow" ELSE floor.decision,
             fetch.decision, asked}
      BY <2>1, Zenon DEF Demands
    <2>3. (IF HasRules(r) /\ floor.rule \in v2.crossed THEN "allow" ELSE floor.decision)
            = (IF passed THEN "allow" ELSE floor.decision)
      BY <1>6
    <2> QED BY <2>2, <2>3
  <1> HIDE DEF v2, approved, standing, optimistic, crossed, reversal, floor, fetch
  <1>11. /\ IsVerdict(ruled)
         /\ Strictest(ruled, {legacy.decision, leg})
         /\ legacy.decision = "deny" => ruled.decision = "deny"
         /\ ruled.decision = "allow" => legacy.decision = "allow"
         /\ approved /\ legacy.decision # "require_approval" => ruled.decision # "require_approval"
         /\ ~HasRules(r) => ruled = legacy
         /\ ruled.v2 = IF HasRules(r) THEN v2.outcome ELSE None
    <2>1. CASE HasRules(r)
      BY <1>2, <1>3, <1>5, <2>1, RulesCompose
    <2>2. CASE ~HasRules(r)
      <3>1. Strictest(legacy, {legacy.decision} \cup {"allow"})
        BY <1>2 DEF Strictest, Rank, Verdicts
      <3>2. {legacy.decision} \cup {"allow"} = {legacy.decision, leg}
        BY <2>2
      <3> QED BY <1>2, <2>2, <3>1, <3>2
    <2> QED BY <2>1, <2>2
  <1> HIDE DEF ruled
  <1> DEFINE lifts == /\ reversal.rule = "optimistic-auto"
                      /\ ruled.decision = "require_approval" /\ ruled.v2 = "suggest"
  <1>12. /\ IsVerdict(weighed)
         /\ lifts => weighed.decision = "allow"
         /\ ~lifts => \A S \in SUBSET Verdicts :
              Strictest(ruled, S) => Strictest(weighed, S \cup {Waive(approved \/ friction, reversal.decision)})
         /\ ~lifts /\ reversal.decision = "allow" => weighed.decision = ruled.decision
         /\ ruled.decision = "deny" => weighed.decision = "deny"
         /\ weighed.decision = "allow" => ruled.decision = "allow" \/ weighed.rule = "optimistic-auto"
         /\ (approved \/ reversal.decision = "allow") /\ ruled.decision # "require_approval"
              => weighed.decision # "require_approval"
    <2>1. ReversibilityFacts(weighed, ruled, reversal, approved, standing)
      BY <1>4, <1>5, <1>7, <1>11, ReversibilityComposes
    <2> QED BY <2>1 DEF ReversibilityFacts
  <1> HIDE DEF weighed
  <1>13. Strictest(weighed, S2)
    <2>1. lifts => optimistic
      BY <1>7, <1>11, NoneIsNoOutcome DEF RuleOutcomes
    <2>2. CASE optimistic
      <3>1. /\ HasRules(r) /\ ToLegacy[v2.outcome] = "require_approval"
            /\ reversal.decision = "allow" /\ ruled.v2 = "suggest"
        BY <1>7, <1>11, <2>2 DEF ToLegacy
      <3>2. leg2 = "allow" /\ leg \in {"allow", "require_approval"}
        BY <2>2, <3>1 DEF Waive
      <3>3. Waive(approved \/ friction, reversal.decision) = "allow"
        BY <3>1 DEF Waive
      <3>4. /\ ruled.decision = "require_approval" => weighed.decision = "allow"
            /\ ruled.decision # "require_approval" => weighed.decision = ruled.decision
        BY <1>7, <1>12, <2>2, <3>1
      <3> HIDE DEF leg, leg2, lifts
      <3>5. Strictest(weighed, {Waive(TRUE, legacy.decision), "allow"})
        BY <1>2, <1>11, <3>2, <3>4, OptimisticComposes
      <3>6. Waive(TRUE, legacy.decision) = Waive(optimistic, legacy.decision)
        BY <2>2 DEF Waive
      <3>7. S2 = {Waive(TRUE, legacy.decision), "allow"}
        BY <3>2, <3>3, <3>6
      <3> QED BY <3>5, <3>7
    <2>3. CASE ~optimistic
      <3>1. leg2 = leg
        BY <2>3 DEF Waive
      <3>2. Waive(optimistic, legacy.decision) = legacy.decision
        BY <2>3 DEF Waive
      <3>3. {legacy.decision, leg} = S1
        BY <3>1, <3>2
      <3> HIDE DEF leg, leg2, S1
      <3>4. Strictest(ruled, S1)
        BY <1>11, <3>3
      <3> QED BY <1>9, <1>12, <2>1, <2>3, <3>4
    <2> QED BY <1>5, <2>2, <2>3
  <1>14. r.effect = None => ~HasRules(r) /\ reversal.decision = "allow" /\ envelope.decision = "allow"
    BY NoGateIsLeg DEF HasRules, reversal, ReversibilityOutcome, EnvelopeOutcomes
  <1> HIDE DEF S2, lifts
  <1>15. /\ IsVerdict(dialled)
         /\ Strictest(dialled, S3)
         /\ weighed.decision = "deny" => dialled.decision = "deny"
         /\ dialled.decision = "allow" => dialled = weighed
         /\ (approved \/ envelope.decision = "allow") /\ weighed.decision # "require_approval"
              => dialled.decision # "require_approval"
    BY <1>4, <1>5, <1>9, <1>12, <1>13, EnvelopeComposes
  <1> HIDE DEF dialled, S3
  <1>16. /\ IsVerdict(confined)
         /\ Strictest(confined, S4)
         /\ dialled.decision = "deny" => confined.decision = "deny"
         /\ confined.decision = "allow" => confined = dialled
         /\ floor.decision = "allow" => confined.decision = dialled.decision
         /\ floor.decision = "deny" /\ ~passed => confined.decision = "deny"
    BY <1>4, <1>9, <1>15, FloorComposes, SMTT(30)
  <1> HIDE DEF confined, S4
  <1>17. /\ IsVerdict(fetched)
         /\ Strictest(fetched, S5)
         /\ confined.decision = "deny" => fetched.decision = "deny"
         /\ fetched.decision = "allow" => fetched = confined
         /\ fetch.decision = "allow" => fetched.decision = confined.decision
    BY <1>4, <1>6, <1>9, <1>16, FloorComposes
  <1> HIDE DEF fetched, S5
  <1>18. /\ IsVerdict(x)
         /\ Strictest(x, S6)
         /\ fetched.decision = "deny" => x.decision = "deny"
         /\ x.decision = "allow" => x = fetched
         /\ ~r.firstUse => x.decision = fetched.decision
    BY <1>9, <1>17, FirstUseComposes
  <1> HIDE DEF x, S6
  <1>19. /\ legacy.decision = "deny" => x.decision = "deny"
         /\ x.decision = "allow" => legacy.decision = "allow" \/ x.rule = "optimistic-auto"
         /\ floor.decision = "deny" /\ ~passed => x.decision = "deny"
         /\ /\ approved \/ r.effect = None
            /\ legacy.decision # "require_approval"
            /\ floor.decision = "allow" /\ fetch.decision = "allow" /\ ~r.firstUse
            => x.decision # "require_approval"
    BY <1>11, <1>12, <1>14, <1>15, <1>16, <1>17, <1>18
  <1>20. approved <=> HasRules(r) /\ r.approved
    BY DEF approved
  <1>21. crossed = IF HasRules(r) THEN Evaluate(r).crossed ELSE {}
    BY DEF crossed, v2
  <1> QED BY <1>1, <1>10, <1>18, <1>19, <1>20, <1>21 DEF reversal, floor, fetch

-----------------------------------------------------------------------------
\* The stages after decide().

IsOutcome(x) ==
  /\ x = [decision |-> x.decision, rule |-> x.rule, v2 |-> x.v2, destructive |-> x.destructive]
  /\ x.decision \in Decisions

LEMMA StrictestDecision ==
  ASSUME NEW S \in SUBSET Decisions, S # {}
  PROVE  /\ (CHOOSE d \in S : \A e \in S : Rank[d] <= Rank[e]) \in S
         /\ (CHOOSE d \in S : \A e \in S : Rank[e] <= Rank[d]) \in S
  <1>1. \A d \in Decisions : Rank[d] \in 0 .. 4
    BY DEF Decisions, Rank
  <1>2. \E d \in S : \A e \in S : Rank[d] <= Rank[e]
    <2>1. CASE "deny" \in S
      BY <2>1 DEF Decisions, Rank
    <2>2. CASE "deny" \notin S /\ "override_required" \in S
      BY <2>2 DEF Decisions, Rank
    <2>3. CASE "deny" \notin S /\ "override_required" \notin S /\ "require_approval" \in S
      BY <2>3 DEF Decisions, Rank
    <2>4. CASE /\ "deny" \notin S /\ "override_required" \notin S /\ "require_approval" \notin S
               /\ "warn" \in S
      BY <2>4 DEF Decisions, Rank
    <2>5. CASE S = {"allow"}
      BY <2>5 DEF Decisions, Rank
    <2> QED BY <2>1, <2>2, <2>3, <2>4, <2>5 DEF Decisions
  <1>3. \E d \in S : \A e \in S : Rank[e] <= Rank[d]
    <2>1. CASE "allow" \in S
      BY <2>1 DEF Decisions, Rank
    <2>2. CASE "allow" \notin S /\ "warn" \in S
      BY <2>2 DEF Decisions, Rank
    <2>3. CASE "allow" \notin S /\ "warn" \notin S /\ "require_approval" \in S
      BY <2>3 DEF Decisions, Rank
    <2>4. CASE /\ "allow" \notin S /\ "warn" \notin S /\ "require_approval" \notin S
               /\ "override_required" \in S
      BY <2>4 DEF Decisions, Rank
    <2>5. CASE S = {"deny"}
      BY <2>5 DEF Decisions, Rank
    <2> QED BY <2>1, <2>2, <2>3, <2>4, <2>5 DEF Decisions
  <1> QED BY <1>2, <1>3

\* An inspector may tighten anything, and relaxes only a required approval.
LEMMA InspectFacts ==
  ASSUME NEW r \in Request, NEW base, IsVerdict(base)
  PROVE  LET y == Inspect(r, base)
         IN  /\ IsOutcome(y)
             /\ base.decision \in {"deny", "override_required"} => y.decision \in {"deny", "override_required"}
             /\ y.decision \in {"allow", "warn"} =>
                  \/ base.decision = "allow"
                  \/ base.decision = "require_approval" /\ "allow" \in r.verdicts
  <1> DEFINE y == Inspect(r, base)
             tightens == {d \in r.verdicts : Stricter(d, base.decision)}
             relaxes  == {d \in r.verdicts : Stricter(base.decision, d)}
             strict == CHOOSE d \in tightens : \A e \in tightens : Rank[d] <= Rank[e]
             loose  == CHOOSE d \in relaxes : \A e \in relaxes : Rank[e] <= Rank[d]
             verdict == IF tightens # {} THEN strict ELSE loose
             fails == r.failure = "deny" \/ (r.failure = "require_approval" /\ base.decision = "allow")
             ignored == \/ tightens \cup relaxes = {}
                        \/ Stricter(base.decision, verdict) /\ base.decision # "require_approval"
                        \/ verdict = "warn" /\ base.decision # "allow"
  <1>1. /\ r.verdicts \in SUBSET Decisions
        /\ base.decision \in Verdicts
    BY DEF Request, IsVerdict
  <1>2. IsOutcome(base)
    BY DEF IsVerdict, IsOutcome, Verdicts, Decisions
  <1>3. tightens # {} => strict \in tightens
    BY <1>1, StrictestDecision
  <1>4. relaxes # {} => loose \in relaxes
    BY <1>1, StrictestDecision
  <1>5. y = IF fails THEN [base EXCEPT !.decision = r.failure, !.rule = "inspector"]
            ELSE IF ignored THEN base
            ELSE [base EXCEPT !.decision = verdict, !.rule = "inspector"]
    BY DEF Inspect
  <1> HIDE DEF y, strict, loose
  <1>6. CASE fails
    <2>1. r.failure \in {"deny", "require_approval"}
      BY <1>6
    <2>2. y = [base EXCEPT !.decision = r.failure, !.rule = "inspector"]
      BY <1>5, <1>6
    <2>3. IsOutcome(y) /\ y.decision = r.failure
      BY <1>2, <2>1, <2>2 DEF IsOutcome, Decisions
    <2> QED BY <1>6, <2>1, <2>3 DEF y
  <1>7. CASE ~fails /\ ignored
    <2>1. y = base
      BY <1>5, <1>7
    <2> QED BY <1>1, <1>2, <2>1 DEF y, Verdicts
  <1>8. CASE ~fails /\ ~ignored
    <2>1. y = [base EXCEPT !.decision = verdict, !.rule = "inspector"]
      BY <1>5, <1>8
    <2>2. verdict \in tightens \/ (tightens = {} /\ verdict \in relaxes)
      BY <1>3, <1>4, <1>8
    <2>3. /\ verdict \in r.verdicts /\ verdict \in Decisions
          /\ \/ Stricter(verdict, base.decision)
             \/ Stricter(base.decision, verdict)
      BY <1>1, <2>2
    <2> HIDE DEF verdict, tightens, relaxes
    <2>4. IsOutcome(y) /\ y.decision = verdict
      BY <1>2, <2>1, <2>3 DEF IsOutcome
    <2>5. base.decision \in {"deny", "override_required"} => verdict \in {"deny", "override_required"}
      BY <1>1, <1>8, <2>3 DEF Stricter, Rank, Verdicts, Decisions
    <2>6. verdict \in {"allow", "warn"} =>
            \/ base.decision = "allow"
            \/ base.decision = "require_approval" /\ "allow" \in r.verdicts
      BY <1>1, <1>8, <2>3 DEF Stricter, Rank, Verdicts, Decisions
    <2> QED BY <2>4, <2>5, <2>6 DEF y
  <1> QED BY <1>6, <1>7, <1>8

LEMMA ChokepointFacts ==
  ASSUME NEW r \in Request, NEW base, IsVerdict(base)
  PROVE  LET f == Chokepoint(r, base)
         IN  /\ f.decision \in Decisions
             /\ ~r.shadow /\ base.decision \in {"deny", "override_required"}
                  => f.decision \in {"deny", "override_required"}
             /\ ~r.shadow /\ f.decision \in {"allow", "warn"} =>
                  \/ base.decision = "allow"
                  \/ base.decision = "require_approval" /\ "allow" \in r.verdicts
  <1> DEFINE y == Inspect(r, base)
             z == ShadowRewrite(r, y)
             f == SourceFloor(r, z)
  <1>1. /\ IsOutcome(y)
        /\ base.decision \in {"deny", "override_required"} => y.decision \in {"deny", "override_required"}
        /\ y.decision \in {"allow", "warn"} =>
             \/ base.decision = "allow"
             \/ base.decision = "require_approval" /\ "allow" \in r.verdicts
    BY InspectFacts
  <1> HIDE DEF y
  <1>2. IsOutcome(z) /\ (~r.shadow => z = y)
    BY <1>1 DEF ShadowRewrite, IsOutcome, Decisions
  <1> HIDE DEF z
  <1>3. f.decision \in Decisions /\ (f.decision = "deny" \/ f = z)
    BY <1>2 DEF SourceFloor, IsOutcome, Decisions
  <1>4. f = Chokepoint(r, base)
    BY DEF Chokepoint, y, z
  <1> QED BY <1>1, <1>2, <1>3, <1>4

-----------------------------------------------------------------------------
\* The invariant.

LEMMA DecideIsVerdict ==
  ASSUME NEW r \in Request, NEW x \in Decide(r)
  PROVE  IsVerdict(x)
  <1>1. CASE Refused(r)
    <2>1. x = Result(Refusal(r).decision, Refusal(r).rule, FALSE)
      BY <1>1 DEF Decide
    <2>2. Refusal(r).decision \in Verdicts
      BY <1>1, RefusalForbids DEF Verdicts
    <2> QED BY <2>1, <2>2, ResultIsVerdict
  <1>2. CASE ~Refused(r)
    <2>1. PICK legacy \in DecideLegacy(r), envelope \in EnvelopeOutcomes(r) : x = Compose(r, legacy, envelope)
      BY <1>2 DEF Decide
    <2> QED BY <2>1, ComposeFacts
  <1> QED BY <1>1, <1>2

LEMMA GrantedIsVerdict == IsVerdict(Granted) /\ Granted.decision = "allow" /\ Granted.rule = "override-grant-active"
  BY DEF Granted, Result, IsVerdict, Verdicts

LEMMA RedispatchIsFresh ==
  ASSUME NEW r \in Request, NEW id \in CapIds, NEW holding \in SUBSET r.rules,
         NEW binding \in {"none", "bound", "unbound"}
  PROVE  Redispatch(r, id, binding, holding) \in Request /\ Fresh(Redispatch(r, id, binding, holding))
  <1> DEFINE c == [id |-> id, parent |-> None, matches |-> TRUE, expired |-> FALSE,
                   exhausted |-> FALSE, prior |-> FALSE, destructive |-> r.kind \in Destructive]
             rules == {[u EXCEPT !.holds = u \in holding] : u \in r.rules}
             s == Redispatch(r, id, binding, holding)
  <1>1. c \in Capability
    BY DEF Capability
  <1>2. rules \in SUBSET Rule
    <2>1. \A u \in Rule, b \in BOOLEAN : [u EXCEPT !.holds = b] \in Rule
      BY DEF Rule
    <2>2. \A u \in r.rules : u \in Rule /\ (u \in holding) \in BOOLEAN
      BY DEF Request
    <2> QED BY <2>1, <2>2
  <1>3. "principal" \in Levels
    BY DEF Levels, IntegrityRank
  <1>4. s = [r EXCEPT !.a = {}, !.b = {"principal"}, !.binding = binding, !.caps = {c},
                      !.revoked = {}, !.escalation = FALSE, !.firstUse = FALSE, !.orphan = FALSE,
                      !.rules = rules, !.shadow = FALSE, !.approved = TRUE]
    BY DEF Redispatch
  <1>5. /\ c.matches /\ ~c.expired /\ ~c.exhausted
        /\ c.destructive <=> r.kind \in Destructive
    BY Zenon
  <1> HIDE DEF c, rules, s
  <1> DEFINE q1 == [r EXCEPT !.a = {}]
             q2 == [q1 EXCEPT !.b = {"principal"}]
             q3 == [q2 EXCEPT !.binding = binding]
             q4 == [q3 EXCEPT !.caps = {c}]
             q5 == [q4 EXCEPT !.revoked = {}]
             q6 == [q5 EXCEPT !.escalation = FALSE]
             q7 == [q6 EXCEPT !.firstUse = FALSE]
             q8 == [q7 EXCEPT !.orphan = FALSE]
             q9 == [q8 EXCEPT !.rules = rules]
             q10 == [q9 EXCEPT !.shadow = FALSE]
             q11 == [q10 EXCEPT !.approved = TRUE]
  <1>6. /\ {} \in SUBSET Tag /\ {"principal"} \in SUBSET Levels
        /\ {c} \in SUBSET Capability /\ {} \in SUBSET CapIds
    BY <1>1, <1>3
  <1>7. s = q11
    BY <1>4, Zenon
  <1>8. /\ s \in Request
        /\ s.a = {} /\ s.b = {"principal"} /\ s.caps = {c} /\ s.kind = r.kind /\ ~s.firstUse
    <2>1. q1 \in Request /\ q1.kind = r.kind /\ q1.a = {}
      BY <1>2, <1>6 DEF Request
    <2> HIDE DEF q1
    <2>2. q2 \in Request /\ q2.kind = r.kind /\ q2.a = {} /\ q2.b = {"principal"}
      BY <1>2, <1>6, <2>1 DEF Request
    <2> HIDE DEF q2
    <2>3. q3 \in Request /\ q3.kind = r.kind /\ q3.a = {} /\ q3.b = {"principal"}
      BY <1>2, <1>6, <2>2 DEF Request
    <2> HIDE DEF q3
    <2>4. q4 \in Request /\ q4.kind = r.kind /\ q4.a = {} /\ q4.b = {"principal"} /\ q4.caps = {c}
      BY <1>2, <1>6, <2>3 DEF Request
    <2> HIDE DEF q4
    <2>5. q5 \in Request /\ q5.kind = r.kind /\ q5.a = {} /\ q5.b = {"principal"} /\ q5.caps = {c}
      BY <1>2, <1>6, <2>4 DEF Request
    <2> HIDE DEF q5
    <2>6. q6 \in Request /\ q6.kind = r.kind /\ q6.a = {} /\ q6.b = {"principal"} /\ q6.caps = {c}
      <3>1. FALSE \in BOOLEAN
        OBVIOUS
      <3>2. q6 \in Request
        BY <2>5, <3>1 DEF Request
      <3> QED BY <2>5, <3>2 DEF Request
    <2> HIDE DEF q6
    <2>7. q7 \in Request /\ q7.kind = r.kind /\ q7.a = {} /\ q7.b = {"principal"} /\ q7.caps = {c} /\ ~q7.firstUse
      <3>1. q7 \in Request
        BY <2>6 DEF Request
      <3>2. q7.kind = r.kind /\ q7.a = {} /\ q7.b = {"principal"} /\ q7.caps = {c}
        BY <2>6 DEF Request
      <3>3. ~q7.firstUse
        BY <2>6 DEF Request
      <3> QED BY <3>1, <3>2, <3>3
    <2> HIDE DEF q7
    <2>8. q8 \in Request /\ q8.kind = r.kind /\ q8.a = {} /\ q8.b = {"principal"} /\ q8.caps = {c} /\ ~q8.firstUse
      BY <1>2, <1>6, <2>7, ZenonT(30) DEF Request
    <2> HIDE DEF q8
    <2>9. q9 \in Request /\ q9.kind = r.kind /\ q9.a = {} /\ q9.b = {"principal"} /\ q9.caps = {c} /\ ~q9.firstUse
      BY <1>2, <1>6, <2>8 DEF Request
    <2> HIDE DEF q9
    <2>10. q10 \in Request /\ q10.kind = r.kind /\ q10.a = {} /\ q10.b = {"principal"} /\ q10.caps = {c} /\ ~q10.firstUse
      BY <1>2, <1>6, <2>9, ZenonT(30) DEF Request
    <2> HIDE DEF q10
    <2>11. q11 \in Request /\ q11.kind = r.kind /\ q11.a = {} /\ q11.b = {"principal"} /\ q11.caps = {c} /\ ~q11.firstUse
      BY <1>2, <1>6, <2>10 DEF Request
    <2> QED BY <1>7, <2>11
  <1>9. Fresh(s)
    BY <1>5, <1>8 DEF Fresh
  <1> QED BY <1>8, <1>9 DEF s

LEMMA InvHolds == Spec => []IInv
  <1>1. Init => IInv
    <2> SUFFICES ASSUME Init PROVE IInv
      OBVIOUS
    <2>1. request \in Request /\ ~request.approved
      BY RequestsAreTyped DEF Init
    <2>2. engine.decision = "deny" /\ final.decision = "deny" /\ phase = "asked" /\ grant \in BOOLEAN
      BY DEF Init, Result
    <2> QED BY <2>1, <2>2 DEF IInv, TypeOK, Provenance, Decisions
  <1>2. IInv /\ [Next]_vars => IInv'
    <2> SUFFICES ASSUME IInv, [Next]_vars PROVE IInv'
      OBVIOUS
    <2>1. CASE CallTool
      <3>1. PICK base \in IF grant THEN {Granted} ELSE Decide(request) :
              engine' = base /\ final' = Chokepoint(request, base)
        BY <2>1 DEF CallTool, Granted
      <3>2. base = Granted \/ base \in Decide(request)
        BY <3>1
      <3>3. request \in Request /\ request' = request /\ grant' = FALSE /\ phase' = "decided"
        BY <2>1 DEF CallTool, IInv, TypeOK
      <3>4. IsVerdict(base)
        BY <3>2, <3>3, DecideIsVerdict, GrantedIsVerdict
      <3>5. final'.decision \in Decisions
        BY <3>1, <3>3, <3>4, ChokepointFacts
      <3>6. engine'.decision \in Decisions
        BY <3>1, <3>4 DEF IsVerdict, Verdicts, Decisions
      <3>7. TypeOK'
        BY <3>3, <3>5, <3>6 DEF TypeOK
      <3>8. request.approved => Fresh(request)
        BY DEF IInv, Provenance
      <3>9. Provenance'
        BY <3>1, <3>2, <3>3, <3>8 DEF Provenance
      <3> QED BY <3>7, <3>9 DEF IInv
    <2>2. CASE Retry
      BY <2>2 DEF Retry, IInv, TypeOK, Provenance
    <2>3. CASE Approve
      <3>1. PICK id \in CapIds, binding \in {request.binding, "unbound"}, holding \in SUBSET request.rules :
              request' = Redispatch(request, id, binding, holding)
        BY <2>3 DEF Approve
      <3>2. request \in Request /\ request.binding \in {"none", "bound", "unbound"}
        BY DEF IInv, TypeOK, Request
      <3>3. request' \in Request /\ Fresh(request')
        BY <3>1, <3>2, RedispatchIsFresh
      <3>4. phase' = "asked" /\ grant' = FALSE /\ engine' = engine /\ final' = final
        BY <2>3 DEF Approve
      <3> QED BY <3>3, <3>4 DEF IInv, TypeOK, Provenance
    <2>4. CASE UNCHANGED vars
      BY <2>4 DEF vars, IInv, TypeOK, Provenance
    <2> QED BY <2>1, <2>2, <2>3, <2>4 DEF Next
  <1> QED BY <1>1, <1>2, PTL DEF Spec

-----------------------------------------------------------------------------
\* The properties.

\* Every state of the model is well typed: what a re-dispatch makes of a request is a
\* request, and decide() and the stages of _call_tool always come to a decision.
THEOREM TypeCorrect == Spec => []TypeOK
  <1>1. IInv => TypeOK
    BY DEF IInv
  <1> QED BY <1>1, InvHolds, PTL

\* Whatever the rules, dials, inspectors, approvals and capabilities are, nothing gets
\* past a floor that no ratified rule of the operator names.
THEOREM FloorsHoldAlways == Spec => []FloorsHold
  <1>1. IInv => FloorsHold
    <2> SUFFICES ASSUME IInv, phase = "decided", ~Overridden, request.kind \in Egress,
                        \/ "untrusted" \in request.b
                        \/ "health" \in CategoriesOf(request) /\ "health-meets-egress" \notin Crossed
                        \/ /\ "financial" \in CategoriesOf(request) /\ request.kind # "purchase"
                           /\ Crossed = {}
                 PROVE  /\ engine.decision \in {"deny", "override_required"}
                        /\ ~request.shadow => final.decision \in {"deny", "override_required"}
      BY DEF FloorsHold
    <2>1. request \in Request /\ engine \in Decide(request) /\ final = Chokepoint(request, engine)
      BY GrantedIsVerdict DEF IInv, TypeOK, Provenance, Overridden
    <2>2. engine.decision \in {"deny", "override_required"}
      <3>1. CASE Refused(request)
        <4>1. engine = Result(Refusal(request).decision, Refusal(request).rule, FALSE)
          BY <2>1, <3>1 DEF Decide
        <4> QED BY <3>1, <4>1, RefusalForbids DEF Result
      <3>2. CASE ~Refused(request)
        <4>1. PICK legacy \in DecideLegacy(request), envelope \in EnvelopeOutcomes(request) :
                engine = Compose(request, legacy, envelope)
          BY <2>1, <3>2 DEF Decide
        <4> DEFINE floor == ConflictInvariantOutcome(request)
        <4>2. /\ floor.decision = "deny"
              /\ floor.rule \notin Crossed \/ floor.rule = "untrusted-meets-egress"
          BY DEF ConflictInvariantOutcome, Gate
        <4>3. Crossed = IF HasRules(request) THEN Evaluate(request).crossed ELSE {}
          BY DEF Crossed
        <4> HIDE DEF floor
        <4>4. engine.decision = "deny"
          BY <2>1, <4>1, <4>2, <4>3, ComposeFacts DEF floor
        <4> QED BY <4>4
      <3> QED BY <3>1, <3>2
    <2>3. IsVerdict(engine)
      BY <2>1, DecideIsVerdict
    <2> QED BY <2>1, <2>2, <2>3, ChokepointFacts
  <1> QED BY <1>1, InvHolds, PTL

\* The composition is a meet: the verdict is exactly the strictest of what the legs ask
\* for, once the approvals that the three carve-outs are for have been taken away.
THEOREM MostRestrictiveWinsAlways == Spec => []MostRestrictiveWins
  <1>1. IInv => MostRestrictiveWins
    <2> SUFFICES ASSUME IInv, phase = "decided", ~Overridden, ~Refused(request)
                 PROVE  \E legacy \in DecideLegacy(request), envelope \in EnvelopeOutcomes(request) :
                          Strictest(engine, Demands(request, legacy, envelope))
      BY DEF MostRestrictiveWins, Strictest
    <2>1. request \in Request /\ engine \in Decide(request)
      BY GrantedIsVerdict DEF IInv, TypeOK, Provenance, Overridden
    <2>2. PICK legacy \in DecideLegacy(request), envelope \in EnvelopeOutcomes(request) :
            engine = Compose(request, legacy, envelope)
      BY <2>1 DEF Decide
    <2>3. Strictest(engine, Demands(request, legacy, envelope))
      BY <2>1, <2>2, ComposeFacts
    <2> QED BY <2>3
  <1> QED BY <1>1, InvHolds, PTL

\* Nothing runs without the authority of a live capability, but for the approval that
\* the capability itself asked for and that was really lifted.
THEOREM AllowIsBackedAlways == Spec => []AllowIsBacked
  <1>1. IInv => AllowIsBacked
    <2> SUFFICES ASSUME IInv, phase = "decided", ~Overridden, ~request.shadow,
                        final.decision \in {"allow", "warn"}
                 PROVE  \E c \in request.caps :
                          /\ c.matches /\ ~c.expired
                          /\ \/ /\ ~c.exhausted /\ ~IsCascadedInert(request, c) /\ ~c.prior
                                /\ request.kind \in Destructive /\ ~c.destructive => ApprovalLifted
                             \/ c.exhausted /\ request.escalation /\ ApprovalLifted
      BY DEF AllowIsBacked
    <2>1. request \in Request /\ engine \in Decide(request) /\ final = Chokepoint(request, engine)
      BY GrantedIsVerdict DEF IInv, TypeOK, Provenance, Overridden
    <2>2. IsVerdict(engine)
      BY <2>1, DecideIsVerdict
    <2>3. engine.decision = "allow" \/ engine.decision = "require_approval"
      BY <2>1, <2>2, ChokepointFacts
    <2>4. ~Refused(request)
      <3> SUFFICES ASSUME Refused(request) PROVE FALSE
        OBVIOUS
      <3>1. engine = Result(Refusal(request).decision, Refusal(request).rule, FALSE)
        BY <2>1 DEF Decide
      <3> QED BY <2>3, <3>1, RefusalForbids DEF Result
    <2>5. PICK legacy \in DecideLegacy(request), envelope \in EnvelopeOutcomes(request) :
            engine = Compose(request, legacy, envelope)
      BY <2>1, <2>4 DEF Decide
    <2>6. /\ legacy.decision # "deny"
          /\ engine.decision = "allow" => legacy.decision = "allow" \/ engine.rule = "optimistic-auto"
      BY <2>1, <2>3, <2>5, ComposeFacts
    <2>7. /\ legacy.decision \in {"allow", "require_approval"}
          /\ legacy.decision = "require_approval" => \E c \in request.caps : MayAsk(request, c)
          /\ legacy.decision = "allow" =>
               \E c \in request.caps : Live(request, c) /\ (request.kind \in Destructive => c.destructive)
      BY <2>1, <2>6, LegacyIsBacked DEF IsVerdict, Verdicts
    <2>8. CASE legacy.decision = "allow"
      BY <2>7, <2>8 DEF Live
    <2>9. CASE legacy.decision = "require_approval"
      <3>1. ApprovalLifted
        BY <2>3, <2>6, <2>9 DEF ApprovalLifted
      <3> QED BY <2>7, <2>9, <3>1 DEF MayAsk, Live
    <2> QED BY <2>7, <2>8, <2>9
  <1> QED BY <1>1, InvHolds, PTL

\* No approved action is sent back to the approver by the engine.
THEOREM ApprovalIsNotAskedAgainAlways == Spec => []ApprovalIsNotAskedAgain
  <1>1. IInv => ApprovalIsNotAskedAgain
    <2> SUFFICES ASSUME IInv, phase = "decided", request.approved,
                        request.effect = None \/ request.rulesWired
                 PROVE  engine.decision # "require_approval"
      BY DEF ApprovalIsNotAskedAgain
    <2>1. /\ request \in Request /\ Fresh(request)
          /\ engine = Granted \/ engine \in Decide(request)
      BY DEF IInv, TypeOK, Provenance
    <2>2. CASE engine = Granted
      BY <2>2, GrantedIsVerdict
    <2>3. CASE engine \in Decide(request) /\ Refused(request)
      <3>1. engine = Result(Refusal(request).decision, Refusal(request).rule, FALSE)
        BY <2>3 DEF Decide
      <3> QED BY <2>3, <3>1, RefusalForbids DEF Result
    <2>4. CASE engine \in Decide(request) /\ ~Refused(request)
      <3>1. PICK legacy \in DecideLegacy(request), envelope \in EnvelopeOutcomes(request) :
              engine = Compose(request, legacy, envelope)
        BY <2>4 DEF Decide
      <3>2. legacy.decision # "require_approval"
        <4>1. PICK c \in request.caps : /\ request.caps = {c} /\ c.matches /\ ~c.expired /\ ~c.exhausted
                                        /\ request.kind \in Destructive => c.destructive
          BY <2>1 DEF Fresh
        <4>2. Usable(request) = {c}
          BY <4>1 DEF Usable
        <4>3. legacy = WithCapability(request, c)
          BY <4>2 DEF DecideLegacy
        <4>4. CASE IsCascadedInert(request, c)
          BY <4>3, <4>4 DEF WithCapability, Result
        <4>5. CASE ~IsCascadedInert(request, c)
          BY <4>1, <4>3, <4>5 DEF WithCapability, Result
        <4> QED BY <4>4, <4>5
      <3>3. CategoriesOf(request) = {} /\ request.a = {} /\ "untrusted" \notin request.b /\ ~request.firstUse
        BY <2>1 DEF Fresh, CategoriesOf
      <3>4. /\ ConflictInvariantOutcome(request).decision = "allow"
            /\ FetchUrlEgressOutcome(request).decision = "allow"
        BY <3>3, NoGateIsLeg DEF ConflictInvariantOutcome, FetchUrlEgressOutcome
      <3>5. HasRules(request) \/ request.effect = None
        BY DEF HasRules
      <3> QED BY <2>1, <3>1, <3>2, <3>3, <3>4, <3>5, ComposeFacts
    <2> QED BY <2>1, <2>2, <2>3, <2>4
  <1> QED BY <1>1, InvHolds, PTL
-----------------------------------------------------------------------------
\* Two decisions compared: what an approval, a revocation and a taint can change.

\* The parts of a decision depend on the fields they read.
LEMMA SameCapabilities ==
  ASSUME NEW r, NEW s, s.caps = r.caps, s.kind = r.kind, s.escalation = r.escalation
  PROVE  /\ Usable(s) = Usable(r)
         /\ WithoutCapability(s) = WithoutCapability(r)
         /\ \A c : Chain(s, c) = Chain(r, c)
  <1>1. Usable(s) = Usable(r)
    BY Zenon DEF Usable
  <1>2. WithoutCapability(s) = WithoutCapability(r)
    BY Zenon DEF WithoutCapability
  <1>3. \A c : Chain(s, c) = Chain(r, c)
    <2> DEFINE within(caps, c) ==
          LET up[n \in 0 .. Cardinality(caps)] ==
                IF n = 0 THEN {c} ELSE {p \in caps : \E k \in up[n - 1] : k.parent = p.id}
          IN  UNION {up[n] : n \in 0 .. Cardinality(caps)}
    <2> SUFFICES ASSUME NEW c PROVE Chain(s, c) = Chain(r, c)
      OBVIOUS
    <2>1. Chain(s, c) = within(s.caps, c) /\ Chain(r, c) = within(r.caps, c)
      BY DEF Chain
    <2> HIDE DEF within
    <2> QED BY <2>1
  <1> QED BY <1>1, <1>2, <1>3

LEMMA SameLegacy ==
  ASSUME NEW r, NEW s, s.caps = r.caps, s.kind = r.kind, s.escalation = r.escalation,
         s.revoked = r.revoked
  PROVE  DecideLegacy(s) = DecideLegacy(r)
  <1>1. \A c : IsCascadedInert(s, c) = IsCascadedInert(r, c)
    BY SameCapabilities, Zenon DEF IsCascadedInert
  <1>2. \A c : WithCapability(s, c) = WithCapability(r, c)
    BY <1>1, Zenon DEF WithCapability
  <1> QED BY <1>2, SameCapabilities, Zenon DEF DecideLegacy

LEMMA SameRules ==
  ASSUME NEW r, NEW s, s.a = r.a, s.rules = r.rules, s.default = r.default, s.personal = r.personal,
         s.effect = r.effect, s.rulesWired = r.rulesWired
  PROVE  /\ CategoriesOf(s) = CategoriesOf(r)
         /\ Evaluate(s) = Evaluate(r)
         /\ HasRules(s) = HasRules(r)
  <1>1. CategoriesOf(s) = CategoriesOf(r)
    BY Zenon DEF CategoriesOf
  <1>2. LiveRules(s) = LiveRules(r)
    BY <1>1, Zenon DEF LiveRules
  <1>3. Evaluate(s) = Evaluate(r)
    BY <1>2, Zenon DEF Evaluate
  <1>4. HasRules(s) = HasRules(r)
    BY Zenon DEF HasRules
  <1> QED BY <1>1, <1>3, <1>4

LEMMA SameGates ==
  ASSUME NEW r, NEW s, CategoriesOf(s) = CategoriesOf(r), s.a = r.a, s.kind = r.kind,
         s.effect = r.effect, s.rev = r.rev, s.binding = r.binding, s.super = r.super,
         s.superTiers = r.superTiers, s.dial = r.dial, s.envelopes = r.envelopes
  PROVE  /\ ReversibilityOutcome(s) = ReversibilityOutcome(r)
         /\ FetchUrlEgressOutcome(s) = FetchUrlEgressOutcome(r)
         /\ EnvelopeOutcomes(s) = EnvelopeOutcomes(r)
  <1>1. EgressNeedsOverride(s) = EgressNeedsOverride(r)
    BY Zenon DEF EgressNeedsOverride
  <1>2. ReversibilityOutcome(s) = ReversibilityOutcome(r)
    BY <1>1, Zenon DEF ReversibilityOutcome
  <1>3. FetchUrlEgressOutcome(s) = FetchUrlEgressOutcome(r)
    BY Zenon DEF FetchUrlEgressOutcome
  <1>4. EnvelopeOutcomes(s) = EnvelopeOutcomes(r)
    BY Zenon DEF EnvelopeOutcomes
  <1> QED BY <1>2, <1>3, <1>4

LEMMA SameRefusals ==
  ASSUME NEW r, NEW s, s.a = r.a, s.b = r.b, s.binding = r.binding, s.effect = r.effect,
         s.wired = r.wired, s.orphan = r.orphan, s.clearance = r.clearance,
         s.integrity = r.integrity, s.refused = r.refused
  PROVE  Refused(s) = Refused(r) /\ Refusal(s) = Refusal(r)
  <1>1. Refusals(s) = Refusals(r)
    BY ZenonT(30) DEF Refusals
  <1> QED BY <1>1, Zenon DEF Refused, Refusal

LEMMA DecideIsTotal ==
  ASSUME NEW r \in Request
  PROVE  \E y \in Decide(r) : y.decision \in Verdicts
  <1>1. DecideLegacy(r) # {}
    BY DEF DecideLegacy
  <1>2. EnvelopeOutcomes(r) # {}
    <2>1. r.a # {} => CategoriesOf(r) # {}
      BY DEF CategoriesOf
    <2> QED BY <2>1 DEF EnvelopeOutcomes
  <1>3. Decide(r) # {}
    <2>1. CASE Refused(r)
      <3>1. Decide(r) = {Result(Refusal(r).decision, Refusal(r).rule, FALSE)}
        BY <2>1 DEF Decide
      <3> QED BY <3>1, Zenon
    <2>2. CASE ~Refused(r)
      <3>1. PICK legacy \in DecideLegacy(r), envelope \in EnvelopeOutcomes(r) : TRUE
        BY <1>1, <1>2
      <3>2. Compose(r, legacy, envelope) \in Decide(r)
        BY <2>2, <3>1 DEF Decide
      <3> QED BY <3>2
    <2> QED BY <2>1, <2>2
  <1> QED BY <1>3, DecideIsVerdict DEF IsVerdict

\* x is y, except that a required approval may have been lifted.
Lifts(x, y) ==
  /\ IsVerdict(x) /\ IsVerdict(y) /\ x.v2 = y.v2
  /\ \/ x.decision = y.decision
     \/ x.decision = "allow" /\ y.decision = "require_approval"

LEMMA RatchetLifts ==
  ASSUME NEW x, NEW y, NEW gate, IsLeg(gate), Lifts(x, y)
  PROVE  Lifts(Ratchet(x, gate), Ratchet(y, gate))
  <1> DEFINE p == Ratchet(x, gate)
             q == Ratchet(y, gate)
  <1>1. /\ IsVerdict(p) /\ p.v2 = x.v2
        /\ p.decision = x.decision \/ p.decision = gate.decision
        /\ Rank[p.decision] <= Rank[x.decision] /\ Rank[p.decision] <= Rank[gate.decision]
        /\ IsVerdict(q) /\ q.v2 = y.v2
        /\ q.decision = y.decision \/ q.decision = gate.decision
        /\ Rank[q.decision] <= Rank[y.decision] /\ Rank[q.decision] <= Rank[gate.decision]
    BY RatchetIsMinimum DEF Lifts
  <1>2. x.decision \in Verdicts /\ y.decision \in Verdicts /\ gate.decision \in Verdicts
    BY DEF Lifts, IsVerdict, IsLeg
  <1> HIDE DEF p, q
  <1>3. \/ p.decision = q.decision
        \/ p.decision = "allow" /\ q.decision = "require_approval"
    BY <1>1, <1>2 DEF Lifts, Rank, Verdicts
  <1>4. p.v2 = q.v2
    BY <1>1 DEF Lifts
  <1>5. Lifts(p, q)
    BY <1>1, <1>3, <1>4 DEF Lifts
  <1> QED BY <1>5 DEF p, q

LEMMA LiftIsReflexive ==
  ASSUME NEW x, IsVerdict(x)
  PROVE  Lifts(x, x)
  BY DEF Lifts

\* A gate that asks for an approval meets a verdict that allows.
LEMMA KeptLifts ==
  ASSUME NEW x, NEW y, NEW gate, IsLeg(gate), Lifts(x, y),
         x.decision = "allow", gate.decision = "require_approval"
  PROVE  Lifts(x, Ratchet(y, gate))
  <1> DEFINE q == Ratchet(y, gate)
  <1>1. /\ IsVerdict(q) /\ q.v2 = y.v2
        /\ q.decision = y.decision \/ q.decision = gate.decision
        /\ Rank[q.decision] <= Rank[gate.decision]
    BY RatchetIsMinimum DEF Lifts
  <1>2. y.decision \in {"allow", "require_approval"}
    BY DEF Lifts
  <1> HIDE DEF q
  <1>3. q.decision = "require_approval"
    BY <1>1, <1>2 DEF Rank
  <1>4. Lifts(x, q)
    BY <1>1, <1>3 DEF Lifts
  <1> QED BY <1>4 DEF q

LEMMA RulesLift ==
  ASSUME NEW legacy, NEW v2, NEW approved \in BOOLEAN, NEW standing \in BOOLEAN,
         IsVerdict(legacy), v2.outcome \in RuleOutcomes
  PROVE  Lifts(ComposeWithV2(legacy, v2, approved, standing), ComposeWithV2(legacy, v2, FALSE, standing))
  <1> DEFINE gate == Gate(ToLegacy[v2.outcome], "v2")
             default == standing /\ v2.outcome = "suggest" /\ ~v2.matched
             kept(p) == /\ legacy.decision = "allow"
                        /\ default \/ (p /\ ToLegacy[v2.outcome] = "require_approval")
             ruled(p) == IF kept(p) THEN legacy ELSE Ratchet(legacy, gate)
  <1>1. IsLeg(gate) /\ gate.decision = ToLegacy[v2.outcome]
    BY LegacyIsVerdict, GateIsLeg
  <1>2. ComposeWithV2(legacy, v2, approved, standing) = [ruled(approved) EXCEPT !.v2 = v2.outcome]
    BY DEF ComposeWithV2
  <1>3. ComposeWithV2(legacy, v2, FALSE, standing) = [ruled(FALSE) EXCEPT !.v2 = v2.outcome]
    BY DEF ComposeWithV2
  <1>4. Lifts(legacy, legacy)
    BY LiftIsReflexive
  <1>5. Lifts(ruled(approved), ruled(FALSE))
    <2>1. CASE kept(approved) = kept(FALSE)
      <3>1. IsVerdict(Ratchet(legacy, gate))
        BY <1>1, RatchetIsMinimum
      <3> QED BY <2>1, <3>1, LiftIsReflexive
    <2>2. CASE kept(approved) # kept(FALSE)
      <3>1. kept(approved) /\ ~kept(FALSE)
        BY <2>2
      <3>2. legacy.decision = "allow" /\ gate.decision = "require_approval"
        BY <1>1, <3>1
      <3>3. Lifts(legacy, Ratchet(legacy, gate))
        BY <1>1, <1>4, <3>2, KeptLifts
      <3> QED BY <3>1, <3>3
    <2> QED BY <2>1, <2>2
  <1> DEFINE u == ruled(approved)
             w == ruled(FALSE)
             x == [u EXCEPT !.v2 = v2.outcome]
             y == [w EXCEPT !.v2 = v2.outcome]
  <1>6. IsVerdict(u) /\ IsVerdict(w)
    BY <1>5 DEF Lifts
  <1>7. /\ u.decision = w.decision \/ (u.decision = "allow" /\ w.decision = "require_approval")
    BY <1>5 DEF Lifts
  <1> HIDE DEF u, w
  <1>8. IsVerdict(x) /\ x.decision = u.decision /\ x.v2 = v2.outcome
    BY <1>6 DEF IsVerdict
  <1>9. IsVerdict(y) /\ y.decision = w.decision /\ y.v2 = v2.outcome
    BY <1>6 DEF IsVerdict
  <1> HIDE DEF x, y
  <1>10. Lifts(x, y)
    BY <1>7, <1>8, <1>9 DEF Lifts
  <1> QED BY <1>2, <1>3, <1>10 DEF x, y, u, w

LEMMA ReversibilityLifts ==
  ASSUME NEW x, NEW y, NEW gate, NEW approved \in BOOLEAN, NEW standing \in BOOLEAN,
         IsLeg(gate), Lifts(x, y), gate.rule = "optimistic-auto" => gate.decision = "allow"
  PROVE  Lifts(ComposeWithReversibility(x, gate, approved, standing),
               ComposeWithReversibility(y, gate, FALSE, standing))
  <1> DEFINE kept(v, p) == /\ v.decision = "allow"
                           /\ gate.decision = "require_approval"
                           /\ p \/ (standing /\ gate.rule = "reversibility-requires-approval")
             lifted(v) == /\ gate.rule = "optimistic-auto"
                          /\ v.decision = "require_approval"
                          /\ v.v2 = "suggest"
             auto(v) == [v EXCEPT !.decision = "allow", !.rule = gate.rule]
             after(v, p) == IF kept(v, p) THEN v ELSE IF lifted(v) THEN auto(v) ELSE Ratchet(v, gate)
  <1>1. /\ ComposeWithReversibility(x, gate, approved, standing) = after(x, approved)
        /\ ComposeWithReversibility(y, gate, FALSE, standing) = after(y, FALSE)
    BY DEF ComposeWithReversibility
  <1>2. Lifts(Ratchet(x, gate), Ratchet(y, gate))
    BY RatchetLifts
  <1>7. ASSUME NEW v, IsVerdict(v)
        PROVE  IsVerdict(auto(v)) /\ auto(v).decision = "allow" /\ auto(v).v2 = v.v2
    <2>1. PICK w : w = auto(v)
      OBVIOUS
    <2>2. IsVerdict(w) /\ w.decision = "allow" /\ w.v2 = v.v2
      BY <1>7, <2>1 DEF IsVerdict, Verdicts
    <2> QED BY <2>1, <2>2
  <1>3. CASE kept(x, approved)
    <2>1. ~lifted(y)
      BY <1>3
    <2>2. Lifts(x, Ratchet(y, gate))
      BY <1>3, KeptLifts
    <2> QED BY <1>1, <1>3, <2>1, <2>2
  <1>4. CASE ~kept(x, approved) /\ lifted(x)
    <2>1. gate.decision = "allow" /\ y.decision = "require_approval" /\ y.v2 = "suggest" /\ ~kept(y, FALSE)
      BY <1>4 DEF Lifts
    <2>2. lifted(y)
      BY <1>4, <2>1
    <2>3. Lifts(auto(x), auto(y))
      <3> HIDE DEF auto
      <3> QED BY <1>7 DEF Lifts
    <2> QED BY <1>1, <1>4, <2>1, <2>2, <2>3
  <1>5. CASE ~kept(x, approved) /\ ~lifted(x) /\ lifted(y)
    <2>1. x.decision = "allow" /\ gate.decision = "allow" /\ ~kept(y, FALSE)
      BY <1>5 DEF Lifts
    <2>2. Ratchet(x, gate) = x
      BY <2>1 DEF Ratchet, Stricter, Rank
    <2>3. Lifts(x, auto(y))
      <3> HIDE DEF auto
      <3> QED BY <1>7, <2>1 DEF Lifts
    <2> QED BY <1>1, <1>5, <2>1, <2>2, <2>3
  <1>6. CASE ~kept(x, approved) /\ ~lifted(x) /\ ~lifted(y)
    <2>1. CASE kept(y, FALSE)
      <3>1. x.decision = "allow"
        BY <2>1 DEF Lifts
      <3> QED BY <1>6, <2>1, <3>1
    <2>2. CASE ~kept(y, FALSE)
      BY <1>1, <1>2, <1>6, <2>2
    <2> QED BY <2>1, <2>2
  <1> QED BY <1>3, <1>4, <1>5, <1>6

LEMMA EnvelopeLifts ==
  ASSUME NEW x, NEW y, NEW gate, NEW approved \in BOOLEAN, IsLeg(gate), Lifts(x, y)
  PROVE  Lifts(ComposeWithEnvelope(x, gate, approved), ComposeWithEnvelope(y, gate, FALSE))
  <1>1. ComposeWithEnvelope(y, gate, FALSE) = Ratchet(y, gate)
    BY DEF ComposeWithEnvelope
  <1>2. CASE approved /\ x.decision = "allow" /\ gate.decision = "require_approval"
    <2>1. ComposeWithEnvelope(x, gate, approved) = x
      BY <1>2 DEF ComposeWithEnvelope
    <2> QED BY <1>1, <1>2, <2>1, KeptLifts
  <1>3. CASE ~(approved /\ x.decision = "allow" /\ gate.decision = "require_approval")
    <2>1. ComposeWithEnvelope(x, gate, approved) = Ratchet(x, gate)
      BY <1>3 DEF ComposeWithEnvelope
    <2> QED BY <1>1, <2>1, RatchetLifts
  <1> QED BY <1>2, <1>3

LEMMA ComposeLifts ==
  ASSUME NEW r \in Request, NEW s, s = [r EXCEPT !.approved = TRUE], ~r.approved,
         NEW legacy \in DecideLegacy(r), NEW envelope \in EnvelopeOutcomes(r)
  PROVE  Lifts(Compose(s, legacy, envelope), Compose(r, legacy, envelope))
  <1> DEFINE
        v2        == Evaluate(r)
        has       == HasRules(r)
        standing  == has /\ r.kind \in Destructive /\ legacy.decision = "allow" /\ legacy.destructive
        crossed   == IF has THEN v2.crossed ELSE {}
        reversal  == ReversibilityOutcome(r)
        floor     == ConflictInvariantOutcome(r)
        fetch     == FetchUrlEgressOutcome(r)
        ruled(p)  == IF has THEN ComposeWithV2(legacy, v2, p, standing) ELSE legacy
        weighed(p)  == ComposeWithReversibility(ruled(p), reversal, p, standing)
        dialled(p)  == ComposeWithEnvelope(weighed(p), envelope, p)
        confined(p) == ComposeWithConflictInvariant(dialled(p), floor, crossed)
        fetched(p)  == ComposeWithConflictInvariant(confined(p), fetch, crossed)
        first(x)    == MaybeFirstUseEscalation(r, x)
  <1>1. /\ s.kind = r.kind /\ s.effect = r.effect /\ s.rev = r.rev /\ s.binding = r.binding
        /\ s.a = r.a /\ s.b = r.b /\ s.super = r.super /\ s.superTiers = r.superTiers
        /\ s.dial = r.dial /\ s.envelopes = r.envelopes /\ s.rules = r.rules
        /\ s.default = r.default /\ s.personal = r.personal /\ s.rulesWired = r.rulesWired
        /\ s.firstUse = r.firstUse /\ s.approved /\ ~r.approved
    BY DEF Request
  <1>2. /\ Evaluate(s) = v2 /\ HasRules(s) = has /\ CategoriesOf(s) = CategoriesOf(r)
        /\ ReversibilityOutcome(s) = reversal /\ FetchUrlEgressOutcome(s) = fetch
    <2>1. Evaluate(s) = v2 /\ HasRules(s) = has /\ CategoriesOf(s) = CategoriesOf(r)
      BY <1>1, SameRules
    <2>2. ReversibilityOutcome(s) = reversal /\ FetchUrlEgressOutcome(s) = fetch
      BY <1>1, <2>1, SameGates
    <2> QED BY <2>1, <2>2
  <1>3. ConflictInvariantOutcome(s) = floor
    BY <1>1, <1>2, Zenon DEF ConflictInvariantOutcome
  <1>4. \A x : MaybeFirstUseEscalation(s, x) = first(x)
    BY <1>1, Zenon DEF MaybeFirstUseEscalation
  <1>5. has \in BOOLEAN
    BY DEF HasRules, Request
  <1>6. Compose(r, legacy, envelope) = first(fetched(FALSE))
    <2>1. (has /\ r.approved) = FALSE
      BY <1>1, <1>5
    <2> QED BY <2>1, Zenon DEF Compose
  <1>7. Compose(s, legacy, envelope) = first(fetched(has))
    <2>1. (has /\ s.approved) = has
      BY <1>1, <1>5
    <2> QED BY <1>1, <1>2, <1>3, <1>4, <2>1, Zenon DEF Compose
  <1>8. IsVerdict(legacy) /\ v2.outcome \in RuleOutcomes
    BY LegacyIsBacked, RulesDecide
  <1>9. IsLeg(reversal) /\ IsLeg(floor) /\ IsLeg(fetch) /\ IsLeg(envelope)
    BY FloorsAreLegs, EnvelopesAreLegs
  <1>10. reversal.rule = "optimistic-auto" => reversal.decision = "allow"
    BY DEF ReversibilityOutcome, Gate, NoGate
  <1>11. standing \in BOOLEAN
    BY <1>5
  <1> HIDE DEF v2, has, standing, crossed, reversal, floor, fetch
  <1>12. Lifts(ruled(has), ruled(FALSE))
    BY <1>5, <1>8, <1>11, RulesLift, LiftIsReflexive
  <1> HIDE DEF ruled
  <1>13. Lifts(weighed(has), weighed(FALSE))
    BY <1>5, <1>9, <1>10, <1>11, <1>12, ReversibilityLifts
  <1> HIDE DEF weighed
  <1>14. Lifts(dialled(has), dialled(FALSE))
    BY <1>5, <1>9, <1>13, EnvelopeLifts
  <1> HIDE DEF dialled
  <1>15. Lifts(confined(has), confined(FALSE))
    BY <1>9, <1>14, RatchetLifts DEF ComposeWithConflictInvariant
  <1> HIDE DEF confined
  <1>16. Lifts(fetched(has), fetched(FALSE))
    BY <1>9, <1>15, RatchetLifts DEF ComposeWithConflictInvariant
  <1> HIDE DEF fetched
  <1>17. ASSUME NEW x, NEW y, Lifts(x, y) PROVE Lifts(first(x), first(y))
    <2> DEFINE gate == Gate("require_approval", "first-use-of-kind")
               asks == r.firstUse /\ r.kind \in Promptable
    <2>1. IsLeg(gate) /\ gate.decision = "require_approval" /\ gate.rule = "first-use-of-kind"
      BY GateIsLeg DEF Verdicts
    <2>2. ASSUME NEW z, IsVerdict(z) PROVE first(z) = IF asks THEN Ratchet(z, gate) ELSE z
      <3>1. z.decision \in Verdicts
        BY <2>2 DEF IsVerdict
      <3>2. z.decision = "allow" <=> Stricter(gate.decision, z.decision)
        BY <2>1, <3>1 DEF Stricter, Rank, Verdicts
      <3> HIDE DEF gate
      <3> QED BY <2>1, <3>2 DEF MaybeFirstUseEscalation, Ratchet
    <2>3. IsVerdict(x) /\ IsVerdict(y)
      BY <1>17 DEF Lifts
    <2>4. Lifts(Ratchet(x, gate), Ratchet(y, gate))
      BY <1>17, <2>1, RatchetLifts
    <2> HIDE DEF first
    <2> QED BY <1>17, <2>2, <2>3, <2>4
  <1> HIDE DEF first
  <1> QED BY <1>6, <1>7, <1>16, <1>17

\* The operator's approval answers a question and nothing else: for every request, what
\* decide() says of the approved action it may say of the same action without the
\* approval, or that would have waited for one.  A denial and a required override stand
\* (already_approved, "DENY and OVERRIDE_REQUIRED still win").
THEOREM ApprovalLiftsOnlyApproval ==
  ASSUME NEW r \in Request, ~r.approved, NEW x \in Decide([r EXCEPT !.approved = TRUE])
  PROVE  \E y \in Decide(r) : \/ x.decision = y.decision
                              \/ x.decision = "allow" /\ y.decision = "require_approval"
  <1>1. PICK s : s = [r EXCEPT !.approved = TRUE]
    OBVIOUS
  <1>2. /\ s.kind = r.kind /\ s.effect = r.effect /\ s.rev = r.rev /\ s.binding = r.binding
        /\ s.a = r.a /\ s.b = r.b /\ s.super = r.super /\ s.superTiers = r.superTiers
        /\ s.dial = r.dial /\ s.envelopes = r.envelopes /\ s.caps = r.caps
        /\ s.revoked = r.revoked /\ s.escalation = r.escalation /\ s.wired = r.wired
        /\ s.orphan = r.orphan /\ s.clearance = r.clearance /\ s.integrity = r.integrity
        /\ s.refused = r.refused
    BY <1>1 DEF Request
  <1>3. Refused(s) = Refused(r) /\ Refusal(s) = Refusal(r)
    BY <1>2, SameRefusals
  <1>4. DecideLegacy(s) = DecideLegacy(r)
    BY <1>2, SameLegacy
  <1>5. EnvelopeOutcomes(s) = EnvelopeOutcomes(r)
    <2>1. CategoriesOf(s) = CategoriesOf(r)
      BY <1>2, Zenon DEF CategoriesOf
    <2> QED BY <1>2, <2>1, SameGates
  <1>8. x \in Decide(s)
    BY <1>1
  <1>6. CASE Refused(r)
    <2>1. Decide(s) = Decide(r)
      BY <1>3, <1>6 DEF Decide
    <2> QED BY <1>8, <2>1
  <1>7. CASE ~Refused(r)
    <2>1. PICK legacy \in DecideLegacy(r), envelope \in EnvelopeOutcomes(r) :
            x = Compose(s, legacy, envelope)
      <3>1. PICK legacy \in DecideLegacy(s), envelope \in EnvelopeOutcomes(s) :
              x = Compose(s, legacy, envelope)
        BY <1>3, <1>7, <1>8 DEF Decide
      <3> QED BY <1>4, <1>5, <3>1
    <2>2. Compose(r, legacy, envelope) \in Decide(r)
      BY <1>7 DEF Decide
    <2>3. Lifts(x, Compose(r, legacy, envelope))
      BY <1>1, <2>1, ComposeLifts
    <2> QED BY <2>2, <2>3 DEF Lifts
  <1> QED BY <1>6, <1>7

\* Whatever else a request asks for, revoking more capabilities never turns a decision
\* into a weaker one, through all composers and carve-outs.
THEOREM RevocationNeverLoosens ==
  ASSUME NEW r \in Request, NEW ids \in SUBSET CapIds,
         NEW x \in Decide([r EXCEPT !.revoked = r.revoked \cup ids])
  PROVE  \E y \in Decide(r) : Rank[x.decision] <= Rank[y.decision]
  <1>1. PICK s : s = [r EXCEPT !.revoked = r.revoked \cup ids]
    OBVIOUS
  <1>2. /\ s.kind = r.kind /\ s.effect = r.effect /\ s.rev = r.rev /\ s.binding = r.binding
        /\ s.a = r.a /\ s.b = r.b /\ s.super = r.super /\ s.superTiers = r.superTiers
        /\ s.dial = r.dial /\ s.envelopes = r.envelopes /\ s.caps = r.caps
        /\ s.escalation = r.escalation /\ s.wired = r.wired
        /\ s.orphan = r.orphan /\ s.clearance = r.clearance /\ s.integrity = r.integrity
        /\ s.refused = r.refused /\ s.rules = r.rules
        /\ s.default = r.default /\ s.personal = r.personal /\ s.rulesWired = r.rulesWired
        /\ s.firstUse = r.firstUse /\ s.approved = r.approved
        /\ s.revoked = r.revoked \cup ids
    BY <1>1 DEF Request
  <1>3. s \in Request
    BY <1>1 DEF Request
  <1>4. x \in Decide(s)
    BY <1>1
  <1>5. PICK any \in Decide(r) : any.decision \in Verdicts
    BY DecideIsTotal
  <1>6. x.decision = "deny" => Rank[x.decision] <= Rank[any.decision]
    BY <1>5 DEF Rank, Verdicts
  <1>7. x.decision \in Verdicts /\ Rank[x.decision] <= Rank[x.decision]
    BY <1>3, <1>4, DecideIsVerdict DEF IsVerdict, Verdicts, Rank
  <1> HIDE <1>1
  <1>8. CASE Refused(s)
    <2>1. Refused(r) /\ Refusal(s) = Refusal(r)
      BY <1>2, <1>8, SameRefusals
    <2>2. Decide(s) = Decide(r)
      BY <1>8, <2>1 DEF Decide
    <2> QED BY <1>4, <1>7, <2>2
  <1>9. CASE ~Refused(s)
    <2>1. Refused(s) = Refused(r)
      BY <1>2, SameRefusals
    <2>2. Evaluate(s) = Evaluate(r) /\ HasRules(s) = HasRules(r) /\ CategoriesOf(s) = CategoriesOf(r)
      BY <1>2, SameRules
    <2>3. /\ ReversibilityOutcome(s) = ReversibilityOutcome(r)
          /\ FetchUrlEgressOutcome(s) = FetchUrlEgressOutcome(r)
          /\ EnvelopeOutcomes(s) = EnvelopeOutcomes(r)
      BY <1>2, <2>2, SameGates
    <2>4. ConflictInvariantOutcome(s) = ConflictInvariantOutcome(r)
      BY <1>2, <2>2, Zenon DEF ConflictInvariantOutcome
    <2>5. PICK legacy \in DecideLegacy(s), envelope \in EnvelopeOutcomes(s) :
            x = Compose(s, legacy, envelope)
      BY <1>4, <1>9 DEF Decide
    <2>6. legacy.decision = "deny" => x.decision = "deny"
      BY <1>3, <2>5, ComposeFacts
    <2>7. Compose(s, legacy, envelope) = Compose(r, legacy, envelope)
      <3>1. \A z : MaybeFirstUseEscalation(s, z) = MaybeFirstUseEscalation(r, z)
        BY <1>2, Zenon DEF MaybeFirstUseEscalation
      <3> QED BY <1>2, <2>2, <2>3, <2>4, <3>1, Zenon DEF Compose
    <2>8. legacy.decision = "deny" \/ legacy \in DecideLegacy(r)
      <3>1. /\ Usable(s) = Usable(r) /\ WithoutCapability(s) = WithoutCapability(r)
            /\ \A c : Chain(s, c) = Chain(r, c)
        BY <1>2, SameCapabilities
      <3>2. CASE Usable(r) = {}
        BY <3>1, <3>2, Zenon DEF DecideLegacy
      <3>3. CASE Usable(r) # {}
        <4>1. PICK c \in Usable(r) : legacy = WithCapability(s, c)
          BY <2>5, <3>1, <3>3, Zenon DEF DecideLegacy
        <4>2. CASE IsCascadedInert(s, c)
          BY <4>1, <4>2 DEF WithCapability, Result
        <4>3. CASE ~IsCascadedInert(s, c)
          <5>1. ~IsCascadedInert(r, c)
            BY <1>2, <3>1, <4>3 DEF IsCascadedInert
          <5>2. WithCapability(s, c) = WithCapability(r, c)
            BY <1>2, <4>3, <5>1, Zenon DEF WithCapability
          <5>3. WithCapability(r, c) \in DecideLegacy(r)
            BY <3>3, Zenon DEF DecideLegacy
          <5> QED BY <4>1, <5>2, <5>3
        <4> QED BY <4>2, <4>3
      <3> QED BY <3>2, <3>3
    <2>9. CASE legacy.decision = "deny"
      BY <1>5, <1>6, <2>6, <2>9
    <2>10. CASE legacy \in DecideLegacy(r)
      <3>1. Compose(r, legacy, envelope) \in Decide(r)
        BY <1>9, <2>1, <2>3, <2>5, <2>10 DEF Decide
      <3> QED BY <1>7, <2>5, <2>7, <3>1
    <2> QED BY <2>8, <2>9, <2>10
  <1> QED BY <1>8, <1>9

\* More provenance levels keep the refusals there are, and the only refusal that can be
\* overridden stays the first unless a denial comes before it.
LEMMA MoreRefusals ==
  ASSUME NEW r, NEW s, s.a = r.a, r.b \subseteq s.b, s.binding = r.binding, s.effect = r.effect,
         s.wired = r.wired, s.orphan = r.orphan, s.clearance = r.clearance,
         s.integrity = r.integrity, s.refused = r.refused, Refused(r)
  PROVE  Refused(s)
  <1>1. PICK i \in 1 .. 7 : Refusals(r)[i].fires
    BY DEF Refused
  <1>2. Refusals(s)[i].fires
    <2>1. CASE i = 1  BY <1>1, <2>1 DEF Refusals
    <2>2. CASE i = 2
      <3>1. r.effect = "administer" /\ "untrusted" \in r.b
        BY <1>1, <2>2, Zenon DEF Refusals
      <3>2. Refusals(s)[2].fires = (s.effect = "administer" /\ "untrusted" \in s.b)
        BY DEF Refusals
      <3> QED BY <2>2, <3>1, <3>2
    <2>3. CASE i = 3  BY <1>1, <2>3 DEF Refusals
    <2>4. CASE i = 4  BY <1>1, <2>4 DEF Refusals
    <2>5. CASE i = 5  BY <1>1, <2>5 DEF Refusals
    <2>6. CASE i = 6  BY <1>1, <2>6 DEF Refusals
    <2>7. CASE i = 7  BY <1>1, <2>7 DEF Refusals
    <2> QED BY <2>1, <2>2, <2>3, <2>4, <2>5, <2>6, <2>7
  <1> QED BY <1>2 DEF Refused

LEMMA OverrideStays ==
  ASSUME NEW r, NEW s, s.a = r.a, r.b \subseteq s.b, s.binding = r.binding, s.effect = r.effect,
         s.wired = r.wired, s.orphan = r.orphan, s.clearance = r.clearance,
         s.integrity = r.integrity, s.refused = r.refused, Refused(s), Refusal(s).decision # "deny"
  PROVE  /\ Refused(r)
         /\ Refusal(r).decision = "override_required"
         /\ Refusal(s).decision = "override_required"
  <1>1. PICK i \in 1 .. 7 : /\ Refusals(s)[i].fires /\ Refusal(s) = Refusals(s)[i].gate
                            /\ \A j \in 1 .. i - 1 : ~Refusals(s)[j].fires
    BY FirstRefusal
  <1>2. i = 3 /\ Refusal(s).decision = "override_required"
    <2>1. \A j \in 1 .. 7 : j # 3 => Refusals(s)[j].gate.decision = "deny"
      BY DEF Refusals, Gate
    <2>2. Refusals(s)[3].gate.decision = "override_required"
      BY DEF Refusals, Gate
    <2> QED BY <1>1, <2>1, <2>2
  <1>3. ~Refusals(s)[1].fires /\ ~Refusals(s)[2].fires /\ Refusals(s)[3].fires
    BY <1>1, <1>2
  <1>4. ~Refusals(r)[1].fires /\ ~Refusals(r)[2].fires /\ Refusals(r)[3].fires
    BY <1>3 DEF Refusals
  <1>5. Refused(r)
    BY <1>4 DEF Refused
  <1>6. PICK k \in 1 .. 7 : /\ Refusals(r)[k].fires /\ Refusal(r) = Refusals(r)[k].gate
                            /\ \A j \in 1 .. k - 1 : ~Refusals(r)[j].fires
    BY <1>5, FirstRefusal
  <1>7. k = 3
    <2>1. k # 1 /\ k # 2 /\ ~(3 \in 1 .. k - 1)
      BY <1>4, <1>6
    <2> QED BY <2>1
  <1>8. Refusals(r)[3].gate.decision = "override_required"
    BY DEF Refusals, Gate
  <1> QED BY <1>2, <1>5, <1>6, <1>7, <1>8

\* Taint is monotone: with the same rules holding, a session that has read data of more
\* provenance levels is never given more, whichever floor, refusal or carve-out decides.
THEOREM TaintNeverLoosens ==
  ASSUME NEW r \in Request, NEW levels \in SUBSET Levels,
         NEW x \in Decide([r EXCEPT !.b = r.b \cup levels])
  PROVE  \E y \in Decide(r) : Rank[x.decision] <= Rank[y.decision]
  <1>1. PICK s : s = [r EXCEPT !.b = r.b \cup levels]
    OBVIOUS
  <1>2. /\ s.kind = r.kind /\ s.effect = r.effect /\ s.rev = r.rev /\ s.binding = r.binding
        /\ s.a = r.a /\ s.revoked = r.revoked /\ s.super = r.super /\ s.superTiers = r.superTiers
        /\ s.dial = r.dial /\ s.envelopes = r.envelopes /\ s.caps = r.caps
        /\ s.escalation = r.escalation /\ s.wired = r.wired
        /\ s.orphan = r.orphan /\ s.clearance = r.clearance /\ s.integrity = r.integrity
        /\ s.refused = r.refused /\ s.rules = r.rules
        /\ s.default = r.default /\ s.personal = r.personal /\ s.rulesWired = r.rulesWired
        /\ s.firstUse = r.firstUse /\ s.approved = r.approved
        /\ s.b = r.b \cup levels
    BY <1>1 DEF Request
  <1>3. s \in Request
    BY <1>1 DEF Request
  <1>4. x \in Decide(s)
    BY <1>1
  <1>5. PICK any \in Decide(r) : any.decision \in Verdicts
    BY DecideIsTotal
  <1>6. x.decision = "deny" => Rank[x.decision] <= Rank[any.decision]
    BY <1>5 DEF Rank, Verdicts
  <1>7. x.decision \in Verdicts /\ Rank[x.decision] <= Rank[x.decision]
    BY <1>3, <1>4, DecideIsVerdict DEF IsVerdict, Verdicts, Rank
  <1> HIDE <1>1
  <1>8. CASE Refused(s)
    <2>1. x = Result(Refusal(s).decision, Refusal(s).rule, FALSE)
      BY <1>4, <1>8 DEF Decide
    <2>2. x.decision = Refusal(s).decision
      BY <2>1 DEF Result
    <2>3. CASE Refusal(s).decision = "deny"
      BY <1>5, <1>6, <2>2, <2>3
    <2>4. CASE Refusal(s).decision # "deny"
      <3>1. /\ Refused(r)
            /\ Refusal(r).decision = "override_required" /\ Refusal(s).decision = "override_required"
        BY <1>2, <1>8, <2>4, OverrideStays
      <3>2. Decide(r) = {Result(Refusal(r).decision, Refusal(r).rule, FALSE)}
        BY <3>1 DEF Decide
      <3>3. Result(Refusal(r).decision, Refusal(r).rule, FALSE).decision = "override_required"
        BY <3>1 DEF Result
      <3> QED BY <1>7, <2>2, <3>1, <3>2, <3>3
    <2> QED BY <2>3, <2>4
  <1>9. CASE ~Refused(s)
    <2>1. ~Refused(r)
      BY <1>2, <1>9, MoreRefusals
    <2>2. Evaluate(s) = Evaluate(r) /\ HasRules(s) = HasRules(r) /\ CategoriesOf(s) = CategoriesOf(r)
      BY <1>2, SameRules
    <2>3. /\ ReversibilityOutcome(s) = ReversibilityOutcome(r)
          /\ FetchUrlEgressOutcome(s) = FetchUrlEgressOutcome(r)
          /\ EnvelopeOutcomes(s) = EnvelopeOutcomes(r)
      BY <1>2, <2>2, SameGates
    <2>4. DecideLegacy(s) = DecideLegacy(r)
      BY <1>2, SameLegacy
    <2>5. PICK legacy \in DecideLegacy(s), envelope \in EnvelopeOutcomes(s) :
            x = Compose(s, legacy, envelope)
      BY <1>4, <1>9 DEF Decide
    <2>6. CASE "untrusted" \in s.b /\ s.kind \in Egress
      <3>1. ConflictInvariantOutcome(s) = Gate("deny", "untrusted-meets-egress")
        BY <2>6 DEF ConflictInvariantOutcome
      <3>2. /\ ConflictInvariantOutcome(s).decision = "deny"
            /\ ConflictInvariantOutcome(s).rule = "untrusted-meets-egress"
        BY <3>1 DEF Gate
      <3>3. x.decision = "deny"
        BY <1>3, <2>5, <3>2, ComposeFacts
      <3> QED BY <1>5, <1>6, <3>3
    <2>7. CASE ~("untrusted" \in s.b /\ s.kind \in Egress)
      <3>1. ConflictInvariantOutcome(s) = ConflictInvariantOutcome(r)
        BY <1>2, <2>2, <2>7 DEF ConflictInvariantOutcome
      <3>2. \A z : MaybeFirstUseEscalation(s, z) = MaybeFirstUseEscalation(r, z)
        BY <1>2, Zenon DEF MaybeFirstUseEscalation
      <3>3. Compose(s, legacy, envelope) = Compose(r, legacy, envelope)
        BY <1>2, <2>2, <2>3, <3>1, <3>2, Zenon DEF Compose
      <3>4. Compose(r, legacy, envelope) \in Decide(r)
        BY <2>1, <2>3, <2>4, <2>5 DEF Decide
      <3> QED BY <1>7, <2>5, <3>3, <3>4
    <2> QED BY <2>6, <2>7
  <1> QED BY <1>8, <1>9

=============================================================================

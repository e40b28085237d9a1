--------------------------- MODULE MC_PolicyEngine --------------------------
EXTENDS PolicyEngine

Health == [category |-> "health", tier |-> 3]
Financial == [category |-> "financial", tier |-> 3]
Personal == [category |-> "personal", tier |-> 2]

Tool(kind, effect, rev, route) == [kind |-> kind, effect |-> effect, rev |-> rev, route |-> route]

\* The shapes of the tools the repository registers, and three it may be given.
Tools ==
  {Tool("email", "send", "irreversible", TRUE), Tool("purchase", "local", "irreversible", TRUE),
   Tool("purchase", "local", "system", TRUE), Tool("fetch", "local", "system", FALSE),
   Tool("modify", "local", "friction", TRUE), Tool("memory", "local", "irreversible", TRUE),
   Tool("read", None, None, FALSE), Tool("write", "local", "system", TRUE), Tool("read", "execute", "system", FALSE),
   Tool("memory", "local", "system", TRUE), Tool("browser", "remote", "system", FALSE),
   Tool("message", "promise", "human", FALSE), Tool("read", "administer", "human", FALSE)}

Cap(id, parent) ==
  [id |-> id, parent |-> parent, matches |-> TRUE, expired |-> FALSE, exhausted |-> FALSE,
   prior |-> FALSE, destructive |-> FALSE]

Good == Cap(1, None)

CapSets ==
  {{}, {Good}, {[Good EXCEPT !.destructive = TRUE]}, {[Good EXCEPT !.expired = TRUE]},
   {[Good EXCEPT !.exhausted = TRUE]}, {[Good EXCEPT !.prior = TRUE]}, {Cap(2, 1)},
   {[Good EXCEPT !.matches = FALSE], Cap(2, 1)},
   {[Good EXCEPT !.matches = FALSE], [Cap(2, 1) EXCEPT !.matches = FALSE], Cap(3, 2)},
   {[Cap(1, 2) EXCEPT !.destructive = TRUE], Cap(2, 1)},
   {Good, [Cap(2, None) EXCEPT !.destructive = TRUE]}}

NewRule(outcome, when, crosses) ==
  [outcome |-> outcome, ratified |-> TRUE, when |-> when, holds |-> TRUE, crosses |-> crosses]

RuleSets ==
  {{}, {NewRule("auto", {}, None)}, {NewRule("suggest", {}, None), NewRule("shadow", {}, None)},
   {NewRule("override_required", {"health"}, None), NewRule("require_approval", {}, None)},
   {NewRule("auto", {"health"}, "health-meets-egress")},
   {[NewRule("auto", {}, None) EXCEPT !.ratified = FALSE], NewRule("deny", {"financial"}, None)}}

NoEnvelope == [c \in Categories |-> None]

HealthFloor == [NoEnvelope EXCEPT !["health"] = [strictest |-> 0, loosest |-> 0],
                                  !["financial"] = [strictest |-> 1, loosest |-> 3],
                                  !["personal"] = [strictest |-> 0, loosest |-> 3]]

Base(t) ==
  [kind |-> t.kind, effect |-> t.effect, rev |-> t.rev, route |-> t.route,
   binding |-> "none", a |-> {}, b |-> {}, wired |-> TRUE, orphan |-> FALSE, clearance |-> 4,
   integrity |-> 0, refused |-> FALSE, caps |-> {Good}, revoked |-> {}, escalation |-> FALSE,
   firstUse |-> FALSE, rulesWired |-> TRUE, rules |-> {}, default |-> "suggest",
   envelopes |-> NoEnvelope, dial |-> None, super |-> {}, superTiers |-> {}, personal |-> FALSE,
   approved |-> FALSE, failure |-> None, verdicts |-> {}, shadow |-> FALSE, restricted |-> FALSE]

\* How the legs compose.
Composed ==
  {[Base(t) EXCEPT !.a = a, !.b = b, !.caps = caps, !.rules = rules, !.personal = profile,
                   !.super = IF profile THEN {} ELSE {"personal"},
                   !.firstUse = profile, !.envelopes = HealthFloor,
                   !.dial = IF profile THEN "permissive" ELSE "balanced"]
   : t \in Tools, a \in SUBSET {Health, Financial, Personal}, b \in {{}, {"untrusted"}},
     caps \in {{Good}, {[Good EXCEPT !.destructive = TRUE]}, {[Good EXCEPT !.exhausted = TRUE]}},
     rules \in RuleSets, profile \in BOOLEAN}

\* What each check that refuses early, and each stage after the engine, adds.
Gated ==
  {[r EXCEPT !.caps = caps, !.escalation = flag, !.shadow = shadow, !.revoked = IF flag THEN {1} ELSE {},
             !.a = {Personal}, !.verdicts = verdicts, !.rulesWired = flag]
   : r \in UNION {{Base(t), [Base(t) EXCEPT !.binding = "unbound"],
                   [Base(t) EXCEPT !.binding = "bound"], [Base(t) EXCEPT !.wired = FALSE, !.clearance = 1],
                   [Base(t) EXCEPT !.b = {"untrusted"}, !.integrity = 1, !.orphan = TRUE],
                   [Base(t) EXCEPT !.refused = TRUE], [Base(t) EXCEPT !.failure = "deny"],
                   [Base(t) EXCEPT !.failure = "require_approval", !.restricted = TRUE]} : t \in Tools},
     caps \in CapSets, flag, shadow \in BOOLEAN, verdicts \in {{}, {"allow", "warn"}, {"warn", "override_required"}}}

MCRequests == Composed \cup Gated
=============================================================================

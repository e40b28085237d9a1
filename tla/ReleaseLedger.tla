---------------------------- MODULE ReleaseLedger ----------------------------
(***************************************************************************)
(* What the release of reviewed mail promises, without drafts, queues,     *)
(* journals or crashes: the operator consents to exact messages, and a     *)
(* draft leaves the machine at most once, as a message consented to.       *)
(***************************************************************************)
EXTENDS Sequences, Naturals

CONSTANTS Messages   \* records with at least the field draft

VARIABLES
  consent,   \* the messages the operator consented to
  sent       \* the messages that were accepted, in order

Init == consent = {} /\ sent = <<>>

Consent(m) == /\ consent' = consent \cup {m}
              /\ UNCHANGED sent

Send(m) == /\ m \in consent
           /\ \A i \in DOMAIN sent : sent[i].draft # m.draft
           /\ sent' = Append(sent, m)
           /\ UNCHANGED consent

Next == \E m \in Messages : Consent(m) \/ Send(m)

Spec == Init /\ [][Next]_<<consent, sent>>

=============================================================================

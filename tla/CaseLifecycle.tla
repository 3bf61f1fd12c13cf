---------------------------- MODULE CaseLifecycle ----------------------------
(***************************************************************************)
(* What an appeal case promises its rider, and nothing of how: no threads, *)
(* no lock, no calls, retries, events or crashes.                          *)
(*                                                                         *)
(* A case moves through its states in order.  The platform grants it at    *)
(* most once, only while it waits for a decision, and only if both consent *)
(* and mandate release the device log.  The case says "decided" only after *)
(* the platform has granted it.  AppealWorkflow implements this with       *)
(* granted as the cases whose appeal the platform approved.                *)
(***************************************************************************)
CONSTANTS Cases, Appeals, Artifacts, DeviceLog, ConsentChoices, None

VARIABLES docs,     \* the case documents
          granted   \* the cases the platform has granted
vars == <<docs, granted>>

New == [state |-> "ABSENT", consent |-> {}, mandate |-> {},
        cyclesUsed |-> 0, appeal |-> None, quarantined |-> {}]

Init ==
    /\ docs = [c \in Cases |-> New]
    /\ granted = {}

Become(c, doc) == docs' = [docs EXCEPT ![c] = doc] /\ UNCHANGED granted

Open(c) ==
    /\ docs[c].state = "ABSENT"
    /\ Become(c, [docs[c] EXCEPT !.state = "NOTICE_RECEIVED"])

Parse(c) ==
    /\ docs[c].state = "NOTICE_RECEIVED"
    /\ Become(c, [docs[c] EXCEPT !.state = "PARSED"])

Consent(c) ==
    /\ docs[c].state = "PARSED"
    /\ \E chosen \in ConsentChoices :
         Become(c, [docs[c] EXCEPT !.state = "CONSENTED", !.consent = chosen])

Mandate(c) ==
    /\ docs[c].state = "CONSENTED"
    /\ docs[c].consent \cap docs[c].quarantined = {}
    /\ Become(c, [docs[c] EXCEPT !.state = "MANDATE_APPROVED", !.mandate = docs[c].consent])

\* An artifact found bad, on citation or on disclosure.
Quarantine(c) ==
    /\ docs[c].state \in {"CONSENTED", "SUPPLEMENT_REQUESTED"}
    /\ \E f \in docs[c].consent :
         Become(c, [docs[c] EXCEPT !.quarantined = @ \cup {f}])

\* The case learns the appeal that was filed for it.
Acknowledge(c) ==
    /\ docs[c].state = "MANDATE_APPROVED"
    /\ \E a \in Appeals :
         Become(c, [docs[c] EXCEPT !.state = "SUPPLEMENT_REQUESTED", !.appeal = a])

\* The platform acts, once.
Grant(c) ==
    /\ c \notin granted
    /\ docs[c].state = "SUPPLEMENT_REQUESTED"
    /\ DeviceLog \in docs[c].consent \cap docs[c].mandate
    /\ granted' = granted \cup {c}
    /\ UNCHANGED docs

\* The case learns of it, and has used its one supplement cycle.
Decide(c) ==
    /\ docs[c].state = "SUPPLEMENT_REQUESTED"
    /\ c \in granted
    /\ Become(c, [docs[c] EXCEPT !.state = "DECIDED_APPROVED", !.cyclesUsed = 1])

Finish(c) ==
    /\ docs[c].state = "DECIDED_APPROVED"
    /\ Become(c, [docs[c] EXCEPT !.state = "ACCOUNT_ACTIVE"])

Next ==
    \E c \in Cases :
        \/ Open(c) \/ Parse(c) \/ Consent(c) \/ Mandate(c) \/ Quarantine(c)
        \/ Acknowledge(c) \/ Grant(c) \/ Decide(c) \/ Finish(c)

Spec == Init /\ [][Next]_vars

=============================================================================

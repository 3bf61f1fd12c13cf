--------------------------- MODULE AppealWorkflow ---------------------------
(***************************************************************************)
(* AppealOS at work against MockDrop (apps/appealos/app/main.py): the      *)
(* request threads of the service, the workflow lock they share, the case  *)
(* documents and processed-event ids they persist, the HTTP calls they     *)
(* make to the platform and the Pub/Sub events that push them on.          *)
(*                                                                         *)
(* A mutating method holds the lock from its first read to its last save.  *)
(* One that calls nobody (consent) is one action.  One that does is a      *)
(* sequence of steps of its thread: it loads the case and checks its       *)
(* guards (a ...Step), reads the vault, waits for MockDrop or the model,   *)
(* and saves what came of it (a ...Returns).  In between MockDrop acts,    *)
(* time passes, the vault changes, the call times out, or the process      *)
(* dies: the lock and the threads are gone, the documents stay, and a call *)
(* already sent lives on.                                                  *)
(***************************************************************************)
EXTENDS MockDrop

CONSTANTS
    Threads,         \* request threads of the one AppealOS process
    Artifacts,       \* the evidence artifacts of the vault
    DeviceLog,       \* the artifact MockDrop asks for
    ConsentChoices,  \* the artifact sets the user may consent to
    Perils,          \* what may go wrong in this instance
    MaxFaults        \* how often it may: bounds faults, not expiry

ASSUME ArtifactsAssumption ==
    /\ DeviceLog \in Artifacts
    /\ ConsentChoices \subseteq (SUBSET Artifacts) \ {{}}
ASSUME ThreadsAssumption == None \notin Threads
ASSUME FaultsAssumption == MaxFaults \in Nat
ASSUME PerilsAssumption ==
    Perils \subseteq {"crash", "publish", "restart", "tamper", "expire", "ack"}

VARIABLES
    docs,       \* the case documents (Firestore, or the in-memory store)
    processed,  \* ids of the platform events handled to the end
    lock,       \* holder of the workflow lock
    handlers,   \* what each request thread is doing
    clock,      \* per case, which of its authorizations have expired
    vault,      \* condition of each artifact in the evidence vault
    faults      \* faults so far

serviceVars == <<docs, processed, lock, handlers>>
worldVars == <<clock, vault, faults>>
vars == <<platformVars, serviceVars, worldVars>>

-----------------------------------------------------------------------------
(* Data.                                                                   *)

\* ACKNOWLEDGED and SUPPLEMENTED are passed through inside one handler and
\* are never saved; ABSENT is the state of a case id not yet created.
CaseStates == {"ABSENT", "NOTICE_RECEIVED", "PARSED", "CONSENTED",
               "MANDATE_APPROVED", "SUPPLEMENT_REQUESTED",
               "DECIDED_APPROVED", "DECIDED_REJECTED", "ACCOUNT_ACTIVE"}

\* Consent and mandate are the artifacts they cover, {} when not given.
CaseDoc == [state : CaseStates, consent : SUBSET Artifacts,
            mandate : SUBSET Artifacts, cyclesUsed : Nat,
            appeal : Appeals \cup {None}, quarantined : SUBSET Artifacts]
AbsentCase == [state |-> "ABSENT", consent |-> {}, mandate |-> {},
               cyclesUsed |-> 0, appeal |-> None, quarantined |-> {}]
MaxSupplementCycles == 1

\* Consent is given before the mandate and both last an hour, so it expires
\* first.
ClockStates == {"live", "consentOver", "mandateOver"}

\* "corrupt": missing, or fails the integrity check of read_verified, and is
\* quarantined for it.  "undecodable": a field is not base64, which is an
\* exception of another kind.  What passes has the hash MockDrop asks for, in
\* either vault of vault.py, so the second check of supplement never decides.
VaultStates == {"intact", "corrupt", "undecodable"}

Methods == {"notice", "mandate", "submit", "supplement", "verify"}
Ops == Methods \cup {"reset", "execute", "event"}

\* Within a method: its guards passed, the model or the vault is asked.
ModelSteps == {"parsing", "drafting"}
VaultSteps == {"citing", "disclosing"}
Steps == Methods \cup ModelSteps \cup VaultSteps \cup {"reset", "mark"}
EventIds == Appeals \X EventTypes

\* "draft" is the copy of the document the thread works on.
Handler == [op : Ops \cup {"idle"}, case : Cases \cup {None},
            event : EventIds \cup {None}, step : Steps \cup {"idle"},
            call : Calls \cup {None}, draft : CaseDoc]
Idle == [op |-> "idle", case |-> None, event |-> None, step |-> "idle",
         call |-> None, draft |-> AbsentCase]

TypeOK ==
    /\ PlatformTypeOK
    /\ docs \in [Cases -> CaseDoc]
    /\ processed \subseteq EventIds
    /\ lock \in Threads \cup {None}
    /\ handlers \in [Threads -> Handler]
    /\ clock \in [Cases -> ClockStates]
    /\ vault \in [Artifacts -> VaultStates]
    /\ faults \in 0 .. MaxFaults

Init ==
    /\ PlatformInit
    /\ docs = [c \in Cases |-> AbsentCase]
    /\ processed = {}
    /\ lock = None
    /\ handlers = [t \in Threads |-> Idle]
    /\ clock = [c \in Cases |-> "live"]
    /\ vault = [f \in Artifacts |-> "intact"]
    /\ faults = 0

-----------------------------------------------------------------------------
(* Guards.                                                                 *)

ConsentActive(c) == docs[c].consent # {} /\ clock[c] = "live"
MandateActive(c) == docs[c].mandate # {} /\ clock[c] # "mandateOver"

MayParse(c) == docs[c].state = "NOTICE_RECEIVED"
MayMandate(c) == docs[c].state = "CONSENTED" /\ ConsentActive(c)
MaySubmit(c) == docs[c].state = "MANDATE_APPROVED" /\ MandateActive(c)

\* The mandate covers the device log and leaves its one supplement cycle.
CanSupplement(c) ==
    /\ MandateActive(c) /\ DeviceLog \in docs[c].mandate
    /\ docs[c].cyclesUsed < MaxSupplementCycles

\* Mutant: an expired consent will do.
MaySupplementExpired(c) ==
    /\ docs[c].state = "SUPPLEMENT_REQUESTED"
    /\ DeviceLog \in docs[c].consent
    /\ CanSupplement(c)
    /\ docs[c].appeal # None

\* So does the consent.
MaySupplement(c) ==
    /\ docs[c].state = "SUPPLEMENT_REQUESTED"
    /\ ConsentActive(c) /\ DeviceLog \in docs[c].consent
    /\ CanSupplement(c)
    /\ docs[c].appeal # None

\* Mutant: verified while the appeal is not decided.
MayVerifyUndecided(c) ==
    docs[c].state \in {"SUPPLEMENT_REQUESTED", "DECIDED_APPROVED"} /\ MandateActive(c)

MayVerify(c) == docs[c].state = "DECIDED_APPROVED" /\ MandateActive(c)

May(step, c) ==
    \/ step = "notice" /\ MayParse(c)
    \/ step = "mandate" /\ MayMandate(c)
    \/ step = "submit" /\ MaySubmit(c)
    \/ step = "supplement" /\ MaySupplement(c)
    \/ step = "verify" /\ MayVerify(c)

-----------------------------------------------------------------------------
(* The lock, and what the steps of a thread share.                         *)

\* Mutant: nobody waits for the lock.
AcquireUnlocked(t, op, c, event, step) ==
    /\ handlers[t] = Idle
    /\ lock' = t
    /\ handlers' = [handlers EXCEPT ![t] = [Idle EXCEPT !.op = op, !.case = c,
                                                        !.event = event, !.step = step]]

\* serialized_workflow: wait for the lock, then run.
Acquire(t, op, c, event, step) ==
    /\ lock = None
    /\ handlers[t] = Idle
    /\ lock' = t
    /\ handlers' = [handlers EXCEPT ![t] = [Idle EXCEPT !.op = op, !.case = c,
                                                        !.event = event, !.step = step]]

\* Return, or raise: leaving the method releases the lock.
Leave(t) ==
    /\ lock' = None
    /\ handlers' = [handlers EXCEPT ![t] = Idle]

\* Go on, still under the (re-entrant) lock, to the next nested method.
GoOn(t, step) ==
    /\ handlers' = [handlers EXCEPT ![t].step = step, ![t].call = None,
                                    ![t].draft = AbsentCase]
    /\ UNCHANGED lock

\* The thread is about to run this step, on case c.
At(t, step) == handlers[t].step = step /\ handlers[t].call = None

\* It goes on within its method, with the draft it has loaded.
Proceed(t, step, draft) ==
    /\ handlers' = [handlers EXCEPT ![t].step = step, ![t].draft = draft]
    /\ UNCHANGED <<docs, processed, lock, worldVars, platformVars>>

\* It sends a request and waits for the answer.
CallPlatform(t, step, draft, key, request) ==
    \E i \in Calls :
      /\ Send(i, key, request)
      /\ handlers' = [handlers EXCEPT ![t].step = step, ![t].draft = draft, ![t].call = i]
      /\ UNCHANGED <<docs, processed, lock, worldVars,
                     account, appeals, idem, seq, topic, publisher>>

Answered(t, step) ==
    /\ handlers[t].step = step
    /\ handlers[t].call # None
    /\ calls[handlers[t].call].stage = "answered"
AnswerTo(t) == calls[handlers[t].call].answer

Save(c, doc) == docs' = [docs EXCEPT ![c] = doc]

\* Mutant: the exception leaves the lock behind.
CallFailsLocked(t) ==
    /\ handlers[t].call # None
    /\ calls[handlers[t].call].stage = "answered"
    /\ AnswerTo(t).result # "OK"
    /\ Release(handlers[t].call)
    /\ handlers' = [handlers EXCEPT ![t] = Idle]
    /\ UNCHANGED <<docs, processed, lock, worldVars, account, appeals, idem, seq, topic, publisher>>

\* raise_for_status: any failure is an exception out of the method.
CallFails(t) ==
    /\ handlers[t].call # None
    /\ calls[handlers[t].call].stage = "answered"
    /\ AnswerTo(t).result # "OK"
    /\ Release(handlers[t].call)
    /\ Leave(t)
    /\ UNCHANGED <<docs, processed, worldVars, account, appeals, idem, seq, topic, publisher>>

-----------------------------------------------------------------------------
(* reset: wipe the platform, then open a new case.                         *)

NewCases == {c \in Cases : docs[c].state = "ABSENT"}

\* The case id is a fresh UUID; the guard bounds the number of cases.
ResetBegins(t) ==
    /\ NewCases # {}
    /\ Acquire(t, "reset", None, None, "reset")
    /\ UNCHANGED <<docs, processed, worldVars, platformVars>>

ResetStep(t) == At(t, "reset") /\ CallPlatform(t, "reset", AbsentCase, None, ResetRequest)

ResetReturns(t) ==
    /\ Answered(t, "reset")
    /\ AnswerTo(t).result = "OK"
    /\ \E c \in NewCases : Save(c, [AbsentCase EXCEPT !.state = "NOTICE_RECEIVED"])
    /\ Release(handlers[t].call)
    /\ Leave(t)
    /\ UNCHANGED <<processed, worldVars, account, appeals, idem, seq, topic, publisher>>

-----------------------------------------------------------------------------
(* notice, consent, mandate.  The model answers, fails, or is refused by    *)
(* the validators, at its own time: nothing limits a call to it.           *)

\* A request whose first guard fails is refused and changes nothing, so only
\* one that passes it is worth a thread.
MethodBegins(t, op, c) ==
    /\ May(op, c)
    /\ Acquire(t, op, c, None, op)
    /\ UNCHANGED <<docs, processed, worldVars, platformVars>>

NoticeStep(t) ==
    /\ At(t, "notice") /\ MayParse(handlers[t].case)
    /\ Proceed(t, "parsing", docs[handlers[t].case])

SaveAndLeave(t, doc) ==
    /\ Save(handlers[t].case, doc)
    /\ Leave(t)
    /\ UNCHANGED <<processed, worldVars, platformVars>>

NoticeReturns(t) ==
    /\ At(t, "parsing")
    /\ SaveAndLeave(t, [handlers[t].draft EXCEPT !.state = "PARSED"])

Consent(c) ==
    /\ lock = None
    /\ docs[c].state = "PARSED"
    /\ \E chosen \in ConsentChoices :
         Save(c, [docs[c] EXCEPT !.state = "CONSENTED", !.consent = chosen])
    /\ UNCHANGED <<processed, lock, handlers, worldVars, platformVars>>

MandateStep(t) ==
    /\ At(t, "mandate") /\ MayMandate(handlers[t].case)
    /\ Proceed(t, "citing", docs[handlers[t].case])

\* What the thread asks the vault for.
Needed(t) == IF handlers[t].step = "citing" THEN handlers[t].draft.consent ELSE {DeviceLog}
Reading(t) == \E step \in VaultSteps : At(t, step)

Usable(t, f) == f \notin handlers[t].draft.quarantined /\ vault[f] = "intact"

Quarantined(doc, f) == [doc EXCEPT !.quarantined = @ \cup {f}]

\* Mutant: the evidence is cited unverified.
MandateCitesUnverified(t) == At(t, "citing") /\ Proceed(t, "drafting", handlers[t].draft)

\* Every consented artifact is verified before the model is asked.
MandateCites(t) ==
    /\ At(t, "citing")
    /\ \A f \in Needed(t) : Usable(t, f)
    /\ Proceed(t, "drafting", handlers[t].draft)

\* The consent is not looked at again when the model has answered.
MandateReturns(t) ==
    /\ At(t, "drafting")
    /\ SaveAndLeave(t, [handlers[t].draft EXCEPT !.state = "MANDATE_APPROVED",
                                                 !.mandate = handlers[t].draft.consent,
                                                 !.cyclesUsed = 0])

Raise(t) == Leave(t) /\ UNCHANGED <<docs, processed, worldVars, platformVars>>

ModelFails(t) == (\E step \in ModelSteps : At(t, step)) /\ Raise(t)

\* verify_vault_artifact: a corrupt artifact is quarantined for the case.
ArtifactQuarantined(t) ==
    /\ Reading(t)
    /\ \E f \in Needed(t) :
         /\ f \notin handlers[t].draft.quarantined /\ vault[f] = "corrupt"
         /\ SaveAndLeave(t, Quarantined(handlers[t].draft, f))

\* One in quarantine is refused.  One that does not decode raises too, but is
\* not quarantined: only an EvidenceIntegrityError is caught.
ArtifactRefused(t) ==
    /\ Reading(t)
    /\ \E f \in Needed(t) : f \in handlers[t].draft.quarantined \/ vault[f] = "undecodable"
    /\ Raise(t)

-----------------------------------------------------------------------------
(* submit, supplement, verify, and execute, which chains them.             *)


\* The first nested method of an execution, by the state it resumes from.
ResumeAt(state) ==
    CASE state = "MANDATE_APPROVED"     -> "submit"
      [] state = "SUPPLEMENT_REQUESTED" -> "supplement"
      [] OTHER                          -> "verify"

ExecuteBegins(t, c) ==
    LET step == ResumeAt(docs[c].state)
    IN  /\ May(step, c)
        /\ Acquire(t, "execute", c, None, step)
        /\ UNCHANGED <<docs, processed, worldVars, platformVars>>

\* The guard no longer holds when the method is reached: 409.
StepRefused(t) ==
    /\ \E step \in Methods : At(t, step) /\ ~May(step, handlers[t].case)
    /\ Raise(t)

SubmitStep(t) ==
    LET c == handlers[t].case
    IN  /\ At(t, "submit") /\ MaySubmit(c)
        /\ CallPlatform(t, "submit", docs[c], <<"submit", c>>, AppealRequest(c))

\* Mutant: saved between the two records.
SubmitReturnsHalfway(t) ==
    /\ Answered(t, "submit")
    /\ AnswerTo(t).result = "OK"
    /\ Save(handlers[t].case, [handlers[t].draft EXCEPT !.state = "ACKNOWLEDGED",
                                                        !.appeal = AnswerTo(t).appeal])
    /\ Release(handlers[t].call)
    /\ Leave(t)
    /\ UNCHANGED <<processed, worldVars, account, appeals, idem, seq, topic, publisher>>

\* APPEAL_SUBMITTED and SUPPLEMENT_REQUESTED are recorded and saved at once.
SubmitReturns(t) ==
    /\ Answered(t, "submit")
    /\ AnswerTo(t).result = "OK"
    /\ Save(handlers[t].case, [handlers[t].draft EXCEPT !.state = "SUPPLEMENT_REQUESTED",
                                                        !.appeal = AnswerTo(t).appeal])
    /\ Release(handlers[t].call)
    /\ IF handlers[t].op = "execute" THEN GoOn(t, "supplement") ELSE Leave(t)
    /\ UNCHANGED <<processed, worldVars, account, appeals, idem, seq, topic, publisher>>

SupplementStep(t) ==
    /\ At(t, "supplement") /\ MaySupplement(handlers[t].case)
    /\ Proceed(t, "disclosing", docs[handlers[t].case])

Disclose(t, operation, matches) ==
    CallPlatform(t, "supplement", handlers[t].draft, <<operation, handlers[t].case>>,
                 SupplementRequest(handlers[t].draft.appeal, matches))

\* Mutants: the vault is not read; the quarantine is not looked at; the
\* supplement goes out under the key of the submit.
SupplementUnread(t) ==
    /\ At(t, "disclosing") /\ DeviceLog \notin handlers[t].draft.quarantined
    /\ Disclose(t, "supplement", vault[DeviceLog] = "intact")
SupplementQuarantined(t) ==
    /\ At(t, "disclosing") /\ vault[DeviceLog] = "intact"
    /\ Disclose(t, "supplement", TRUE)
SupplementSubmitKey(t) ==
    /\ At(t, "disclosing") /\ Usable(t, DeviceLog)
    /\ Disclose(t, "submit", TRUE)

\* The device log goes out only unquarantined and intact; what is disclosed
\* then matches what the platform asked for.  The authorizations are not
\* looked at again after the read.
SupplementSends(t) ==
    /\ At(t, "disclosing")
    /\ \A f \in Needed(t) : Usable(t, f)
    /\ Disclose(t, "supplement", vault[DeviceLog] = "intact")

\* The decision is recorded.  An execution pauses on a rejection; an event
\* goes on to verify, which refuses it.
SupplementReturns(t) ==
    LET approved == AnswerTo(t).status = "APPROVED"
    IN  /\ Answered(t, "supplement")
        /\ AnswerTo(t).result = "OK"
        /\ Save(handlers[t].case,
                [handlers[t].draft EXCEPT
                    !.state = IF approved THEN "DECIDED_APPROVED" ELSE "DECIDED_REJECTED",
                    !.cyclesUsed = @ + 1])
        /\ Release(handlers[t].call)
        /\ IF handlers[t].op = "event" \/ (handlers[t].op = "execute" /\ approved)
           THEN GoOn(t, "verify") ELSE Leave(t)
        /\ UNCHANGED <<processed, worldVars, account, appeals, idem, seq, topic, publisher>>

VerifyStep(t) ==
    /\ At(t, "verify") /\ MayVerify(handlers[t].case)
    /\ CallPlatform(t, "verify", docs[handlers[t].case], None, AccountRequest)

\* An account the platform does not report ACTIVE is a 409.
VerifyReturns(t) ==
    /\ Answered(t, "verify")
    /\ AnswerTo(t).result = "OK"
    /\ IF AnswerTo(t).account = "ACTIVE"
       THEN /\ Save(handlers[t].case, [handlers[t].draft EXCEPT !.state = "ACCOUNT_ACTIVE"])
            /\ IF handlers[t].op = "event" THEN GoOn(t, "mark") ELSE Leave(t)
       ELSE Leave(t) /\ UNCHANGED docs
    /\ Release(handlers[t].call)
    /\ UNCHANGED <<processed, worldVars, account, appeals, idem, seq, topic, publisher>>

-----------------------------------------------------------------------------
(* Platform events.  Pub/Sub pushes the first unacknowledged message of an *)
(* ordering key, again and again until the push is answered with a 2xx.    *)

Next1(a) == Head(topic[a])
Ack(a) == topic' = [topic EXCEPT ![a] = Tail(@)]

\* Mutants: an approved case counts as finished; it is not resumed at verify.
EventStepEarly(type, state) ==
    IF type = "SUPPLEMENT_REQUESTED" /\ state # "DECIDED_APPROVED" /\ state # "ACCOUNT_ACTIVE"
    THEN "supplement" ELSE "mark"
EventStepFromStart(type, state) ==
    IF state = "ACCOUNT_ACTIVE" /\ type # "DECISION_REJECTED" THEN "mark" ELSE "supplement"

\* handle_platform_event, once the event is known to be new and to match the
\* appeal of the case: what is left to do, "none" when it is refused.
EventStep(type, state) ==
    CASE type = "SUPPLEMENT_REQUESTED" /\ state = "ACCOUNT_ACTIVE"   -> "mark"
      [] type = "SUPPLEMENT_REQUESTED" /\ state = "DECIDED_APPROVED" -> "verify"
      [] type = "SUPPLEMENT_REQUESTED"                               -> "supplement"
      [] type = "DECISION_APPROVED" /\ state = "ACCOUNT_ACTIVE"      -> "mark"
      [] type = "DECISION_REJECTED" /\ state = "DECIDED_REJECTED"    -> "mark"
      [] OTHER                                                       -> "none"

\* Mutant: the event is not matched against the appeal of the case.
EventBeginsUnmatched(t, a) ==
    /\ topic[a] # << >>
    /\ LET c == appeals[a].case
           step == EventStep(Next1(a), docs[c].state)
       IN  /\ <<a, Next1(a)>> \notin processed
           /\ c \in Cases
           /\ step = "mark" \/ May(step, c)
           /\ Acquire(t, "event", c, <<a, Next1(a)>>, step)
    /\ UNCHANGED <<docs, processed, worldVars, platformVars>>

EventBegins(t, a) ==
    /\ topic[a] # << >>
    /\ LET type == Next1(a)
           c == appeals[a].case
           step == EventStep(type, docs[c].state)
       IN  /\ <<a, type>> \notin processed
           /\ c \in Cases /\ docs[c].appeal = a
           /\ step = "mark" \/ May(step, c)
           /\ Acquire(t, "event", c, <<a, type>>, step)
    /\ UNCHANGED <<docs, processed, worldVars, platformVars>>

\* Mutant: a duplicate is refused, so it is pushed again.
DuplicateEventRefused(a) ==
    /\ lock = None
    /\ topic[a] # << >>
    /\ <<a, Next1(a)>> \in processed
    /\ UNCHANGED vars

\* An event already processed is acknowledged as a duplicate.
DuplicateEvent(a) ==
    /\ lock = None
    /\ topic[a] # << >>
    /\ <<a, Next1(a)>> \in processed
    /\ Ack(a)
    /\ UNCHANGED <<account, appeals, idem, seq, calls, publisher, serviceVars, worldVars>>

\* The id is recorded, the push answered 200 and the message acknowledged.
EventMarked(t) ==
    LET e == handlers[t].event
    IN  /\ At(t, "mark")
        /\ processed' = processed \cup {e}
        /\ Leave(t)
        /\ IF topic[e[1]] # << >> /\ Next1(e[1]) = e[2] THEN Ack(e[1]) ELSE UNCHANGED topic
        /\ UNCHANGED <<account, appeals, idem, seq, calls, publisher, docs, worldVars>>

-----------------------------------------------------------------------------
(* The world: time, the vault, MockDrop, and what goes wrong.              *)

Fault(peril) ==
    /\ peril \in Perils
    /\ faults < MaxFaults
    /\ faults' = faults + 1

ConsentExpires(c) ==
    /\ "expire" \in Perils
    /\ docs[c].consent # {} /\ clock[c] = "live"
    /\ clock' = [clock EXCEPT ![c] = "consentOver"]
    /\ UNCHANGED <<platformVars, serviceVars, vault, faults>>

MandateExpires(c) ==
    /\ "expire" \in Perils
    /\ docs[c].mandate # {} /\ clock[c] = "consentOver"
    /\ clock' = [clock EXCEPT ![c] = "mandateOver"]
    /\ UNCHANGED <<platformVars, serviceVars, vault, faults>>

VaultDamaged(f) ==
    /\ Fault("tamper")
    /\ vault[f] = "intact"
    /\ \E damage \in {"corrupt", "undecodable"} : vault' = [vault EXCEPT ![f] = damage]
    /\ UNCHANGED <<platformVars, serviceVars, clock>>

\* The seeding script uploads the fixture again.
VaultReseeded(f) ==
    /\ vault[f] # "intact"
    /\ vault' = [vault EXCEPT ![f] = "intact"]
    /\ UNCHANGED <<platformVars, serviceVars, clock, faults>>

\* MockDrop serves a call, whether or not anyone still waits for it.
PlatformServes(i) ==
    (Handle(i) \/ ImportSettles(i) \/ Publish(i)) /\ UNCHANGED <<serviceVars, worldVars>>

PublicationFails(i) ==
    /\ Fault("publish") /\ PublishFails(i)
    /\ UNCHANGED <<serviceVars, clock, vault>>

PlatformRestarts == Fault("restart") /\ Restart /\ UNCHANGED <<serviceVars, clock, vault>>

Awaited(i) == \E t \in Threads : handlers[t].call = i

\* The answer to a call nobody waits for is dropped, and such a call may be
\* lost before it reaches MockDrop.
CallForgotten(i) ==
    /\ ~Awaited(i)
    /\ calls[i].stage \in {"sent", "answered"}
    /\ Release(i)
    /\ UNCHANGED <<account, appeals, idem, seq, topic, publisher, serviceVars, worldVars>>

\* An exception between two steps: the call times out, or a read or write of
\* the store fails after the step before it took effect.
StepThrows(t) ==
    /\ Fault("crash")
    /\ handlers[t] # Idle
    /\ Leave(t)
    /\ UNCHANGED <<docs, processed, clock, vault, platformVars>>

\* The process dies and a new one starts: threads and lock are gone.
Crash ==
    /\ Fault("crash")
    /\ lock # None
    /\ lock' = None
    /\ handlers' = [t \in Threads |-> Idle]
    /\ UNCHANGED <<docs, processed, clock, vault, platformVars>>

\* The 200 does not reach Pub/Sub: the event is recorded but comes again.
AckLost(t) ==
    /\ Fault("ack")
    /\ At(t, "mark")
    /\ processed' = processed \cup {handlers[t].event}
    /\ Leave(t)
    /\ UNCHANGED <<docs, clock, vault, platformVars>>

-----------------------------------------------------------------------------
Begin(t) ==
    \/ ResetBegins(t)
    \/ \E c \in Cases : \E op \in Methods : MethodBegins(t, op, c)
    \/ \E c \in Cases : ExecuteBegins(t, c)
    \/ \E a \in Appeals : EventBegins(t, a)

Step(t) ==
    \/ NoticeStep(t) \/ MandateStep(t) \/ MandateCites(t)
    \/ ResetStep(t) \/ SubmitStep(t) \/ SupplementStep(t) \/ SupplementSends(t) \/ VerifyStep(t)
    \/ StepRefused(t) \/ ArtifactQuarantined(t) \/ ArtifactRefused(t)
    \/ ResetReturns(t) \/ SubmitReturns(t) \/ SupplementReturns(t) \/ VerifyReturns(t)
    \/ CallFails(t) \/ EventMarked(t)

ModelStep(t) == NoticeReturns(t) \/ MandateReturns(t) \/ ModelFails(t)

World ==
    \/ \E c \in Cases : ConsentExpires(c) \/ MandateExpires(c)
    \/ \E f \in Artifacts : VaultDamaged(f) \/ VaultReseeded(f)
    \/ \E i \in Calls : PlatformServes(i) \/ PublicationFails(i) \/ CallForgotten(i)
    \/ \E t \in Threads : StepThrows(t) \/ AckLost(t)
    \/ PlatformRestarts
    \/ Crash

Next ==
    \/ \E t \in Threads : Begin(t) \/ Step(t) \/ ModelStep(t)
    \/ \E c \in Cases : Consent(c)
    \/ \E a \in Appeals : DuplicateEvent(a)
    \/ World

Spec == Init /\ [][Next]_vars

=============================================================================

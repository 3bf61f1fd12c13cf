-------------------------- MODULE AppealProperties --------------------------
(***************************************************************************)
(* What AppealOS owes the rider while calls are retried, answers are lost, *)
(* events come again, authorizations expire, evidence is tampered with,    *)
(* and either process may die between any two steps.                       *)
(***************************************************************************)
EXTENDS AppealWorkflow

\* One appeal per case: however often submit is retried after a lost answer,
\* and whatever old request is still under way, the platform never holds two
\* appeals of one case (the idempotency key of main.py submit).
OneAppealPerCase ==
    \A a, b \in Appeals :
        Known(a) /\ Known(b) /\ appeals[a].case = appeals[b].case => a = b

\* No retry of AppealOS is ever a different request under a used key, so the
\* 409 that MockDrop keeps for that is never the end of a case.
NoKeyReuse == \A i \in Calls : calls[i].answer.result # "KEY_REUSE"

\* Whatever MockDrop decides, it decides on evidence the user released: both
\* consent and mandate of the case cover the device log, the decided appeal is
\* the one the case is waiting on or has seen decided, and no bad file was
\* sent, so the answer is never a rejection.
DisclosureAuthorized ==
    \A a \in Appeals :
        appeals[a].status \in Decided =>
            LET doc == docs[appeals[a].case]
            IN  /\ appeals[a].status = "APPROVED"
                /\ DeviceLog \in doc.consent \cap doc.mandate
                /\ doc.appeal = a

DecidedStates == {"DECIDED_APPROVED", "DECIDED_REJECTED", "ACCOUNT_ACTIVE"}

\* What a case says was decided was decided: its own appeal was approved by the
\* platform, and it used its one supplement cycle exactly when it got that far.
DecisionsAreReal ==
    \A c \in Cases :
        /\ docs[c].state \in DecidedStates =>
             /\ docs[c].appeal # None
             /\ appeals[docs[c].appeal].case = c
             /\ appeals[docs[c].appeal].status = "APPROVED"
        /\ docs[c].cyclesUsed = IF docs[c].state \in DecidedStates THEN 1 ELSE 0

\* An event is marked processed only once its case is finished: neither a
\* crash between the steps nor a second delivery loses the work it stands for.
ProcessedMeansFinished ==
    \A e \in processed :
        /\ appeals[e[1]].case # None
        /\ docs[appeals[e[1]].case].state = "ACCOUNT_ACTIVE"
        /\ docs[appeals[e[1]].case].appeal = e[1]

\* The thread has loaded its case and not yet saved it.
AtWork(t) ==
    /\ handlers[t].case # None
    /\ handlers[t].call # None \/ handlers[t].step \in ModelSteps \cup VaultSteps

\* The copy a thread works on is the stored document for as long as it waits:
\* its save overwrites nobody's update, because the lock spans the read, the
\* call to vault, model or platform, and the write (main.py serialized_workflow).
NoLostUpdate == \A t \in Threads : AtWork(t) => handlers[t].draft = docs[handlers[t].case]

Disclosing(i, c) == Pending(i, "SUBMIT_SUPPLEMENT") /\ calls[i].key = <<"supplement", c>>

\* Once quarantined for a case, an artifact stays quarantined, and the device
\* log is not sent for that case any more, even after the vault is repaired
\* (main.py quarantine_artifact, "block all future citation/disclosure").
KeepsQuarantine(c) ==
    /\ docs[c].quarantined \subseteq docs'[c].quarantined
    /\ DeviceLog \in docs[c].quarantined =>
         \A i \in Calls : Disclosing(i, c)' => Disclosing(i, c)
QuarantineIsFinal == [][\A c \in Cases : KeepsQuarantine(c)]_vars

\* The thread has passed the guards of supplement and reads the evidence.
Cleared(t, c) == At(t, "disclosing") /\ handlers[t].case = c

Filing(i, c) == Pending(i, "SUBMIT_APPEAL") /\ calls[i].key = <<"submit", c>>

\* Once the consent, or the mandate, of a case has expired, no thread is cleared
\* to disclose its device log, whatever is retried, redelivered or pressed;
\* what leaves later leaves by a thread cleared before, which is one at most.
\* Nor is an appeal filed under an expired mandate (main.py submit, supplement).
KeepsExpiry(c) ==
    /\ clock[c] # "live" => \A t \in Threads : Cleared(t, c)' => Cleared(t, c)
    /\ \A i \in Calls : Disclosing(i, c)' =>
         \/ Disclosing(i, c)
         \/ {t \in Threads : Cleared(t, c)} = {lock}
    /\ clock[c] = "mandateOver" => \A i \in Calls : Filing(i, c)' => Filing(i, c)
ExpiryIsFinal == [][\A c \in Cases : KeepsExpiry(c)]_vars

\* The cases the platform has granted: their own appeal was approved.
Granted == {c \in Cases : docs[c].appeal # None /\ appeals[docs[c].appeal].status = "APPROVED"}

Lifecycle == INSTANCE CaseLifecycle WITH granted <- Granted

\* Whatever thread, retry, redelivery or restart takes the step, a case only
\* ever does what CaseLifecycle promises.
LifecycleKept == Lifecycle!Spec

-----------------------------------------------------------------------------
(* Liveness.                                                               *)

\* A running thread goes on, MockDrop serves what reaches it, and Pub/Sub
\* pushes the first message of a key again until it is acknowledged.  A call to
\* the model has no timeout: that it returns at all is not assumed here.
ServiceFairness ==
    /\ \A t \in Threads : WF_vars(Step(t))
    /\ \A i \in Calls : WF_vars(PlatformServes(i) \/ CallForgotten(i))
    /\ \A a \in Appeals : WF_vars(DuplicateEvent(a) \/ \E t \in Threads : EventBegins(t, a))

FairSpec == Spec /\ ServiceFairness

\* Every call to the model returns, with an answer or an exception.
ModelAnswers == \A t \in Threads : WF_vars(ModelStep(t))

\* Nobody keeps the lock for ever, provided the model answers: a thread
\* finishes, or raises, and the nested methods of one execution do not wait for
\* their own lock.  A model call that hangs keeps it, and stops every case
\* (main.py serialized_workflow, agent.py run).
LockIsReleased == ModelAnswers => (lock # None ~> lock = None)

\* The operator seeds the device log again when it does not decode.
OperatorReseeds == WF_vars(vault[DeviceLog] = "undecodable" /\ VaultReseeded(DeviceLog))

\* MockDrop keeps appeals in memory only: after a restart, or a reset that
\* arrives late, events and cases refer to appeals that are gone, and a late
\* submit may even file a second one, which no case will ever answer for.
MemoryLost == \E a \in Appeals : appeals[a].status # "UNUSED" /\ ~Known(a)

Requested(c) ==
    LET a == docs[c].appeal
    IN  a # None /\ topic[a] # << >> /\ Next1(a) = "SUPPLEMENT_REQUESTED"

\* A case no retry can carry on, because the user's word does not, or no
\* longer, cover what is left to do: the device log was not released or is
\* quarantined while the supplement is outstanding, or an authorization expired.
\* What MockDrop may have approved meanwhile makes no difference.
Stranded(c) ==
    \/ /\ docs[c].state \in {"MANDATE_APPROVED", "SUPPLEMENT_REQUESTED"}
       /\ \/ DeviceLog \notin docs[c].mandate \ docs[c].quarantined
          \/ clock[c] # "live"
    \/ docs[c].state = "DECIDED_APPROVED" /\ clock[c] = "mandateOver"

Carried == ModelAnswers /\ OperatorReseeds

\* Once the submit is saved, the platform's request alone carries the case to
\* the end, with no further word of the user, through crashes, lost answers
\* and lost acknowledgements; unless it is stranded or MockDrop lost its memory.
\* An undecodable device log fails every push until it is seeded again.
EventCompletesCase ==
    Carried =>
        \A c \in Cases :
            Requested(c) ~> (MemoryLost \/ Stranded(c) \/ docs[c].state = "ACCOUNT_ACTIVE")

\* The user presses "run" again whenever the case could go on.
UserResumes(c) == \E t \in Threads : ExecuteBegins(t, c)
UserKeepsResuming == \A c \in Cases : WF_vars(UserResumes(c))


\* Then all events are acknowledged, in whatever order they came; only a
\* stranded case keeps its events coming for ever, each blocking the next of
\* its appeal.
EventsDrain ==
    Carried /\ UserKeepsResuming =>
        \A a \in Appeals :
            topic[a] # << >> ~>
                (MemoryLost \/ topic[a] = << >> \/ Stranded(appeals[a].case))

=============================================================================

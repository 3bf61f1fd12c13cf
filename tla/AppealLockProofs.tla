--------------------------- MODULE AppealLockProofs ---------------------------
(***************************************************************************)
(* What the workflow lock buys, for any number of threads, cases, calls    *)
(* and faults: no save overwrites an update of another thread, a           *)
(* quarantine is never undone or outrun by a disclosure, and once an       *)
(* authorization has expired at most the one thread already cleared goes   *)
(* on to disclose.                                                         *)
(***************************************************************************)
EXTENDS AppealInvariant, AppealProofs

\* A case id that was never opened carries nothing over.
AbsentIsBlank == \A c \in Cases : docs[c].state = "ABSENT" => docs[c] = AbsentCase

\* The inductive invariant: NoLostUpdate needs to know that a thread that
\* waits is the only one at work.
Exclusive == LockHeld /\ NoLostUpdate /\ AbsentIsBlank

\* The steps in which a thread works on a draft without a call.
DraftSteps == ModelSteps \cup VaultSteps

LEMMA IdleShape ==
    Idle.call = None /\ Idle.step = "idle" /\ Idle.op = "idle" /\ "idle" \notin DraftSteps
BY DEF Idle, DraftSteps, ModelSteps, VaultSteps

LEMMA InitExclusive == Init => Exclusive
<1>1. Init => \A t \in Threads : ~AtWork(t)
  BY IdleShape DEF Init, AtWork, DraftSteps
<1> QED
  BY <1>1 DEF Init, AbsentCase, Exclusive, LockHeld, NoLostUpdate, AbsentIsBlank

-----------------------------------------------------------------------------
(* The moves of a thread.                                                  *)

LEMMA SameExclusive ==
    ASSUME Exclusive, UNCHANGED <<docs, lock, handlers>>
    PROVE  Exclusive'
BY DEF Exclusive, LockHeld, NoLostUpdate, AbsentIsBlank, AtWork

\* A thread in a step holds the lock, and every other one is idle.
LEMMA AtWorkAlone ==
    ASSUME Exclusive, NEW t \in Threads, handlers[t] # Idle
    PROVE  lock = t /\ \A u \in Threads : u # t => handlers[u] = Idle
BY DEF Exclusive, LockHeld

LEMMA AcquireExclusive ==
    ASSUME ServiceTypeOK, Exclusive, UNCHANGED docs,
           NEW t \in Threads, NEW op, NEW c, NEW e, NEW step, step \notin DraftSteps,
           Acquire(t, op, c, e, step)
    PROVE  Exclusive'
<1> DEFINE h == [Idle EXCEPT !.op = op, !.case = c, !.event = e, !.step = step]
<1>1. h.call = None /\ h.step = step
  BY DEF Idle
<1>2. handlers' = [handlers EXCEPT ![t] = h] /\ lock' = t /\ lock = None
  BY DEF Acquire
<1> HIDE DEF h
<1>3. \A u \in Threads : handlers[u] = Idle
  BY <1>2, ThreadsAssumption DEF Exclusive, LockHeld
<1>4. \A u \in Threads : /\ handlers'[u].call = None
                         /\ handlers'[u].step \notin DraftSteps
                         /\ handlers'[u] # Idle => u = t
  BY <1>1, <1>2, <1>3, IdleShape DEF ServiceTypeOK
<1> QED
  BY <1>2, <1>4 DEF Exclusive, LockHeld, NoLostUpdate, AbsentIsBlank, AtWork, DraftSteps

\* A thread that ends may save what it likes: nobody else is waiting.
LEMMA LeaveExclusive ==
    ASSUME ServiceTypeOK, Exclusive, NEW t \in Threads, handlers[t] # Idle, Leave(t),
           AbsentIsBlank'
    PROVE  Exclusive'
<1>1. \A u \in Threads : handlers'[u] = Idle
  BY AtWorkAlone DEF ServiceTypeOK, Leave
<1> QED
  BY <1>1, IdleShape DEF Exclusive, LockHeld, NoLostUpdate, AtWork, DraftSteps

LEMMA GoOnExclusive ==
    ASSUME ServiceTypeOK, Exclusive, NEW t \in Threads, handlers[t] # Idle,
           NEW step, step \notin DraftSteps, GoOn(t, step), AbsentIsBlank'
    PROVE  Exclusive'
<1>1. handlers'[t].call = None /\ handlers'[t].step = step
  BY DEF ServiceTypeOK, GoOn, Handler
<1>2. \A u \in Threads : u # t => handlers'[u] = Idle
  BY AtWorkAlone DEF ServiceTypeOK, GoOn
<1>3. lock' = t
  BY AtWorkAlone DEF GoOn
<1> QED
  BY <1>1, <1>2, <1>3, IdleShape DEF Exclusive, LockHeld, NoLostUpdate, AtWork, DraftSteps

\* A thread that goes on works on a draft that is the document, as it has just
\* loaded it or as it was.
LEMMA MoveExclusive ==
    ASSUME ServiceTypeOK, Exclusive, NEW t \in Threads, handlers[t] # Idle,
           NEW doc, handlers[t].case # None => doc = docs[handlers[t].case],
           NEW step, Proceed(t, step, doc) \/ \E k, r : CallPlatform(t, step, doc, k, r)
    PROVE  Exclusive'
<1>1. /\ handlers'[t].case = handlers[t].case /\ handlers'[t].draft = doc
      /\ \A u \in Threads : u # t => handlers'[u] = handlers[u]
      /\ UNCHANGED <<docs, lock>>
  BY DEF ServiceTypeOK, Handler, Proceed, CallPlatform
<1>2. lock' = t /\ \A u \in Threads : u # t => handlers'[u] = Idle
  BY <1>1, AtWorkAlone
<1> QED
  BY <1>1, <1>2, IdleShape
     DEF Exclusive, LockHeld, NoLostUpdate, AbsentIsBlank, AtWork, DraftSteps

\* While the lock is free nobody waits.
LEMMA FreeExclusive ==
    ASSUME Exclusive, lock = None, UNCHANGED <<lock, handlers>>, AbsentIsBlank'
    PROVE  Exclusive'
<1>1. \A t \in Threads : handlers[t] = Idle
  BY ThreadsAssumption DEF Exclusive, LockHeld
<1> QED
  BY <1>1, IdleShape DEF Exclusive, LockHeld, NoLostUpdate, AtWork, DraftSteps

\* A save under a state other than ABSENT leaves the unopened cases alone.
LEMMA SaveBlank ==
    ASSUME ServiceTypeOK, AbsentIsBlank, NEW c \in Cases, NEW doc,
           doc.state # "ABSENT", Save(c, doc)
    PROVE  AbsentIsBlank'
BY DEF ServiceTypeOK, AbsentIsBlank, Save

-----------------------------------------------------------------------------
(* Every step keeps the lock's promises.                                   *)

LEMMA BeginExclusive ==
    ASSUME Base, Exclusive, NEW t \in Threads, Begin(t) PROVE Exclusive'
<1>1. ServiceTypeOK
  BY BaseParts
<1>2. \A op \in Methods \cup {"reset", "mark"} : op \notin DraftSteps
  BY DEF Methods, DraftSteps, ModelSteps, VaultSteps
<1>3. \A c \in Cases : ResumeAt(docs[c].state) \in Methods
  BY DEF ResumeAt, Methods
<1>4. \A step, c : May(step, c) => step \in Methods
  BY DEF May, Methods
<1>5. CASE ResetBegins(t)
  BY <1>1, <1>2, <1>5, AcquireExclusive DEF ResetBegins
<1>6. ASSUME NEW c \in Cases, (\E op \in Methods : MethodBegins(t, op, c)) \/ ExecuteBegins(t, c)
      PROVE  Exclusive'
  BY <1>1, <1>2, <1>3, <1>6, AcquireExclusive DEF MethodBegins, ExecuteBegins
<1>7. ASSUME NEW a \in Appeals, EventBegins(t, a) PROVE Exclusive'
  BY <1>1, <1>2, <1>4, <1>7, AcquireExclusive DEF EventBegins
<1> QED
  BY <1>5, <1>6, <1>7 DEF Begin

\* A step of a thread belongs to a thread at work.
LEMMA StepAtWork ==
    ASSUME Base, NEW t \in Threads, Step(t) \/ ModelStep(t)
    PROVE  handlers[t] # Idle
<1>1. handlers[t].step # "idle" \/ handlers[t].call # None
  BY DEF Step, ModelStep, ResetStep, SubmitStep, SupplementStep, SupplementSends, VerifyStep,
         NoticeStep, MandateStep, MandateCites, NoticeReturns, MandateReturns, ModelFails,
         StepRefused, ArtifactQuarantined, ArtifactRefused, Reading,
         ResetReturns, SubmitReturns, SupplementReturns, VerifyReturns, CallFails, EventMarked,
         At, Answered, Methods, ModelSteps, VaultSteps
<1> QED
  BY <1>1, IdleShape

\* A thread at work has a case, and its draft is that document.
LEMMA DraftIsDocument ==
    ASSUME Base, Exclusive, NEW t \in Threads, handlers[t].step \in CaseSteps,
           handlers[t].call # None \/ handlers[t].step \in DraftSteps
    PROVE  handlers[t].case \in Cases /\ docs[handlers[t].case] = handlers[t].draft
BY BaseParts, NoneAssumption DEF StepsInv, Exclusive, NoLostUpdate, AtWork, DraftSteps

\* Saved: a document with a state, over the one of the same case.
Saves(c, doc) ==
    doc.state # "ABSENT" /\ docs[c].quarantined \subseteq doc.quarantined /\ Save(c, doc)

LEMMA StateSet == \A doc \in CaseDoc, state \in CaseStates :
    LET new == [doc EXCEPT !.state = state]
    IN  new \in CaseDoc /\ new.state = state /\ new.quarantined = doc.quarantined
BY DEF CaseDoc

\* What a thread saves after a call is a document with a state, over the one
\* it read.
LEMMA ReturnSaves ==
    ASSUME Base, Exclusive, NEW t \in Threads,
           ResetReturns(t) \/ SubmitReturns(t) \/ SupplementReturns(t) \/ VerifyReturns(t)
    PROVE  UNCHANGED docs \/ \E c \in Cases, doc \in CaseDoc : Saves(c, doc)
<1> DEFINE c == handlers[t].case
           d == handlers[t].draft
<1>1. ServiceTypeOK /\ d \in CaseDoc
  BY BaseParts DEF ServiceTypeOK, Handler
<1>2. CASE ResetReturns(t)
  <2> DEFINE doc == [AbsentCase EXCEPT !.state = "NOTICE_RECEIVED"]
  <2>1. PICK n \in NewCases : Save(n, doc)
    BY <1>2 DEF ResetReturns
  <2>2. doc \in CaseDoc /\ doc.state = "NOTICE_RECEIVED"
    BY DEF AbsentCase, CaseDoc, CaseStates
  <2> HIDE DEF doc
  <2>3. n \in Cases /\ docs[n].quarantined = {}
    BY DEF NewCases, Exclusive, AbsentIsBlank, AbsentCase
  <2> QED
    BY <2>1, <2>2, <2>3 DEF Saves
<1>3. ASSUME handlers[t].step \in {"submit", "supplement", "verify"}, handlers[t].call # None
      PROVE  c \in Cases /\ docs[c] = d
  BY <1>3, DraftIsDocument DEF CaseSteps, Steps, Methods
<1>4. CASE SubmitReturns(t)
  <2> DEFINE doc == [d EXCEPT !.state = "SUPPLEMENT_REQUESTED", !.appeal = AnswerTo(t).appeal]
  <2>1. c \in Cases /\ docs[c] = d
    BY <1>3, <1>4 DEF SubmitReturns, Answered
  <2>2. AnswerTo(t) \in Answer
    BY <1>1, <1>4, BaseParts
       DEF SubmitReturns, Answered, AnswerTo, ServiceTypeOK, Handler, PlatformTypeOK, Call
  <2>3. /\ doc \in CaseDoc /\ doc.state = "SUPPLEMENT_REQUESTED"
        /\ doc.quarantined = d.quarantined
    BY <1>1, <2>2 DEF CaseDoc, CaseStates, Answer
  <2>4. Save(c, doc)
    BY <1>4 DEF SubmitReturns
  <2> HIDE DEF doc
  <2> QED
    BY <2>1, <2>3, <2>4 DEF Saves
<1>5. CASE SupplementReturns(t)
  <2> DEFINE state == IF AnswerTo(t).status = "APPROVED" THEN "DECIDED_APPROVED"
                                                          ELSE "DECIDED_REJECTED"
             doc == [d EXCEPT !.state = state, !.cyclesUsed = @ + 1]
  <2>1. c \in Cases /\ docs[c] = d
    BY <1>3, <1>5 DEF SupplementReturns, Answered
  <2>2. Save(c, doc)
    BY <1>5 DEF SupplementReturns
  <2>3. state \in CaseStates /\ state # "ABSENT"
    BY DEF CaseStates
  <2> HIDE DEF state
  <2>4. d \in CaseDoc
    BY <1>1
  <2> HIDE DEF d
  <2>5. d.cyclesUsed + 1 \in Nat
    BY <2>4 DEF CaseDoc
  <2>6. doc \in CaseDoc /\ doc.state = state /\ doc.quarantined = d.quarantined
    BY <2>3, <2>4, <2>5 DEF CaseDoc
  <2> HIDE DEF doc
  <2> QED
    BY <2>1, <2>2, <2>3, <2>6 DEF Saves
<1>6. CASE VerifyReturns(t)
  <2> DEFINE doc == [d EXCEPT !.state = "ACCOUNT_ACTIVE"]
  <2>1. c \in Cases /\ docs[c] = d
    BY <1>3, <1>6 DEF VerifyReturns, Answered
  <2>2. doc \in CaseDoc /\ doc.state = "ACCOUNT_ACTIVE" /\ doc.quarantined = d.quarantined
    BY <1>1, StateSet DEF CaseStates
  <2>3. UNCHANGED docs \/ Save(c, doc)
    BY <1>6 DEF VerifyReturns
  <2> HIDE DEF doc
  <2> QED
    BY <2>1, <2>2, <2>3 DEF Saves
<1> QED
  BY <1>2, <1>4, <1>5, <1>6

\* So is what it saves once the model has answered, or of a corrupt artifact.
LEMMA LeaveSaves ==
    ASSUME Base, Exclusive, NEW t \in Threads,
           NoticeReturns(t) \/ MandateReturns(t) \/ ArtifactQuarantined(t)
    PROVE  \E c \in Cases, doc \in CaseDoc : Saves(c, doc)
<1> DEFINE c == handlers[t].case
           d == handlers[t].draft
<1>1. d \in CaseDoc
  BY BaseParts DEF ServiceTypeOK, Handler
<1>2. c \in Cases /\ docs[c] = d
  BY DraftIsDocument DEF NoticeReturns, MandateReturns, ArtifactQuarantined, Reading, At,
                         DraftSteps, ModelSteps, VaultSteps, CaseSteps, Steps
<1>3. CASE NoticeReturns(t)
  <2> DEFINE doc == [d EXCEPT !.state = "PARSED"]
  <2>1. doc \in CaseDoc /\ doc.state = "PARSED" /\ doc.quarantined = d.quarantined
    BY <1>1, StateSet DEF CaseStates
  <2>2. Save(c, doc)
    BY <1>3 DEF NoticeReturns, SaveAndLeave
  <2> HIDE DEF doc
  <2> QED
    BY <1>2, <2>1, <2>2 DEF Saves
<1>4. CASE MandateReturns(t)
  <2> DEFINE doc == [d EXCEPT !.state = "MANDATE_APPROVED", !.mandate = d.consent,
                              !.cyclesUsed = 0]
  <2>1. doc \in CaseDoc /\ doc.state = "MANDATE_APPROVED" /\ doc.quarantined = d.quarantined
    BY <1>1 DEF CaseDoc, CaseStates
  <2>2. Save(c, doc)
    BY <1>4 DEF MandateReturns, SaveAndLeave
  <2> HIDE DEF doc
  <2> QED
    BY <1>2, <2>1, <2>2 DEF Saves
<1>5. CASE ArtifactQuarantined(t)
  <2>1. PICK f \in Needed(t) : SaveAndLeave(t, Quarantined(d, f))
    BY <1>5 DEF ArtifactQuarantined
  <2>2. f \in Artifacts
    BY <1>1, ArtifactsAssumption DEF Needed, CaseDoc
  <2> DEFINE doc == Quarantined(d, f)
  <2>3. doc \in CaseDoc /\ doc.state = d.state /\ d.quarantined \subseteq doc.quarantined
    BY <1>1, <2>2 DEF Quarantined, CaseDoc
  <2>4. Save(c, doc)
    BY <2>1 DEF SaveAndLeave
  <2>5. d.state # "ABSENT"
    BY <1>2, <1>5, BaseParts DEF ArtifactQuarantined, Reading, At, StepsInv
  <2> HIDE DEF doc
  <2> QED
    BY <1>2, <2>3, <2>4, <2>5 DEF Saves
<1> QED
  BY <1>3, <1>4, <1>5

LEMMA StepSaves ==
    ASSUME Base, Exclusive, NEW t \in Threads, Step(t) \/ ModelStep(t)
    PROVE  UNCHANGED docs \/ \E c \in Cases, doc \in CaseDoc : Saves(c, doc)
<1>1. \/ UNCHANGED docs
      \/ ResetReturns(t) \/ SubmitReturns(t) \/ SupplementReturns(t) \/ VerifyReturns(t)
      \/ NoticeReturns(t) \/ MandateReturns(t) \/ ArtifactQuarantined(t)
  BY DEF Step, ModelStep, ResetStep, SubmitStep, SupplementStep, SupplementSends, Disclose,
         VerifyStep, NoticeStep, MandateStep, MandateCites, ModelFails, StepRefused,
         ArtifactRefused, Raise, CallFails, EventMarked, CallPlatform, Proceed
<1> QED
  BY <1>1, ReturnSaves, LeaveSaves

\* A step ends the method, goes on to the next, or moves on within it with the
\* document as its draft.
LEMMA StepGoes ==
    ASSUME Base, Exclusive, NEW t \in Threads, Step(t) \/ ModelStep(t)
    PROVE  \/ Leave(t)
           \/ \E step : step \notin DraftSteps /\ GoOn(t, step)
           \/ \E step, doc :
                /\ handlers[t].case # None => doc = docs[handlers[t].case]
                /\ Proceed(t, step, doc) \/ \E k, r : CallPlatform(t, step, doc, k, r)
<1>1. \A step \in {"supplement", "verify", "mark"} : step \notin DraftSteps
  BY DEF DraftSteps, ModelSteps, VaultSteps
<1>2. CASE ResetStep(t)
  BY <1>2, BaseParts DEF ResetStep, At, StepsInv
<1>3. CASE SubmitStep(t) \/ VerifyStep(t) \/ SupplementStep(t) \/ NoticeStep(t) \/ MandateStep(t)
  BY <1>3 DEF SubmitStep, VerifyStep, SupplementStep, NoticeStep, MandateStep
<1>4. CASE MandateCites(t) \/ SupplementSends(t)
  <2>1. docs[handlers[t].case] = handlers[t].draft
    BY <1>4, DraftIsDocument DEF MandateCites, SupplementSends, At, DraftSteps, VaultSteps,
                                 ModelSteps, CaseSteps, Steps
  <2> QED
    BY <1>4, <2>1 DEF MandateCites, SupplementSends, Disclose
<1>5. CASE ~(\/ ResetStep(t) \/ SubmitStep(t) \/ VerifyStep(t) \/ SupplementStep(t)
             \/ NoticeStep(t) \/ MandateStep(t) \/ MandateCites(t) \/ SupplementSends(t))
  BY <1>1, <1>5
     DEF Step, ModelStep, StepRefused, ArtifactRefused, ArtifactQuarantined, Raise, SaveAndLeave,
         ResetReturns, SubmitReturns, SupplementReturns, VerifyReturns, CallFails, EventMarked,
         NoticeReturns, MandateReturns, ModelFails
<1> QED
  BY <1>2, <1>3, <1>4, <1>5

LEMMA StepExclusive ==
    ASSUME Base, Exclusive, NEW t \in Threads, Step(t) \/ ModelStep(t) PROVE Exclusive'
<1>1. ServiceTypeOK /\ handlers[t] # Idle
  BY BaseParts, StepAtWork
<1>2. AbsentIsBlank'
  <2>1. CASE UNCHANGED docs
    BY <2>1 DEF Exclusive, AbsentIsBlank
  <2> QED
    BY <1>1, <2>1, StepSaves, SaveBlank DEF Exclusive, Saves
<1> QED
  BY <1>1, <1>2, StepGoes, MoveExclusive, LeaveExclusive, GoOnExclusive

LEMMA ConsentSaves ==
    ASSUME Base, NEW c \in Cases, Consent(c)
    PROVE  \E doc \in CaseDoc : Saves(c, doc)
<1>1. PICK chosen \in ConsentChoices :
        Save(c, [docs[c] EXCEPT !.state = "CONSENTED", !.consent = chosen])
  BY DEF Consent
<1> DEFINE doc == [docs[c] EXCEPT !.state = "CONSENTED", !.consent = chosen]
<1>2. docs[c] \in CaseDoc /\ chosen \in SUBSET Artifacts
  BY BaseParts, ArtifactsAssumption DEF ServiceTypeOK
<1>3. doc \in CaseDoc /\ doc.state = "CONSENTED" /\ doc.quarantined = docs[c].quarantined
  BY <1>2 DEF CaseDoc, CaseStates
<1>4. Save(c, doc)
  BY <1>1
<1> HIDE DEF doc
<1> QED
  BY <1>3, <1>4 DEF Saves

LEMMA NextExclusive == Base /\ Exclusive /\ [Next]_vars => Exclusive'
<1> SUFFICES ASSUME Base, Exclusive, [Next]_vars PROVE Exclusive'
  OBVIOUS
<1>1. ServiceTypeOK
  BY BaseParts
<1>2. CASE UNCHANGED vars
  BY <1>2, SameExclusive DEF vars, serviceVars
<1>3. ASSUME NEW t \in Threads, Begin(t) \/ Step(t) \/ ModelStep(t) PROVE Exclusive'
  BY <1>3, BeginExclusive, StepExclusive
<1>4. ASSUME NEW c \in Cases, Consent(c) PROVE Exclusive'
  BY <1>1, <1>4, ConsentSaves, SaveBlank, FreeExclusive DEF Consent, Saves, Exclusive
<1>5. ASSUME NEW a \in Appeals, DuplicateEvent(a) PROVE Exclusive'
  BY <1>5, SameExclusive DEF DuplicateEvent, serviceVars
<1>6. CASE World
  <2>1. ASSUME NEW t \in Threads, StepThrows(t) \/ AckLost(t) PROVE Exclusive'
    <3>1. handlers[t] # Idle /\ Leave(t) /\ UNCHANGED docs
      BY <2>1, IdleShape DEF StepThrows, AckLost, At
    <3>2. AbsentIsBlank'
      BY <3>1 DEF Exclusive, AbsentIsBlank
    <3> QED
      BY <1>1, <3>1, <3>2, LeaveExclusive
  <2>2. CASE Crash
    BY <2>2, IdleShape
       DEF Crash, Exclusive, LockHeld, NoLostUpdate, AbsentIsBlank, AtWork, DraftSteps
  <2>3. CASE UNCHANGED serviceVars
    BY <2>3, SameExclusive DEF serviceVars
  <2> QED
    BY <1>6, <2>1, <2>2, <2>3
       DEF World, ConsentExpires, MandateExpires, VaultDamaged, VaultReseeded,
           PlatformServes, PublicationFails, PlatformRestarts, CallForgotten
<1> QED
  BY <1>2, <1>3, <1>4, <1>5, <1>6 DEF Next

\* The lock spans the read, the platform call and the save of every method, so
\* no thread's save overwrites an update it has not seen (serialized_workflow).
THEOREM NoUpdateIsLost == Spec => []NoLostUpdate
<1>1. Init => Base /\ Exclusive
  BY InitBase, InitExclusive
<1>2. Base /\ Exclusive /\ [Next]_vars => Base' /\ Exclusive'
  BY NextBase, NextExclusive
<1>3. Base /\ Exclusive => NoLostUpdate
  BY DEF Exclusive
<1> QED
  BY <1>1, <1>2, <1>3, PTL DEF Spec

-----------------------------------------------------------------------------
(* Quarantine.                                                             *)

\* No request leaves in this step, or one with this key and request.
NothingSent == \A i \in Calls : calls'[i].stage = "sent" => calls'[i] = calls[i]
OneSent(k, r) ==
    \A i \in Calls : calls'[i].stage = "sent" =>
        \/ calls'[i] = calls[i]
        \/ calls'[i].key = k /\ calls'[i].request = r

\* MockDrop forgets a request once it has served it, and sends none.
LEMMA PlatformSendsNothing ==
    ASSUME PlatformTypeOK, NEW i \in Calls,
           Handle(i) \/ ImportSettles(i) \/ Publish(i) \/ PublishFails(i) \/ Release(i)
    PROVE  NothingSent
<1>1. CASE ~ImportSettles(i)
  <2>1. \E call : call.stage # "sent" /\ calls' = [calls EXCEPT ![i] = call]
    BY <1>1, PublishedTyped
       DEF Handle, HandleReset, HandleGetAccount, HandleSubmit, HandleSupplement, Replay,
           FileAppeal, DecideAppeal, AnswerOnly, AnswerWith, Commit, Served, FreeCall,
           Publish, PublishFails, Release
  <2> QED
    BY <2>1 DEF PlatformTypeOK, NothingSent
<1>2. CASE ImportSettles(i)
  BY <1>2 DEF ImportSettles, PlatformTypeOK, Call, NothingSent
<1> QED
  BY <1>1, <1>2

LEMMA RestartSendsNothing == ASSUME PlatformTypeOK, Restart PROVE NothingSent
BY DEF Restart, Served, FreeCall, PlatformTypeOK, NothingSent

LEMMA SendSends ==
    ASSUME PlatformTypeOK, NEW i \in Calls, NEW k, NEW r, Send(i, k, r)
    PROVE  OneSent(k, r)
BY DEF Send, PlatformTypeOK, OneSent

\* The steps that send.
Sends(t) == ResetStep(t) \/ SubmitStep(t) \/ SupplementSends(t) \/ VerifyStep(t)

LEMMA StepSendsNothing ==
    ASSUME Base, NEW t \in Threads, Step(t) \/ ModelStep(t), ~Sends(t)
    PROVE  NothingSent
<1> USE BaseParts
<1>1. CASE UNCHANGED calls
  BY <1>1 DEF NothingSent
<1>2. CASE ResetReturns(t) \/ SubmitReturns(t) \/ SupplementReturns(t)
           \/ VerifyReturns(t) \/ CallFails(t)
  <2>1. handlers[t].call # None /\ Release(handlers[t].call)
    BY <1>2 DEF ResetReturns, SubmitReturns, SupplementReturns, VerifyReturns, CallFails, Answered
  <2>2. handlers[t].call \in Calls
    BY <2>1 DEF ServiceTypeOK, Handler
  <2> QED
    BY <2>1, <2>2, PlatformSendsNothing
<1>3. CASE UNCHANGED platformVars \/ EventMarked(t)
  BY <1>1, <1>3 DEF platformVars, EventMarked
<1> QED
  BY <1>2, <1>3 DEF Step, ModelStep, Sends, NoticeStep, MandateStep, MandateCites,
       SupplementStep, StepRefused, ArtifactRefused, ArtifactQuarantined, Raise, SaveAndLeave,
       Proceed, NoticeReturns, MandateReturns, ModelFails

LEMMA OtherSendsNothing ==
    ASSUME Base,
           \/ World
           \/ \E t \in Threads : Begin(t)
           \/ \E c \in Cases : Consent(c)
           \/ \E a \in Appeals : DuplicateEvent(a)
    PROVE  NothingSent
<1> USE BaseParts
<1>1. CASE \E i \in Calls : PlatformServes(i) \/ PublicationFails(i) \/ CallForgotten(i)
  BY <1>1, PlatformSendsNothing DEF PlatformServes, PublicationFails, CallForgotten
<1>2. CASE PlatformRestarts
  BY <1>2, RestartSendsNothing DEF PlatformRestarts
<1>3. CASE UNCHANGED calls
  BY <1>3 DEF NothingSent
<1> QED
  BY <1>1, <1>2, <1>3
     DEF World, ConsentExpires, MandateExpires, VaultDamaged, VaultReseeded, StepThrows, AckLost,
         Crash, Begin, ResetBegins, MethodBegins, ExecuteBegins, EventBegins, Consent,
         DuplicateEvent, platformVars

\* A disclosure leaves from a thread that has read the device log of a case
\* that has not quarantined it.
LEMMA NextDiscloses ==
    ASSUME Base, Exclusive, Next
    PROVE  \A i \in Calls, c \in Cases : Disclosing(i, c)' =>
             \/ Disclosing(i, c)
             \/ /\ DeviceLog \notin docs[c].quarantined
                /\ \E t \in Threads : Cleared(t, c) /\ UNCHANGED docs
<1> USE BaseParts
<1>1. CASE NothingSent
  BY <1>1 DEF NothingSent, Disclosing, Pending
<1>2. ASSUME NEW t \in Threads, SupplementSends(t)
      PROVE  \A i \in Calls, c \in Cases : Disclosing(i, c)' =>
               \/ Disclosing(i, c)
               \/ DeviceLog \notin docs[c].quarantined /\ Cleared(t, c) /\ UNCHANGED docs
  <2> DEFINE d == handlers[t].case
  <2>1. At(t, "disclosing") /\ DeviceLog \notin handlers[t].draft.quarantined
    BY <1>2 DEF SupplementSends, Needed, Usable, At
  <2>2. docs[d] = handlers[t].draft
    BY <2>1, DraftIsDocument DEF At, DraftSteps, VaultSteps, CaseSteps, Steps
  <2>3. UNCHANGED docs /\ \E i \in Calls : \E r : Send(i, <<"supplement", d>>, r)
    BY <1>2 DEF SupplementSends, Disclose, CallPlatform
  <2> HIDE DEF d
  <2>4. \A i \in Calls, c \in Cases : Disclosing(i, c)' => Disclosing(i, c) \/ c = d
    BY <2>3, SendSends DEF OneSent, Disclosing, Pending
  <2> QED
    BY <2>1, <2>2, <2>3, <2>4 DEF Cleared, d
<1>3. ASSUME NEW t \in Threads, ResetStep(t) \/ SubmitStep(t) \/ VerifyStep(t)
      PROVE  \A i \in Calls, c \in Cases : Disclosing(i, c)' => Disclosing(i, c)
  <2>1. \E i \in Calls : \E k, r : Send(i, k, r) /\ r.kind # "SUBMIT_SUPPLEMENT"
    <3>1. /\ ResetRequest.kind # "SUBMIT_SUPPLEMENT" /\ AccountRequest.kind # "SUBMIT_SUPPLEMENT"
          /\ \A c : AppealRequest(c).kind # "SUBMIT_SUPPLEMENT"
      BY DEF ResetRequest, AccountRequest, AppealRequest, NoRequest
    <3> QED
      BY <1>3, <3>1 DEF ResetStep, SubmitStep, VerifyStep, CallPlatform
  <2> QED
    BY <2>1, SendSends DEF OneSent, Disclosing, Pending
<1> QED
  BY <1>1, <1>2, <1>3, StepSendsNothing, OtherSendsNothing DEF Next, Sends

LEMMA NextQuarantine ==
    ASSUME Base, Exclusive, Next
    PROVE  \A c \in Cases : KeepsQuarantine(c)
<1> USE BaseParts
<1>1. \A c \in Cases : docs[c].quarantined \subseteq docs'[c].quarantined
  <2>1. CASE UNCHANGED docs
    BY <2>1
  <2>2. CASE \E c \in Cases, doc \in CaseDoc : Saves(c, doc)
    BY <2>2 DEF Saves, Save, ServiceTypeOK
  <2>3. CASE World \/ (\E t \in Threads : Begin(t)) \/ \E a \in Appeals : DuplicateEvent(a)
    BY <2>1, <2>3 DEF World, ConsentExpires, MandateExpires, VaultDamaged, VaultReseeded,
         PlatformServes, PublicationFails, PlatformRestarts, CallForgotten, StepThrows, AckLost,
         Crash, Begin, ResetBegins, MethodBegins, ExecuteBegins, EventBegins, DuplicateEvent,
         serviceVars
  <2> QED
    BY <2>1, <2>2, <2>3, StepSaves, ConsentSaves DEF Next
<1> QED
  BY <1>1, NextDiscloses DEF KeepsQuarantine

\* Once quarantined for a case, an artifact stays quarantined and is not
\* disclosed for it any more, whatever happens to the vault afterwards.
THEOREM QuarantineHolds == Spec => QuarantineIsFinal
<1>1. Init => Base /\ Exclusive
  BY InitBase, InitExclusive
<1>2. Base /\ Exclusive /\ [Next]_vars => Base' /\ Exclusive'
  BY NextBase, NextExclusive
<1>3. Base /\ Exclusive /\ [Next]_vars => [\A c \in Cases : KeepsQuarantine(c)]_vars
  BY NextQuarantine
<1> QED
  BY <1>1, <1>2, <1>3, PTL DEF Spec, QuarantineIsFinal

-----------------------------------------------------------------------------
(* Expiry.                                                                 *)

\* A thread is cleared only by a supplement step, whose guards ask for an
\* active consent.
LEMMA NextClears ==
    ASSUME Base, Next
    PROVE  \A t \in Threads, c \in Cases :
             Cleared(t, c)' => Cleared(t, c) \/ clock[c] = "live"
<1> USE BaseParts
<1>1. ASSUME NEW t \in Threads, NEW h, h.step # "disclosing", handlers' = [handlers EXCEPT ![t] = h]
      PROVE  \A u \in Threads, c \in Cases : Cleared(u, c)' => Cleared(u, c)
  BY <1>1 DEF Cleared, At, ServiceTypeOK
<1>2. ASSUME NEW t \in Threads, Leave(t)
      PROVE  \A u \in Threads, c \in Cases : Cleared(u, c)' => Cleared(u, c)
  BY <1>1, <1>2, IdleShape DEF Leave
<1>3. ASSUME NEW t \in Threads, NEW op, NEW c, NEW e, NEW step, step # "disclosing",
             Acquire(t, op, c, e, step)
      PROVE  \A u \in Threads, d \in Cases : Cleared(u, d)' => Cleared(u, d)
  <2> DEFINE h == [Idle EXCEPT !.op = op, !.case = c, !.event = e, !.step = step]
  <2>1. h.step = step
    BY DEF Idle
  <2>2. handlers' = [handlers EXCEPT ![t] = h]
    BY <1>3 DEF Acquire
  <2> HIDE DEF h
  <2> QED
    BY <1>1, <1>3, <2>1, <2>2
<1>4. ASSUME NEW t \in Threads, NEW step, step # "disclosing",
             \/ GoOn(t, step)
             \/ \E doc : Proceed(t, step, doc) \/ \E k, r : CallPlatform(t, step, doc, k, r)
      PROVE  \A u \in Threads, c \in Cases : Cleared(u, c)' => Cleared(u, c)
  <2>1. handlers'[t].step = step /\ \A u \in Threads : u # t => handlers'[u] = handlers[u]
    <3>1. CASE GoOn(t, step)
      BY <3>1 DEF GoOn, ServiceTypeOK, Handler
    <3>2. ASSUME NEW doc, Proceed(t, step, doc) \/ \E k, r : CallPlatform(t, step, doc, k, r)
          PROVE  /\ handlers'[t].step = step
                 /\ \A u \in Threads : u # t => handlers'[u] = handlers[u]
      BY <3>2 DEF Proceed, CallPlatform, ServiceTypeOK, Handler
    <3> QED
      BY <1>4, <3>1, <3>2
  <2> QED
    BY <1>4, <2>1 DEF Cleared, At
<1>5. ASSUME UNCHANGED handlers
      PROVE  \A t \in Threads, c \in Cases : Cleared(t, c)' => Cleared(t, c)
  BY <1>5 DEF Cleared, At
<1>6. ASSUME NEW t \in Threads, Begin(t)
      PROVE  \A u \in Threads, c \in Cases : Cleared(u, c)' => Cleared(u, c)
  <2>1. \A op \in Methods \cup {"reset", "mark"} : op # "disclosing"
    BY DEF Methods
  <2>2. \A c \in Cases : ResumeAt(docs[c].state) \in Methods
    BY DEF ResumeAt, Methods
  <2>3. \A step, c : May(step, c) => step \in Methods
    BY DEF May, Methods
  <2>4. CASE ResetBegins(t)
    BY <1>3, <2>1, <2>4 DEF ResetBegins
  <2>5. ASSUME NEW c \in Cases, (\E op \in Methods : MethodBegins(t, op, c)) \/ ExecuteBegins(t, c)
        PROVE  \A u \in Threads, d \in Cases : Cleared(u, d)' => Cleared(u, d)
    BY <1>3, <2>1, <2>2, <2>5 DEF MethodBegins, ExecuteBegins
  <2>6. ASSUME NEW a \in Appeals, EventBegins(t, a)
        PROVE  \A u \in Threads, d \in Cases : Cleared(u, d)' => Cleared(u, d)
    BY <1>3, <2>1, <2>3, <2>6 DEF EventBegins
  <2> QED
    BY <1>6, <2>4, <2>5, <2>6 DEF Begin
<1>7. ASSUME NEW t \in Threads, Step(t) \/ ModelStep(t)
      PROVE  \A u \in Threads, c \in Cases : Cleared(u, c)' => Cleared(u, c) \/ clock[c] = "live"
  <2>1. CASE SupplementStep(t)
    <3>1. clock[handlers[t].case] = "live"
      BY <2>1 DEF SupplementStep, MaySupplement, ConsentActive
    <3>2. /\ handlers'[t].case = handlers[t].case
          /\ \A u \in Threads : u # t => handlers'[u] = handlers[u]
      BY <2>1 DEF SupplementStep, Proceed, ServiceTypeOK, Handler
    <3> QED
      BY <3>1, <3>2 DEF Cleared, At
  <2>2. CASE ~SupplementStep(t)
    BY <1>2, <1>4, <1>7, <2>2
       DEF Step, ModelStep, ResetStep, SubmitStep, SupplementSends, Disclose, VerifyStep,
           NoticeStep, MandateStep, MandateCites, StepRefused, ArtifactRefused,
           ArtifactQuarantined, Raise, SaveAndLeave, ResetReturns, SubmitReturns,
           SupplementReturns, VerifyReturns, CallFails, EventMarked, NoticeReturns,
           MandateReturns, ModelFails
  <2> QED
    BY <2>1, <2>2
<1>8. CASE World
  <2>1. CASE Crash
    BY <2>1, IdleShape DEF Crash, Cleared, At
  <2> QED
    BY <1>2, <1>5, <1>8, <2>1
       DEF World, ConsentExpires, MandateExpires, VaultDamaged, VaultReseeded, PlatformServes,
           PublicationFails, PlatformRestarts, CallForgotten, StepThrows, AckLost, serviceVars
<1> QED
  BY <1>5, <1>6, <1>7, <1>8 DEF Next, Consent, DuplicateEvent, serviceVars

\* An appeal is filed only by a submit step, under an active mandate.
LEMMA NextFiles ==
    ASSUME Base, Next
    PROVE  \A i \in Calls, c \in Cases :
             Filing(i, c)' => Filing(i, c) \/ clock[c] # "mandateOver"
<1> USE BaseParts
<1>1. CASE NothingSent
  BY <1>1 DEF NothingSent, Filing, Pending
<1>2. ASSUME NEW t \in Threads, SubmitStep(t)
      PROVE  \A i \in Calls, c \in Cases :
               Filing(i, c)' => Filing(i, c) \/ clock[c] # "mandateOver"
  <2> DEFINE d == handlers[t].case
  <2>1. clock[d] # "mandateOver" /\ \E i \in Calls : \E r : Send(i, <<"submit", d>>, r)
    BY <1>2 DEF SubmitStep, MaySubmit, MandateActive, CallPlatform
  <2> HIDE DEF d
  <2> QED
    BY <2>1, SendSends DEF OneSent, Filing, Pending
<1>3. ASSUME NEW t \in Threads, ResetStep(t) \/ SupplementSends(t) \/ VerifyStep(t)
      PROVE  \A i \in Calls, c \in Cases : Filing(i, c)' => Filing(i, c)
  <2>1. \E i \in Calls : \E k, r : Send(i, k, r) /\ r.kind # "SUBMIT_APPEAL"
    <3>1. /\ ResetRequest.kind # "SUBMIT_APPEAL" /\ AccountRequest.kind # "SUBMIT_APPEAL"
          /\ \A a, m : SupplementRequest(a, m).kind # "SUBMIT_APPEAL"
      BY DEF ResetRequest, AccountRequest, SupplementRequest, NoRequest
    <3> QED
      BY <1>3, <3>1 DEF ResetStep, SupplementSends, Disclose, VerifyStep, CallPlatform
  <2> QED
    BY <2>1, SendSends DEF OneSent, Filing, Pending
<1> QED
  BY <1>1, <1>2, <1>3, StepSendsNothing, OtherSendsNothing DEF Next, Sends

LEMMA NextExpiry ==
    ASSUME Base, Exclusive, Next
    PROVE  \A c \in Cases : KeepsExpiry(c)
<1>1. ASSUME NEW t \in Threads, NEW c \in Cases, Cleared(t, c)
      PROVE  {u \in Threads : Cleared(u, c)} = {lock}
  <2>1. handlers[t] # Idle
    BY <1>1, IdleShape DEF Cleared, At
  <2>2. lock = t /\ \A u \in Threads : u # t => handlers[u] = Idle
    BY <2>1, AtWorkAlone
  <2> QED
    BY <1>1, <2>2, IdleShape DEF Cleared, At
<1> QED
  BY <1>1, NextDiscloses, NextClears, NextFiles DEF KeepsExpiry

\* Once an authorization of a case has expired, no retry, redelivery or press
\* of a button clears another disclosure of its device log; evidence leaves by
\* the one thread that was cleared before, or not at all, and no appeal is filed
\* under an expired mandate.
THEOREM ExpiryHolds == Spec => ExpiryIsFinal
<1>1. Init => Base /\ Exclusive
  BY InitBase, InitExclusive
<1>2. Base /\ Exclusive /\ [Next]_vars => Base' /\ Exclusive'
  BY NextBase, NextExclusive
<1>3. Base /\ Exclusive /\ [Next]_vars => [\A c \in Cases : KeepsExpiry(c)]_vars
  BY NextExpiry
<1> QED
  BY <1>1, <1>2, <1>3, PTL DEF Spec, ExpiryIsFinal

=============================================================================

---------------------------- MODULE AppealProofs ----------------------------
(***************************************************************************)
(* AppealOS keeps its types, its lock and its cases in order: for any      *)
(* number of threads, cases, appeals, calls and faults.                    *)
(***************************************************************************)
EXTENDS AppealProperties, MockDropProofs

CaseSteps == Steps \ {"reset"}

\* A thread in a step on a case has one, and no other has; one that reads the
\* vault works on a case in a state, and for a disclosure on one with an appeal;
\* one handling an event has that.
StepsInv ==
    \A t \in Threads :
        /\ handlers[t].step \in CaseSteps => handlers[t].case \in Cases
        /\ handlers[t].step = "reset" => handlers[t].case = None
        /\ handlers[t].step \in VaultSteps => handlers[t].draft.state # "ABSENT"
        /\ handlers[t].step = "disclosing" => handlers[t].draft.appeal \in Appeals
        /\ handlers[t].step = "mark" => handlers[t].op = "event"
        /\ handlers[t].op = "event" => handlers[t].event \in EventIds

\* The inductive part every other proof starts from.
Base == TypeOK /\ WellFormed /\ StepsInv

\* The records of the service have their types (AppealWorkflow, "Data").
LEMMA ServiceDataTyped == AbsentCase \in CaseDoc /\ Idle \in Handler
<1>1. AbsentCase \in CaseDoc
  BY DEF AbsentCase, CaseDoc, CaseStates
<1> QED
  BY <1>1 DEF Idle, Handler

LEMMA StepNames ==
    /\ Methods \cup ModelSteps \cup VaultSteps \cup {"mark"} = CaseSteps
    /\ CaseSteps \subseteq Steps /\ "idle" \notin Steps
    /\ Methods \subseteq Ops /\ "event" \notin Methods
    /\ "mark" \notin Methods \cup ModelSteps \cup VaultSteps
BY DEF CaseSteps, Steps, Methods, ModelSteps, VaultSteps, Ops

LEMMA InitBase == Init => Base
<1> SUFFICES ASSUME Init PROVE Base
  OBVIOUS
<1>1. TypeOK
  BY PlatformInitTyped, ServiceDataTyped, FaultsAssumption DEF Init, TypeOK, ClockStates, VaultStates
<1>2. WellFormed
  BY DEF Init, PlatformInit, FreeCall, WellFormed, CallsWellFormed, AnswersWellFormed
<1>3. StepsInv
  BY StepNames DEF Init, StepsInv, Idle, VaultSteps
<1> QED
  BY <1>1, <1>2, <1>3 DEF Base

-----------------------------------------------------------------------------
(* Steps that leave part of the state alone.                               *)

ServiceTypeOK ==
    /\ docs \in [Cases -> CaseDoc]
    /\ processed \subseteq EventIds
    /\ lock \in Threads \cup {None}
    /\ handlers \in [Threads -> Handler]

WorldTypeOK ==
    /\ clock \in [Cases -> ClockStates]
    /\ vault \in [Artifacts -> VaultStates]
    /\ faults \in 0 .. MaxFaults

LEMMA TypeParts == TypeOK <=> PlatformTypeOK /\ ServiceTypeOK /\ WorldTypeOK
BY DEF TypeOK, ServiceTypeOK, WorldTypeOK

LEMMA BaseParts ==
    /\ Base <=> /\ PlatformTypeOK /\ WellFormed
                /\ ServiceTypeOK /\ StepsInv
                /\ WorldTypeOK
    /\ Base' <=> /\ PlatformTypeOK' /\ WellFormed'
                 /\ ServiceTypeOK' /\ StepsInv'
                 /\ WorldTypeOK'
BY TypeParts DEF Base, TypeOK, ServiceTypeOK, WorldTypeOK

LEMMA SamePlatform ==
    ASSUME PlatformTypeOK, WellFormed, UNCHANGED platformVars
    PROVE  PlatformTypeOK' /\ WellFormed'
BY DEF platformVars, PlatformTypeOK, WellFormed, CallsWellFormed, AnswersWellFormed

LEMMA SameService ==
    ASSUME ServiceTypeOK, StepsInv, UNCHANGED serviceVars
    PROVE  ServiceTypeOK' /\ StepsInv'
BY DEF serviceVars, ServiceTypeOK, StepsInv

LEMMA SameWorld == WorldTypeOK /\ UNCHANGED worldVars => WorldTypeOK'
BY DEF worldVars, WorldTypeOK

LEMMA FaultTyped == ASSUME NEW p, WorldTypeOK, Fault(p) PROVE faults' \in 0 .. MaxFaults
BY FaultsAssumption DEF WorldTypeOK, Fault

\* Taking an answer off the wire.
LEMMA ReleasePlatform ==
    ASSUME PlatformTypeOK, WellFormed, NEW i \in Calls, Release(i),
           UNCHANGED <<account, appeals, idem, seq, topic, publisher>>
    PROVE  PlatformTypeOK' /\ WellFormed'
BY ReleaseTyped, AnswerWellFormed

\* Removing the first event of an appeal.
LEMMA AckPlatform ==
    ASSUME PlatformTypeOK, WellFormed, NEW a \in Appeals, topic[a] # << >>, Ack(a),
           UNCHANGED <<account, appeals, idem, seq, calls, publisher>>
    PROVE  PlatformTypeOK' /\ WellFormed'
<1>1. topic' \in [Appeals -> Seq(EventTypes)]
  <2>1. topic[a] \in Seq(EventTypes) /\ topic \in [Appeals -> Seq(EventTypes)]
    BY DEF PlatformTypeOK
  <2>2. Tail(topic[a]) \in Seq(EventTypes)
    BY <2>1
  <2> QED
    BY <2>1, <2>2 DEF Ack
<1> QED
  BY <1>1 DEF PlatformTypeOK, WellFormed, CallsWellFormed, AnswersWellFormed

-----------------------------------------------------------------------------
(* The service's own moves.                                                *)

LEMMA AcquireService ==
    ASSUME ServiceTypeOK, StepsInv, UNCHANGED <<docs, processed>>,
           NEW t \in Threads, NEW op \in Ops, NEW c \in Cases \cup {None},
           NEW e \in EventIds \cup {None}, NEW step \in Steps,
           step \in CaseSteps => c \in Cases, step = "reset" => c = None,
           step \notin VaultSteps,
           step = "mark" => op = "event",
           op = "event" => e \in EventIds,
           Acquire(t, op, c, e, step)
    PROVE  ServiceTypeOK' /\ StepsInv'
<1> DEFINE h == [Idle EXCEPT !.op = op, !.case = c, !.event = e, !.step = step]
<1>1. h \in Handler /\ h.op = op /\ h.case = c /\ h.event = e /\ h.step = step
  BY ServiceDataTyped DEF Handler, Idle
<1>2. handlers' = [handlers EXCEPT ![t] = h] /\ lock' = t
  BY DEF Acquire
<1> HIDE DEF h
<1>3. ServiceTypeOK'
  BY <1>1, <1>2 DEF ServiceTypeOK
<1>4. StepsInv'
  BY <1>1, <1>2 DEF ServiceTypeOK, StepsInv, VaultSteps
<1> QED
  BY <1>3, <1>4

LEMMA LeaveService ==
    ASSUME ServiceTypeOK, StepsInv, NEW t \in Threads, Leave(t),
           docs' \in [Cases -> CaseDoc], processed' \subseteq EventIds
    PROVE  ServiceTypeOK' /\ StepsInv'
<1>1. ServiceTypeOK'
  BY ServiceDataTyped DEF ServiceTypeOK, Leave
<1>2. Idle.step = "idle" /\ Idle.op = "idle"
  BY DEF Idle
<1>3. StepsInv'
  BY <1>2, StepNames DEF ServiceTypeOK, StepsInv, Leave, VaultSteps
<1> QED
  BY <1>1, <1>3

LEMMA GoOnService ==
    ASSUME ServiceTypeOK, StepsInv, NEW t \in Threads, NEW step \in CaseSteps \ VaultSteps,
           handlers[t].step \in CaseSteps, step = "mark" => handlers[t].op = "event",
           GoOn(t, step), docs' \in [Cases -> CaseDoc], UNCHANGED processed
    PROVE  ServiceTypeOK' /\ StepsInv'
<1> DEFINE h == [handlers[t] EXCEPT !.step = step, !.call = None, !.draft = AbsentCase]
<1>1. h \in Handler /\ h.step = step /\ h.case = handlers[t].case
      /\ h.op = handlers[t].op /\ h.event = handlers[t].event
  BY ServiceDataTyped DEF ServiceTypeOK, Handler, CaseSteps
<1>2. handlers' = [handlers EXCEPT ![t] = h] /\ lock' = lock
  BY DEF GoOn
<1> HIDE DEF h
<1>3. ServiceTypeOK'
  BY <1>1, <1>2 DEF ServiceTypeOK
<1>4. StepsInv'
  BY <1>1, <1>2 DEF ServiceTypeOK, StepsInv, CaseSteps, VaultSteps
<1> QED
  BY <1>3, <1>4

\* The thread moves on to a step of its method, with the draft it works on.
LEMMA MoveService ==
    ASSUME ServiceTypeOK, StepsInv, UNCHANGED <<docs, processed, lock>>,
           NEW t \in Threads, NEW step \in Steps \ {"mark"}, NEW doc \in CaseDoc,
           step \in CaseSteps => handlers[t].case \in Cases,
           step = "reset" => handlers[t].case = None,
           step \in VaultSteps => doc.state # "ABSENT",
           step = "disclosing" => doc.appeal \in Appeals,
           NEW call \in Calls \cup {None},
           handlers' = [handlers EXCEPT ![t] = [handlers[t] EXCEPT !.step = step, !.draft = doc,
                                                                   !.call = call]]
    PROVE  ServiceTypeOK' /\ StepsInv'
<1> DEFINE h == [handlers[t] EXCEPT !.step = step, !.draft = doc, !.call = call]
<1>1. /\ h \in Handler /\ h.step = step /\ h.draft = doc /\ h.case = handlers[t].case
      /\ h.op = handlers[t].op /\ h.event = handlers[t].event
  BY DEF ServiceTypeOK, Handler
<1>2. handlers' = [handlers EXCEPT ![t] = h]
  OBVIOUS
<1> HIDE DEF h
<1>3. ServiceTypeOK'
  BY <1>1, <1>2 DEF ServiceTypeOK
<1>4. StepsInv'
  BY <1>1, <1>2 DEF ServiceTypeOK, StepsInv
<1> QED
  BY <1>3, <1>4

LEMMA ProceedBase ==
    ASSUME Base, NEW t \in Threads, NEW step \in CaseSteps \ {"mark"}, NEW doc \in CaseDoc,
           handlers[t].case \in Cases,
           step \in VaultSteps => doc.state # "ABSENT", step = "disclosing" => doc.appeal \in Appeals,
           Proceed(t, step, doc)
    PROVE  Base'
<1> USE BaseParts
<1>1. handlers[t] \in Handler
  BY DEF ServiceTypeOK
<1>2. handlers' = [handlers EXCEPT ![t] = [handlers[t] EXCEPT !.step = step, !.draft = doc,
                                                              !.call = handlers[t].call]]
  BY <1>1 DEF Proceed, Handler
<1>3. handlers[t].call \in Calls \cup {None}
  BY <1>1 DEF Handler
<1>4. step \in Steps \ {"mark"} /\ step # "reset"
  BY StepNames DEF CaseSteps
<1>5. ServiceTypeOK /\ StepsInv /\ UNCHANGED <<docs, processed, lock>>
  BY DEF Proceed
<1>6. ServiceTypeOK' /\ StepsInv'
  BY <1>2, <1>3, <1>4, <1>5, MoveService
<1> QED
  BY <1>6, SamePlatform, SameWorld DEF Proceed

\* Sending a request: the platform's side and the thread's.
LEMMA CallBase ==
    ASSUME Base, NEW t \in Threads, NEW k \in Keys \cup {None}, NEW r \in Request,
           NEW step \in {"reset", "submit", "supplement", "verify"}, NEW doc \in CaseDoc,
           step # "reset" => handlers[t].case \in Cases,
           step = "reset" => handlers[t].case = None,
           r.kind = "SUBMIT_APPEAL" => k \in Keys /\ r.case \in Cases,
           r.kind = "SUBMIT_SUPPLEMENT" => k \in Keys /\ r.appeal \in Appeals,
           CallPlatform(t, step, doc, k, r)
    PROVE  Base'
<1> USE BaseParts
<1>1. PICK i \in Calls :
        /\ Send(i, k, r)
        /\ handlers' = [handlers EXCEPT ![t].step = step, ![t].draft = doc, ![t].call = i]
        /\ UNCHANGED <<docs, processed, lock, worldVars,
                       account, appeals, idem, seq, topic, publisher>>
  BY DEF CallPlatform
<1>2. PlatformTypeOK' /\ WellFormed'
  BY <1>1, SendTyped, SendWellFormed
<1>3. WorldTypeOK'
  BY <1>1, SameWorld
<1>4. step \in Steps \ {"mark"} /\ step \notin VaultSteps /\ step # "disclosing"
      /\ (step = "reset" => step \notin CaseSteps)
  BY DEF Steps, Methods, CaseSteps, VaultSteps
<1>5. handlers' = [handlers EXCEPT ![t] = [handlers[t] EXCEPT !.step = step, !.draft = doc,
                                                              !.call = i]]
  BY <1>1 DEF ServiceTypeOK, Handler
<1>6. ServiceTypeOK /\ StepsInv /\ UNCHANGED <<docs, processed, lock>>
  BY <1>1
<1>7. (step \in CaseSteps => handlers[t].case \in Cases) /\ i \in Calls \cup {None}
  BY <1>4
<1>8. ServiceTypeOK' /\ StepsInv'
  BY <1>4, <1>5, <1>6, <1>7, MoveService
<1> QED
  BY <1>2, <1>3, <1>8

\* A method that ends with a save, or with an exception.
LEMMA SaveBase ==
    ASSUME Base, NEW t \in Threads, NEW doc \in CaseDoc, SaveAndLeave(t, doc)
    PROVE  Base'
<1> USE BaseParts
<1>1. docs' \in [Cases -> CaseDoc] /\ processed' \subseteq EventIds
  BY DEF SaveAndLeave, Save, ServiceTypeOK
<1> QED
  BY <1>1, LeaveService, SamePlatform, SameWorld DEF SaveAndLeave

LEMMA RaiseBase == ASSUME Base, NEW t \in Threads, Raise(t) PROVE Base'
BY BaseParts, LeaveService, SamePlatform, SameWorld DEF Raise, ServiceTypeOK

-----------------------------------------------------------------------------
(* Every step keeps the base.                                              *)

LEMMA BeginBase == ASSUME Base, NEW t \in Threads, Begin(t) PROVE Base'
<1> USE BaseParts
<1>1. CASE ResetBegins(t)
  BY <1>1, AcquireService, SamePlatform, SameWorld
     DEF ResetBegins, Ops, Steps, CaseSteps, VaultSteps
<1>2. ASSUME NEW c \in Cases, NEW op \in Methods, MethodBegins(t, op, c) PROVE Base'
  <2>1. op \in CaseSteps /\ op \in Ops /\ op \in Steps /\ op \notin {"mark", "event", "reset"}
      /\ op \notin VaultSteps
    BY StepNames DEF Methods, VaultSteps
  <2> QED
    BY <1>2, <2>1, AcquireService, SamePlatform, SameWorld DEF MethodBegins
<1>4. ASSUME NEW c \in Cases, ExecuteBegins(t, c) PROVE Base'
  <2> DEFINE step == ResumeAt(docs[c].state)
  <2>1. step \in Steps /\ step \notin {"mark", "reset"} /\ step \notin VaultSteps
    BY DEF ResumeAt, Steps, Methods, VaultSteps
  <2>2. "execute" \in Ops
    BY DEF Ops
  <2>3. Acquire(t, "execute", c, None, step) /\ UNCHANGED <<docs, processed, worldVars, platformVars>>
    BY <1>4 DEF ExecuteBegins
  <2> HIDE DEF step
  <2> QED
    BY <2>1, <2>2, <2>3, AcquireService, SamePlatform, SameWorld
<1>3. ASSUME NEW a \in Appeals, EventBegins(t, a) PROVE Base'
  <2> DEFINE type == Next1(a)
             c == appeals[a].case
             step == EventStep(type, docs[c].state)
  <2>1. topic[a] # << >> /\ topic[a] \in Seq(EventTypes)
    BY <1>3 DEF EventBegins, PlatformTypeOK
  <2>2. <<a, type>> \in EventIds
    BY <2>1 DEF Next1, EventIds
  <2>3. /\ c \in Cases
        /\ step = "mark" \/ May(step, c)
        /\ Acquire(t, "event", c, <<a, type>>, step)
        /\ UNCHANGED <<docs, processed, worldVars, platformVars>>
    BY <1>3 DEF EventBegins
  <2>4. step \in Steps /\ step # "reset" /\ step \notin VaultSteps
    BY <2>3 DEF May, Steps, Methods, VaultSteps
  <2> HIDE DEF type, c, step
  <2> QED
    BY <2>2, <2>3, <2>4, AcquireService, SamePlatform, SameWorld DEF Ops
<1> QED
  BY <1>1, <1>2, <1>3, <1>4 DEF Begin

LEMMA StepBase == ASSUME Base, NEW t \in Threads, Step(t) PROVE Base'
<1> USE BaseParts
<1> DEFINE c == handlers[t].case
           i == handlers[t].call
<1>1. handlers[t] \in Handler
  BY DEF ServiceTypeOK
<1>2. CASE ResetStep(t)
  <2>1. ResetRequest \in Request /\ ResetRequest.kind = "RESET"
    BY DataTyped DEF ResetRequest, NoRequest
  <2> QED
    BY <1>2, <2>1, CallBase, ServiceDataTyped DEF ResetStep, At, StepsInv
<1>20. ASSUME handlers[t].step \in CaseSteps PROVE c \in Cases /\ docs[c] \in CaseDoc
  BY <1>20 DEF StepsInv, ServiceTypeOK
<1>21. Methods \subseteq CaseSteps /\ {"citing", "drafting", "disclosing", "parsing"} \subseteq CaseSteps
  BY DEF CaseSteps, Steps, Methods, ModelSteps, VaultSteps
<1>22. handlers[t].draft \in CaseDoc
  BY <1>1 DEF Handler
<1>3. CASE SubmitStep(t)
  <2>1. c \in Cases /\ docs[c] \in CaseDoc
    BY <1>3, <1>20, <1>21 DEF SubmitStep, At, Methods
  <2>2. /\ AppealRequest(c) \in Request /\ AppealRequest(c).kind = "SUBMIT_APPEAL"
        /\ AppealRequest(c).case = c
    BY <2>1, DataTyped DEF AppealRequest, NoRequest
  <2>3. <<"submit", c>> \in Keys
    BY <2>1 DEF Keys, Operations
  <2> QED
    BY <1>3, <2>1, <2>2, <2>3, CallBase DEF SubmitStep
<1>4. CASE SupplementStep(t)
  <2>1. c \in Cases /\ docs[c] \in CaseDoc
    BY <1>4, <1>20, <1>21 DEF SupplementStep, At, Methods
  <2>2. docs[c].appeal \in Appeals /\ docs[c].state # "ABSENT"
    BY <1>4, <2>1 DEF SupplementStep, MaySupplement, CaseDoc
  <2> QED
    BY <1>4, <1>21, <2>1, <2>2, ProceedBase DEF SupplementStep
<1>15. CASE SupplementSends(t)
  <2> DEFINE d == handlers[t].draft
             r == SupplementRequest(d.appeal, vault[DeviceLog] = "intact")
  <2>1. c \in Cases /\ d.appeal \in Appeals
    BY <1>15, <1>20, <1>21 DEF SupplementSends, At, StepsInv
  <2>2. /\ r \in Request /\ r.kind = "SUBMIT_SUPPLEMENT" /\ r.appeal = d.appeal
    BY <2>1, DataTyped DEF SupplementRequest, NoRequest
  <2>3. <<"supplement", c>> \in Keys
    BY <2>1 DEF Keys, Operations
  <2>4. CallPlatform(t, "supplement", d, <<"supplement", c>>, r)
    BY <1>15 DEF SupplementSends, Disclose
  <2> HIDE DEF r
  <2> QED
    BY <1>22, <2>1, <2>2, <2>3, <2>4, CallBase
<1>5. CASE VerifyStep(t)
  <2>1. AccountRequest \in Request /\ AccountRequest.kind = "GET_ACCOUNT"
    BY DataTyped DEF AccountRequest, NoRequest
  <2>2. c \in Cases /\ docs[c] \in CaseDoc
    BY <1>5, <1>20, <1>21 DEF VerifyStep, At, Methods
  <2> QED
    BY <1>5, <2>1, <2>2, CallBase DEF VerifyStep
<1>6. CASE StepRefused(t) \/ ArtifactRefused(t)
  BY <1>6, RaiseBase DEF StepRefused, ArtifactRefused
<1>7. CASE ArtifactQuarantined(t)
  <2>1. PICK f \in Needed(t) : SaveAndLeave(t, Quarantined(handlers[t].draft, f))
    BY <1>7 DEF ArtifactQuarantined
  <2>2. f \in Artifacts
    BY <1>22, ArtifactsAssumption DEF Needed, CaseDoc
  <2>3. Quarantined(handlers[t].draft, f) \in CaseDoc
    BY <1>22, <2>2 DEF Quarantined, CaseDoc
  <2> QED
    BY <2>1, <2>3, SaveBase
<1>16. CASE NoticeStep(t)
  <2>1. c \in Cases /\ docs[c] \in CaseDoc
    BY <1>16, <1>20, <1>21 DEF NoticeStep, At, Methods
  <2> QED
    BY <1>16, <1>21, <2>1, ProceedBase DEF NoticeStep, VaultSteps
<1>17. CASE MandateStep(t)
  <2>1. c \in Cases /\ docs[c] \in CaseDoc
    BY <1>17, <1>20, <1>21 DEF MandateStep, At, Methods
  <2> QED
    BY <1>17, <1>21, <2>1, ProceedBase DEF MandateStep, MayMandate
<1>18. CASE MandateCites(t)
  <2>1. c \in Cases
    BY <1>18, <1>20, <1>21 DEF MandateCites, At
  <2> QED
    BY <1>18, <1>21, <1>22, <2>1, ProceedBase DEF MandateCites, VaultSteps
<1>8. ASSUME i \in Calls, Release(i), docs' \in [Cases -> CaseDoc],
             UNCHANGED <<processed, worldVars, account, appeals, idem, seq, topic, publisher>>,
             \/ Leave(t)
             \/ \E step \in {"supplement", "verify"} : GoOn(t, step)
             \/ handlers[t].op = "event" /\ GoOn(t, "mark"),
             handlers[t].step \in CaseSteps \/ Leave(t)
      PROVE  Base'
  <2>1. PlatformTypeOK' /\ WellFormed' /\ WorldTypeOK'
    BY <1>8, ReleasePlatform, SameWorld
  <2>2. ServiceTypeOK' /\ StepsInv'
    BY <1>8, <1>21, LeaveService, GoOnService, StepNames DEF ServiceTypeOK, Methods, VaultSteps
  <2> QED
    BY <2>1, <2>2
<1>9. CASE ResetReturns(t)
  <2>1. i \in Calls
    BY <1>1, <1>9 DEF ResetReturns, Answered, Handler
  <2>2. [AbsentCase EXCEPT !.state = "NOTICE_RECEIVED"] \in CaseDoc
    BY DEF AbsentCase, CaseDoc, CaseStates
  <2>3. docs' \in [Cases -> CaseDoc]
    BY <1>9, <2>2 DEF ResetReturns, Save, ServiceTypeOK
  <2> QED
    BY <1>8, <1>9, <2>1, <2>3 DEF ResetReturns
<1>10. CASE SubmitReturns(t)
  <2>1. i \in Calls /\ handlers[t].step = "submit" /\ AnswerTo(t) \in Answer
    BY <1>1, <1>10 DEF SubmitReturns, Answered, AnswerTo, Handler, PlatformTypeOK, Call
  <2>2. [handlers[t].draft EXCEPT !.state = "SUPPLEMENT_REQUESTED",
                                  !.appeal = AnswerTo(t).appeal] \in CaseDoc
    BY <1>1, <2>1 DEF Handler, CaseDoc, CaseStates, Answer
  <2>3. docs' \in [Cases -> CaseDoc]
    BY <1>10, <2>2 DEF SubmitReturns, Save, ServiceTypeOK
  <2>9. handlers[t].step \in CaseSteps
    BY <1>21, <2>1 DEF Methods
  <2> QED
    BY <1>8, <1>10, <2>9, <2>1, <2>3 DEF SubmitReturns
<1>11. CASE SupplementReturns(t)
  <2> DEFINE state == IF AnswerTo(t).status = "APPROVED" THEN "DECIDED_APPROVED"
                                                          ELSE "DECIDED_REJECTED"
  <2>1. i \in Calls /\ handlers[t].step = "supplement"
    BY <1>1, <1>11 DEF SupplementReturns, Answered, Handler
  <2>2. state \in CaseStates
    BY DEF CaseStates
  <2>3. docs' = [docs EXCEPT ![c] = [handlers[t].draft EXCEPT !.state = state,
                                                              !.cyclesUsed = @ + 1]]
    BY <1>11 DEF SupplementReturns, Save
  <2> HIDE DEF state
  <2>4. [handlers[t].draft EXCEPT !.state = state, !.cyclesUsed = @ + 1] \in CaseDoc
    <3> DEFINE d == handlers[t].draft
    <3>1. d \in CaseDoc
      BY <1>1 DEF Handler
    <3> HIDE DEF d
    <3>2. d.cyclesUsed + 1 \in Nat
      BY <3>1 DEF CaseDoc
    <3>3. [d EXCEPT !.state = state, !.cyclesUsed = @ + 1] \in CaseDoc
      BY <2>2, <3>1, <3>2 DEF CaseDoc
    <3> QED
      BY <3>3 DEF d
  <2>5. docs' \in [Cases -> CaseDoc]
    BY <2>3, <2>4 DEF ServiceTypeOK
  <2>9. handlers[t].step \in CaseSteps
    BY <1>21, <2>1 DEF Methods
  <2> QED
    BY <1>8, <1>11, <2>9, <2>1, <2>5 DEF SupplementReturns
<1>12. CASE VerifyReturns(t)
  <2>1. i \in Calls /\ handlers[t].step = "verify"
    BY <1>1, <1>12 DEF VerifyReturns, Answered, Handler
  <2>2. [handlers[t].draft EXCEPT !.state = "ACCOUNT_ACTIVE"] \in CaseDoc
    BY <1>1 DEF Handler, CaseDoc, CaseStates
  <2>3. docs' \in [Cases -> CaseDoc]
    BY <1>12, <2>2 DEF VerifyReturns, Save, ServiceTypeOK
  <2>9. handlers[t].step \in CaseSteps
    BY <1>21, <2>1 DEF Methods
  <2> QED
    BY <1>8, <1>12, <2>9, <2>1, <2>3 DEF VerifyReturns
<1>13. CASE CallFails(t)
  <2>1. i \in Calls
    BY <1>1, <1>13 DEF CallFails, Handler
  <2> QED
    BY <1>8, <1>13, <2>1 DEF CallFails, ServiceTypeOK
<1>14. CASE EventMarked(t)
  <2> DEFINE e == handlers[t].event
  <2>1. e \in EventIds
    BY <1>14 DEF EventMarked, At, StepsInv
  <2>2. processed' \subseteq EventIds
    BY <1>14, <2>1 DEF EventMarked, ServiceTypeOK
  <2>3. ServiceTypeOK' /\ StepsInv'
    BY <1>14, <2>2, LeaveService DEF EventMarked, ServiceTypeOK
  <2>4. e[1] \in Appeals
    BY <2>1 DEF EventIds
  <2>5. PlatformTypeOK' /\ WellFormed'
    BY <1>14, <2>4, AckPlatform, SamePlatform DEF EventMarked, platformVars
  <2>6. WorldTypeOK'
    BY <1>14, SameWorld DEF EventMarked
  <2> QED
    BY <2>3, <2>5, <2>6
<1> QED
  BY <1>2, <1>3, <1>4, <1>5, <1>6, <1>7, <1>9, <1>10, <1>11, <1>12,
     <1>13, <1>14, <1>15, <1>16, <1>17, <1>18 DEF Step

LEMMA ModelBase == ASSUME Base, NEW t \in Threads, ModelStep(t) PROVE Base'
<1>1. handlers[t].draft \in CaseDoc
  BY BaseParts DEF ServiceTypeOK, Handler
<1>2. CASE NoticeReturns(t)
  <2>1. [handlers[t].draft EXCEPT !.state = "PARSED"] \in CaseDoc
    BY <1>1 DEF CaseDoc, CaseStates
  <2> QED
    BY <1>2, <2>1, SaveBase DEF NoticeReturns
<1>3. CASE MandateReturns(t)
  <2>1. [handlers[t].draft EXCEPT !.state = "MANDATE_APPROVED",
                                  !.mandate = handlers[t].draft.consent,
                                  !.cyclesUsed = 0] \in CaseDoc
    BY <1>1 DEF CaseDoc, CaseStates
  <2> QED
    BY <1>3, <2>1, SaveBase DEF MandateReturns
<1>4. CASE ModelFails(t)
  BY <1>4, RaiseBase DEF ModelFails
<1> QED
  BY <1>2, <1>3, <1>4 DEF ModelStep

LEMMA ConsentBase == ASSUME Base, NEW c \in Cases, Consent(c) PROVE Base'
<1> USE BaseParts
<1>1. PICK chosen \in ConsentChoices :
        Save(c, [docs[c] EXCEPT !.state = "CONSENTED", !.consent = chosen])
  BY DEF Consent
<1>2. docs[c] \in CaseDoc /\ chosen \in SUBSET Artifacts
  BY ArtifactsAssumption DEF ServiceTypeOK
<1>3. [docs[c] EXCEPT !.state = "CONSENTED", !.consent = chosen] \in CaseDoc
  BY <1>2 DEF CaseDoc, CaseStates
<1>4. ServiceTypeOK' /\ StepsInv'
  BY <1>1, <1>3 DEF Consent, Save, ServiceTypeOK, StepsInv
<1> QED
  BY <1>4, SamePlatform, SameWorld DEF Consent

LEMMA DuplicateBase == ASSUME Base, NEW a \in Appeals, DuplicateEvent(a) PROVE Base'
BY BaseParts, AckPlatform, SameService, SameWorld DEF DuplicateEvent

LEMMA WorldBase == ASSUME Base, World PROVE Base'
<1> USE BaseParts
<1>1. ASSUME NEW c \in Cases, ConsentExpires(c) \/ MandateExpires(c) PROVE Base'
  <2>1. WorldTypeOK'
    BY <1>1 DEF ConsentExpires, MandateExpires, WorldTypeOK, ClockStates
  <2> QED
    BY <1>1, <2>1, SamePlatform, SameService DEF ConsentExpires, MandateExpires
<1>2. ASSUME NEW f \in Artifacts, VaultDamaged(f) \/ VaultReseeded(f) PROVE Base'
  <2>1. vault' \in [Artifacts -> VaultStates] /\ UNCHANGED clock
    BY <1>2 DEF VaultDamaged, VaultReseeded, WorldTypeOK, VaultStates
  <2>2. faults' \in 0 .. MaxFaults
    BY <1>2, FaultTyped DEF VaultDamaged, VaultReseeded, WorldTypeOK
  <2>3. WorldTypeOK'
    BY <2>1, <2>2 DEF WorldTypeOK
  <2> QED
    BY <1>2, <2>3, SamePlatform, SameService DEF VaultDamaged, VaultReseeded
<1>3. ASSUME NEW i \in Calls, PlatformServes(i) PROVE Base'
  <2>1. PlatformTypeOK' /\ WellFormed'
    BY <1>3, HandleTyped, HandleWellFormed, PublishTyped, PublishWellFormed,
       ImportTyped, ImportWellFormed
       DEF PlatformServes, WellFormed
  <2> QED
    BY <1>3, <2>1, SameService, SameWorld DEF PlatformServes
<1>4. ASSUME NEW i \in Calls, PublicationFails(i) PROVE Base'
  <2>1. PlatformTypeOK' /\ WellFormed'
    BY <1>4, PublishTyped, PublishWellFormed DEF PublicationFails, WellFormed
  <2>2. WorldTypeOK'
    BY <1>4, FaultTyped DEF PublicationFails, WorldTypeOK
  <2> QED
    BY <1>4, <2>1, <2>2, SameService DEF PublicationFails
<1>5. ASSUME NEW i \in Calls, CallForgotten(i) PROVE Base'
  BY <1>5, ReleasePlatform, SameService, SameWorld DEF CallForgotten
<1>6. ASSUME NEW t \in Threads, StepThrows(t) \/ AckLost(t) PROVE Base'
  <2>1. PlatformTypeOK' /\ WellFormed'
    BY <1>6, SamePlatform DEF StepThrows, AckLost
  <2>2. WorldTypeOK'
    BY <1>6, FaultTyped DEF StepThrows, AckLost, WorldTypeOK
  <2>3. processed' \subseteq EventIds
    BY <1>6 DEF StepThrows, AckLost, At, StepsInv, ServiceTypeOK
  <2>4. ServiceTypeOK' /\ StepsInv'
    BY <1>6, <2>3, LeaveService DEF StepThrows, AckLost, ServiceTypeOK
  <2> QED
    BY <2>1, <2>2, <2>4
<1>7. CASE PlatformRestarts
  <2>1. PlatformTypeOK' /\ WellFormed'
    BY <1>7, RestartTyped, RestartWellFormed DEF PlatformRestarts
  <2>2. WorldTypeOK'
    BY <1>7, FaultTyped DEF PlatformRestarts, WorldTypeOK
  <2> QED
    BY <1>7, <2>1, <2>2, SameService DEF PlatformRestarts
<1>8. CASE Crash
  <2>1. PlatformTypeOK' /\ WellFormed'
    BY <1>8, SamePlatform DEF Crash
  <2>2. WorldTypeOK'
    BY <1>8, FaultTyped DEF Crash, WorldTypeOK
  <2>3. ServiceTypeOK'
    BY <1>8, ServiceDataTyped DEF Crash, ServiceTypeOK
  <2>4. StepsInv'
    BY <1>8, StepNames DEF Crash, StepsInv, Idle, VaultSteps
  <2> QED
    BY <2>1, <2>2, <2>3, <2>4
<1> QED
  BY <1>1, <1>2, <1>3, <1>4, <1>5, <1>6, <1>7, <1>8 DEF World

LEMMA NextBase == Base /\ [Next]_vars => Base'
<1> SUFFICES ASSUME Base, [Next]_vars PROVE Base'
  OBVIOUS
<1>1. CASE UNCHANGED vars
  BY <1>1, BaseParts, SamePlatform, SameService, SameWorld DEF vars
<1> QED
  BY <1>1, BeginBase, StepBase, ModelBase, ConsentBase, DuplicateBase, WorldBase DEF Next

\* The state of AppealOS and MockDrop together is always well typed.
THEOREM TypeCorrect == Spec => []TypeOK
<1>1. Base => TypeOK
  BY DEF Base
<1> QED
  BY <1>1, InitBase, NextBase, PTL DEF Spec

=============================================================================

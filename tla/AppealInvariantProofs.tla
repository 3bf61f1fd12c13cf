------------------------ MODULE AppealInvariantProofs ------------------------
(***************************************************************************)
(* Retries, duplicates, lost answers and restarts between AppealOS and     *)
(* MockDrop do no harm: IInv (AppealInvariant) holds for any number of     *)
(* cases, appeals, calls, threads and faults, and with it the safety       *)
(* properties of AppealProperties and the refinement of CaseLifecycle.     *)
(*                                                                         *)
(* The argument in three parts: what a step may do to a case (Moves), what *)
(* it may do to an appeal (AppealsGrow), and that the calls on their way   *)
(* stay tied to both.                                                      *)
(***************************************************************************)
EXTENDS AppealLockProofs

\* All a step may rely on.
Inv == Base /\ IInv

LEMMA InvParts ==
    Inv => /\ PlatformTypeOK /\ ServiceTypeOK /\ WellFormed /\ StepsInv
           /\ LockHeld /\ NoLostUpdate /\ CaseShape /\ WaitingShape
           /\ RequestsBound /\ RecordsBound /\ AppealsBound /\ AnswersBound /\ DocsBound
           /\ HandlersBound /\ EventsBound /\ ProcessedMeansFinished
BY BaseParts DEF Inv, IInv

LEMMA InvExclusive == Inv => Exclusive
BY InvParts DEF Exclusive, AbsentIsBlank, CaseShape, DocShape

LEMMA Ranks ==
    /\ Rank("ABSENT") = 0 /\ Rank("NOTICE_RECEIVED") = 1 /\ Rank("PARSED") = 2
    /\ Rank("CONSENTED") = 3 /\ Rank("MANDATE_APPROVED") = 4
    /\ Rank("SUPPLEMENT_REQUESTED") = 5 /\ Rank("DECIDED_APPROVED") = 6
    /\ Rank("DECIDED_REJECTED") = 6 /\ Rank("ACCOUNT_ACTIVE") = 7
BY DEF Rank, DecidedStates

-----------------------------------------------------------------------------
(* What a step may do to a case: one of the moves of CaseLifecycle.        *)

Opens(c, doc) ==
    docs[c].state = "ABSENT" /\ doc = [docs[c] EXCEPT !.state = "NOTICE_RECEIVED"]

Parses(c, doc) ==
    docs[c].state = "NOTICE_RECEIVED" /\ doc = [docs[c] EXCEPT !.state = "PARSED"]

Consents(c, doc) ==
    /\ docs[c].state = "PARSED"
    /\ \E chosen \in ConsentChoices :
         doc = [docs[c] EXCEPT !.state = "CONSENTED", !.consent = chosen]

Mandates(c, doc) ==
    /\ docs[c].state = "CONSENTED"
    /\ docs[c].consent \cap docs[c].quarantined = {}
    /\ doc = [docs[c] EXCEPT !.state = "MANDATE_APPROVED", !.mandate = docs[c].consent]

Quarantines(c, doc) ==
    /\ docs[c].state \in {"CONSENTED", "SUPPLEMENT_REQUESTED"}
    /\ \E f \in docs[c].consent : doc = Quarantined(docs[c], f)

Acknowledges(c, doc) ==
    /\ docs[c].state = "MANDATE_APPROVED"
    /\ \E a \in Appeals :
         /\ appeals[a].case = c
         /\ doc = [docs[c] EXCEPT !.state = "SUPPLEMENT_REQUESTED", !.appeal = a]

Decides(c, doc) ==
    /\ docs[c].state = "SUPPLEMENT_REQUESTED"
    /\ c \in Granted
    /\ doc = [docs[c] EXCEPT !.state = "DECIDED_APPROVED", !.cyclesUsed = 1]

Finishes(c, doc) ==
    docs[c].state = "DECIDED_APPROVED" /\ doc = [docs[c] EXCEPT !.state = "ACCOUNT_ACTIVE"]

Moves(c, doc) ==
    \/ Opens(c, doc) \/ Parses(c, doc) \/ Consents(c, doc) \/ Mandates(c, doc)
    \/ Quarantines(c, doc) \/ Acknowledges(c, doc) \/ Decides(c, doc) \/ Finishes(c, doc)

\* The draft of a thread at work is the stored case.
LEMMA WorkingCase ==
    ASSUME Inv, NEW t \in Threads, handlers[t].step \in CaseSteps,
           handlers[t].call # None \/ handlers[t].step \in DraftSteps
    PROVE  /\ handlers[t].case \in Cases
           /\ docs[handlers[t].case] \in CaseDoc
           /\ handlers[t].draft = docs[handlers[t].case]
           /\ DocShape(docs[handlers[t].case])
<1>1. handlers[t].case \in Cases /\ docs[handlers[t].case] = handlers[t].draft
  BY DraftIsDocument, InvExclusive DEF Inv
<1> QED
  BY <1>1, InvParts DEF ServiceTypeOK, CaseShape

LEMMA WaitingCase ==
    ASSUME Inv, NEW t \in Threads, handlers[t].call # None,
           handlers[t].step \in {"submit", "supplement", "verify"}
    PROVE  /\ handlers[t].case \in Cases
           /\ docs[handlers[t].case] \in CaseDoc
           /\ handlers[t].draft = docs[handlers[t].case]
           /\ DocShape(docs[handlers[t].case])
BY WorkingCase DEF CaseSteps, Steps, Methods

LEMMA AnswerTyped ==
    ASSUME PlatformTypeOK, ServiceTypeOK, NEW t \in Threads, handlers[t].call # None
    PROVE  handlers[t].call \in Calls /\ AnswerTo(t) \in Answer
BY DEF ServiceTypeOK, Handler, PlatformTypeOK, Call, AnswerTo

\* The answer a thread takes is the answer to what it asked.
LEMMA AnswerMatches ==
    ASSUME Inv, NEW t \in Threads, NEW op \in Operations, Answered(t, op)
    PROVE  AnswersTo(op, handlers[t].case, AnswerTo(t)) /\ AnswerBound(AnswerTo(t))
<1>1. handlers[t].call \in Calls /\ handlers[t].call # None /\ handlers[t].step = op
  BY InvParts, AnswerTyped DEF Answered
<1> QED
  BY <1>1, InvParts DEF HandlersBound, AnswersBound, Answered, AnswerTo

LEMMA SubmitMoves ==
    ASSUME Inv, NEW t \in Threads, SubmitReturns(t)
    PROVE  \E c \in Cases, doc \in CaseDoc : Moves(c, doc) /\ Save(c, doc)
<1> DEFINE c == handlers[t].case
           a == AnswerTo(t).appeal
           doc == [docs[c] EXCEPT !.state = "SUPPLEMENT_REQUESTED", !.appeal = a]
<1>1. /\ c \in Cases /\ docs[c] \in CaseDoc /\ handlers[t].draft = docs[c]
      /\ docs[c].state = "MANDATE_APPROVED"
  BY WaitingCase, InvParts DEF SubmitReturns, Answered, WaitingShape
<1>2. a \in Appeals /\ appeals[a].case = c
  BY AnswerMatches DEF SubmitReturns, Operations, AnswersTo
<1>3. Save(c, doc)
  BY <1>1 DEF SubmitReturns
<1>4. doc \in CaseDoc
  BY <1>1, <1>2 DEF CaseDoc, CaseStates
<1>5. Moves(c, doc)
  BY <1>1, <1>2 DEF Moves, Acknowledges
<1> HIDE DEF c, doc
<1> QED
  BY <1>1, <1>3, <1>4, <1>5

LEMMA SupplementMoves ==
    ASSUME Inv, NEW t \in Threads, SupplementReturns(t)
    PROVE  \E c \in Cases, doc \in CaseDoc : Moves(c, doc) /\ Save(c, doc)
<1> DEFINE c == handlers[t].case
           d == docs[c]
           doc == [d EXCEPT !.state = "DECIDED_APPROVED", !.cyclesUsed = 1]
<1>1. /\ c \in Cases /\ d \in CaseDoc /\ handlers[t].draft = d
      /\ d.state = "SUPPLEMENT_REQUESTED" /\ DocShape(d)
  BY WaitingCase, InvParts DEF SupplementReturns, Answered, WaitingShape
<1>2. AnswerTo(t).status = "APPROVED" /\ AnswerTo(t).appeal = d.appeal
  BY AnswerMatches DEF SupplementReturns, Operations, AnswersTo
<1>3. d.appeal # None /\ d.cyclesUsed = 0
  BY <1>1, Ranks DEF DocShape
<1>4. c \in Granted
  BY <1>1, <1>2, <1>3, AnswerMatches DEF SupplementReturns, Operations, AnswerBound, Granted
<1>5. Save(c, [d EXCEPT !.state = "DECIDED_APPROVED", !.cyclesUsed = @ + 1])
  BY <1>1, <1>2 DEF SupplementReturns
<1>6. docs[c] = d
  OBVIOUS
<1> HIDE DEF d, c
<1>7. [d EXCEPT !.state = "DECIDED_APPROVED", !.cyclesUsed = @ + 1] = doc
  BY <1>3
<1>8. doc \in CaseDoc
  BY <1>1 DEF CaseDoc, CaseStates
<1>9. Moves(c, doc)
  BY <1>1, <1>4, <1>6 DEF Moves, Decides
<1> HIDE DEF doc
<1> QED
  BY <1>1, <1>5, <1>7, <1>8, <1>9

LEMMA VerifyMoves ==
    ASSUME Inv, NEW t \in Threads, VerifyReturns(t)
    PROVE  \/ UNCHANGED docs
           \/ \E c \in Cases, doc \in CaseDoc : Moves(c, doc) /\ Save(c, doc)
<1> DEFINE c == handlers[t].case
           doc == [docs[c] EXCEPT !.state = "ACCOUNT_ACTIVE"]
<1>1. /\ c \in Cases /\ docs[c] \in CaseDoc /\ handlers[t].draft = docs[c]
      /\ docs[c].state = "DECIDED_APPROVED"
  BY WaitingCase, InvParts DEF VerifyReturns, Answered, WaitingShape
<1>2. UNCHANGED docs \/ Save(c, doc)
  BY <1>1 DEF VerifyReturns
<1>3. doc \in CaseDoc
  BY <1>1 DEF CaseDoc, CaseStates
<1>4. Moves(c, doc)
  BY <1>1 DEF Moves, Finishes
<1> HIDE DEF c, doc
<1> QED
  BY <1>1, <1>2, <1>3, <1>4

LEMMA ResetMoves ==
    ASSUME Inv, NEW t \in Threads, ResetReturns(t)
    PROVE  \E c \in Cases, doc \in CaseDoc : Moves(c, doc) /\ Save(c, doc)
<1>1. PICK c \in NewCases : Save(c, [AbsentCase EXCEPT !.state = "NOTICE_RECEIVED"])
  BY DEF ResetReturns
<1> DEFINE doc == [AbsentCase EXCEPT !.state = "NOTICE_RECEIVED"]
<1>2. c \in Cases /\ docs[c].state = "ABSENT" /\ docs[c] = AbsentCase
  BY InvParts DEF NewCases, CaseShape, DocShape
<1>3. doc \in CaseDoc
  BY DEF AbsentCase, CaseDoc, CaseStates
<1>4. Moves(c, doc)
  BY <1>2 DEF Moves, Opens
<1> HIDE DEF doc
<1> QED
  BY <1>1, <1>2, <1>3, <1>4 DEF doc

LEMMA QuarantineMoves ==
    ASSUME ServiceTypeOK, NEW c \in Cases, NEW f \in docs[c].consent,
           docs[c].state \in {"CONSENTED", "SUPPLEMENT_REQUESTED"}
    PROVE  Quarantined(docs[c], f) \in CaseDoc /\ Moves(c, Quarantined(docs[c], f))
<1>1. docs[c] \in CaseDoc /\ f \in Artifacts
  BY DEF ServiceTypeOK, CaseDoc
<1>2. Quarantined(docs[c], f) \in CaseDoc
  BY <1>1 DEF Quarantined, CaseDoc
<1> QED
  BY <1>2 DEF Moves, Quarantines

LEMMA ArtifactMoves ==
    ASSUME Inv, NEW t \in Threads, ArtifactQuarantined(t)
    PROVE  \E c \in Cases, doc \in CaseDoc : Moves(c, doc) /\ Save(c, doc)
<1> USE InvParts
<1> DEFINE c == handlers[t].case
<1>1. c \in Cases /\ handlers[t].draft = docs[c]
  BY WorkingCase
     DEF ArtifactQuarantined, Reading, At, CaseSteps, Steps, DraftSteps, ModelSteps, VaultSteps
<1>2. PICK f \in Needed(t) : Save(c, Quarantined(docs[c], f))
  BY <1>1 DEF ArtifactQuarantined, SaveAndLeave
<1>3. docs[c].state \in {"CONSENTED", "SUPPLEMENT_REQUESTED"} /\ f \in docs[c].consent
  <2>1. CASE handlers[t].step = "citing"
    BY <1>1, <1>2, <2>1 DEF Needed, WaitingShape
  <2>2. CASE handlers[t].step = "disclosing"
    BY <1>1, <1>2, <2>2 DEF Needed, WaitingShape, Released
  <2> QED
    BY <2>1, <2>2 DEF ArtifactQuarantined, Reading, At, VaultSteps
<1> QED
  BY <1>1, <1>2, <1>3, QuarantineMoves

\* The answer of the model makes the case parsed, or mandated.
LEMMA ModelMoves ==
    ASSUME Inv, NEW t \in Threads, ModelStep(t)
    PROVE  \/ UNCHANGED docs
           \/ \E c \in Cases, doc \in CaseDoc : Moves(c, doc) /\ Save(c, doc)
<1> USE InvParts
<1> DEFINE c == handlers[t].case
           d == docs[c]
<1>1. CASE NoticeReturns(t)
  <2> DEFINE doc == [d EXCEPT !.state = "PARSED"]
  <2>1. /\ c \in Cases /\ d \in CaseDoc /\ handlers[t].draft = d
        /\ d.state = "NOTICE_RECEIVED"
    BY <1>1, WorkingCase DEF NoticeReturns, At, CaseSteps, Steps, DraftSteps, ModelSteps, WaitingShape
  <2>2. doc \in CaseDoc /\ Save(c, doc)
    BY <1>1, <2>1 DEF NoticeReturns, SaveAndLeave, CaseDoc, CaseStates
  <2>3. Moves(c, doc)
    BY <2>1 DEF Moves, Parses
  <2> HIDE DEF doc, c, d
  <2> QED
    BY <2>1, <2>2, <2>3
<1>2. CASE MandateReturns(t)
  <2> DEFINE doc == [d EXCEPT !.state = "MANDATE_APPROVED", !.mandate = d.consent]
  <2>1. /\ c \in Cases /\ d \in CaseDoc /\ handlers[t].draft = d /\ DocShape(d)
        /\ d.state = "CONSENTED" /\ d.consent \cap d.quarantined = {}
    BY <1>2, WorkingCase DEF MandateReturns, At, CaseSteps, Steps, DraftSteps, ModelSteps, WaitingShape
  <2>2. d.cyclesUsed = 0
    BY <2>1, Ranks DEF DocShape
  <2>3. Save(c, [d EXCEPT !.state = "MANDATE_APPROVED", !.mandate = d.consent, !.cyclesUsed = 0])
    BY <1>2, <2>1 DEF MandateReturns, SaveAndLeave
  <2>4. docs[c] = d
    OBVIOUS
  <2> HIDE DEF d, c
  <2>5. [d EXCEPT !.state = "MANDATE_APPROVED", !.mandate = d.consent, !.cyclesUsed = 0] = doc
    BY <2>1, <2>2 DEF CaseDoc
  <2>6. doc \in CaseDoc
    BY <2>1 DEF CaseDoc, CaseStates
  <2>7. Moves(c, doc)
    BY <2>1, <2>4 DEF Moves, Mandates
  <2> HIDE DEF doc
  <2> QED
    BY <2>1, <2>3, <2>5, <2>6, <2>7
<1>3. CASE ModelFails(t)
  BY <1>3 DEF ModelFails, Raise
<1> QED
  BY <1>1, <1>2, <1>3 DEF ModelStep

\* Whatever a thread saves is a move of its case.
LEMMA StepMoves ==
    ASSUME Inv, NEW t \in Threads, Step(t) \/ ModelStep(t)
    PROVE  \/ UNCHANGED docs
           \/ \E c \in Cases, doc \in CaseDoc : Moves(c, doc) /\ Save(c, doc)
<1>1. CASE Step(t) /\ ~(\/ ResetReturns(t) \/ SubmitReturns(t) \/ SupplementReturns(t)
                        \/ VerifyReturns(t) \/ ArtifactQuarantined(t))
  BY <1>1 DEF Step, ResetStep, SubmitStep, SupplementStep, SupplementSends, Disclose, VerifyStep,
              NoticeStep, MandateStep, MandateCites, StepRefused, ArtifactRefused, Raise,
              CallFails, EventMarked, CallPlatform, Proceed
<1> QED
  BY <1>1, ArtifactMoves, ModelMoves, ResetMoves, SubmitMoves, SupplementMoves, VerifyMoves

\* And so is the consent.
LEMMA ConsentMoves ==
    ASSUME Inv, NEW c \in Cases, Consent(c)
    PROVE  \E doc \in CaseDoc : Moves(c, doc) /\ Save(c, doc)
<1>1. PICK chosen \in ConsentChoices :
        Save(c, [docs[c] EXCEPT !.state = "CONSENTED", !.consent = chosen])
  BY DEF Consent
<1> DEFINE doc == [docs[c] EXCEPT !.state = "CONSENTED", !.consent = chosen]
<1>2. doc \in CaseDoc
  <2>1. docs[c] \in CaseDoc /\ chosen \in SUBSET Artifacts
    BY InvParts, ArtifactsAssumption DEF ServiceTypeOK
  <2> QED
    BY <2>1 DEF CaseDoc, CaseStates
<1>3. Moves(c, doc) /\ Save(c, doc)
  BY <1>1 DEF Consent, Moves, Consents
<1> HIDE DEF doc
<1> QED
  BY <1>2, <1>3

-----------------------------------------------------------------------------
(* What a move keeps.                                                      *)

\* What is settled of a case stays settled.
CasesGrow ==
    \A c \in Cases :
        /\ docs[c].appeal # None => /\ docs'[c].appeal = docs[c].appeal
                                    /\ docs'[c].consent = docs[c].consent
                                    /\ docs'[c].mandate = docs[c].mandate
        /\ docs[c].state = "ACCOUNT_ACTIVE" => docs'[c].state = "ACCOUNT_ACTIVE"

\* A move leaves a case in shape, and what it records is so.
LEMMA MoveSound ==
    ASSUME Inv, NEW c \in Cases, NEW doc \in CaseDoc, Moves(c, doc)
    PROVE  /\ DocShape(doc) /\ DocBound(c, doc)
           /\ docs[c].appeal # None => /\ doc.appeal = docs[c].appeal
                                       /\ doc.consent = docs[c].consent
                                       /\ doc.mandate = docs[c].mandate
           /\ docs[c].state # "ACCOUNT_ACTIVE"
<1> DEFINE d == docs[c]
<1>1. d \in CaseDoc /\ DocShape(d) /\ DocBound(c, d)
  BY InvParts DEF ServiceTypeOK, CaseShape, DocsBound
<1>2. d.state # "ACCOUNT_ACTIVE"
  BY DEF Moves, Opens, Parses, Consents, Mandates, Quarantines, Acknowledges, Decides, Finishes
<1> USE Ranks DEF DocShape, DocBound, DecidedStates
<1>3. CASE Opens(c, doc)
  BY <1>1, <1>3 DEF Opens, AbsentCase, CaseDoc
<1>4. CASE Parses(c, doc)
  BY <1>1, <1>4 DEF Parses, CaseDoc
<1>5. CASE Consents(c, doc)
  BY <1>1, <1>5 DEF Consents, CaseDoc
<1>6. CASE Mandates(c, doc)
  BY <1>1, <1>6 DEF Mandates, CaseDoc
<1>7. CASE Quarantines(c, doc)
  BY <1>1, <1>7 DEF Quarantines, Quarantined, CaseDoc
<1>8. CASE Acknowledges(c, doc)
  BY <1>1, <1>8, NoneAssumption DEF Acknowledges, CaseDoc
<1>9. CASE Decides(c, doc)
  BY <1>1, <1>9 DEF Decides, Granted, CaseDoc
<1>10. CASE Finishes(c, doc)
  BY <1>1, <1>10 DEF Finishes, CaseDoc
<1> QED
  BY <1>2, <1>3, <1>4, <1>5, <1>6, <1>7, <1>8, <1>9, <1>10 DEF Moves

LEMMA SaveKeeps ==
    ASSUME Inv, UNCHANGED appeals, NEW c \in Cases, NEW doc \in CaseDoc,
           Moves(c, doc), Save(c, doc)
    PROVE  CaseShape' /\ DocsBound' /\ CasesGrow
<1> USE InvParts, MoveSound
<1>1. \A b \in Cases : docs'[b] = IF b = c THEN doc ELSE docs[b]
  BY DEF Save, ServiceTypeOK
<1>2. CaseShape'
  BY <1>1 DEF CaseShape, DocShape
<1>3. DocsBound'
  BY <1>1 DEF DocsBound, DocBound
<1>4. CasesGrow
  BY <1>1 DEF CasesGrow
<1> QED
  BY <1>2, <1>3, <1>4

LEMMA SameDocs ==
    ASSUME Inv, UNCHANGED <<docs, appeals>>
    PROVE  CaseShape' /\ DocsBound' /\ CasesGrow
BY InvParts DEF CaseShape, DocShape, DocsBound, DocBound, CasesGrow

-----------------------------------------------------------------------------
(* What a step of the platform keeps of the cases: an appeal stays with    *)
(* its case and stays approved.                                            *)

AppealsGrow ==
    \A a \in Appeals :
        /\ appeals[a].case # None => appeals'[a].case = appeals[a].case
        /\ appeals[a].status # "UNUSED" => appeals'[a].status # "UNUSED"
        /\ appeals[a].status = "APPROVED" => appeals'[a].status = "APPROVED"

LEMMA PlatformKeepsCases ==
    ASSUME Inv, AppealsGrow, UNCHANGED <<docs, handlers, processed>>
    PROVE  /\ CaseShape' /\ WaitingShape' /\ DocsBound' /\ EventsBound'
           /\ ProcessedMeansFinished'
<1> USE InvParts
<1>1. CaseShape' /\ WaitingShape'
  BY DEF CaseShape, DocShape, WaitingShape, Released
<1>2. DocsBound'
  <2> SUFFICES ASSUME NEW c \in Cases PROVE DocBound(c, docs[c])'
    BY DEF DocsBound
  <2>1. docs[c] \in CaseDoc /\ DocBound(c, docs[c]) /\ DocShape(docs[c])
    BY DEF ServiceTypeOK, DocsBound, CaseShape
  <2>2. docs[c].appeal # None => docs[c].appeal \in Appeals
    BY <2>1 DEF CaseDoc
  <2>3. docs[c].state \in DecidedStates => docs[c].appeal # None
    BY <2>1, Ranks DEF DocShape, DecidedStates
  <2> QED
    BY <2>1, <2>2, <2>3, NoneAssumption DEF DocBound, AppealsGrow
<1>3. EventsBound'
  <2>1. \A t \in Threads : handlers[t].op = "event" => handlers[t].event[1] \in Appeals
    BY DEF StepsInv, EventIds
  <2> QED
    BY <2>1, NoneAssumption DEF EventsBound, AppealsGrow
<1>4. ProcessedMeansFinished'
  <2>1. \A e \in processed : e[1] \in Appeals
    BY DEF ServiceTypeOK, EventIds
  <2> QED
    BY <2>1 DEF ProcessedMeansFinished, AppealsGrow
<1> QED
  BY <1>1, <1>2, <1>3, <1>4

\* Some thread waits for call i, with this operation on this case.
Awaits(i, op, c) ==
    \E t \in Threads : handlers[t].call = i /\ handlers[t].step = op /\ handlers[t].case = c

\* A call served with a proper answer, or failed.
Settles(i) ==
    \E x \in Answer :
        /\ calls'[i].stage \in {"publishing", "answered"} /\ calls'[i].answer = x
        /\ AnswerBound(x)'
        /\ \A op \in Operations, c \in Cases : Awaits(i, op, c) => AnswersTo(op, c, x)'

LEMMA ServedShape ==
    \A s, x : /\ Served(s, x).stage = s /\ Served(s, x).answer = x
              /\ Served(s, x).key = None /\ Served(s, x).request = NoRequest
BY DEF Served, FreeCall

\* Requests on their way mean the same while their cases keep their appeals.
LEMMA RequestsKept ==
    ASSUME Inv, CasesGrow,
           \A i \in Calls : calls'[i].stage = "sent" => calls'[i] = calls[i]
    PROVE  RequestsBound'
<1> SUFFICES ASSUME NEW i \in Calls, calls'[i].stage = "sent"
             PROVE  \/ calls'[i].key = None /\ calls'[i].request \in {ResetRequest, AccountRequest}
                    \/ \E c \in Cases : /\ calls'[i].key = <<"submit", c>>
                                        /\ calls'[i].request = AppealRequest(c)
                    \/ \E c \in Cases : /\ calls'[i].key = <<"supplement", c>>
                                        /\ docs'[c].appeal \in Appeals /\ Released(c)'
                                        /\ calls'[i].request
                                             = SupplementRequest(docs'[c].appeal, TRUE)
  BY DEF RequestsBound
<1>1. calls'[i] = calls[i] /\ calls[i].stage = "sent"
  OBVIOUS
<1>2. CASE \E c \in Cases : /\ calls[i].key = <<"supplement", c>>
                            /\ docs[c].appeal \in Appeals /\ Released(c)
                            /\ calls[i].request = SupplementRequest(docs[c].appeal, TRUE)
  BY <1>1, <1>2, NoneAssumption DEF CasesGrow, Released
<1> QED
  BY <1>1, <1>2, InvParts DEF RequestsBound

\* Serving calls properly keeps every call tied to its case and its key.
LEMMA SettledCalls ==
    ASSUME Inv, AppealsGrow, UNCHANGED <<docs, handlers>>,
           \A i \in Calls : calls'[i] = calls[i] \/ Settles(i)
    PROVE  RequestsBound' /\ AnswersBound' /\ HandlersBound'
<1> USE InvParts, ServedShape
<1>1. RequestsBound'
  <2>1. \A i \in Calls : calls'[i].stage = "sent" => calls'[i] = calls[i]
    BY DEF Settles
  <2>2. CasesGrow
    BY DEF CasesGrow
  <2> QED
    BY <2>1, <2>2, RequestsKept
<1>2. AnswersBound'
  <2> SUFFICES ASSUME NEW i \in Calls PROVE AnswerBound(calls[i].answer)'
    BY DEF AnswersBound
  <2>1. CASE calls'[i] = calls[i]
    <3>1. calls[i].answer \in Answer /\ AnswerBound(calls[i].answer)
      BY DEF PlatformTypeOK, Call, AnswersBound
    <3> QED
      BY <2>1, <3>1 DEF AnswerBound, AppealsGrow, Answer
  <2>2. CASE Settles(i)
    BY <2>2 DEF Settles, AnswerBound
  <2> QED
    BY <2>1, <2>2
<1>3. HandlersBound'
  <2> SUFFICES ASSUME NEW t \in Threads, handlers[t].call # None,
                      handlers[t].step \in Operations
               PROVE  \/ /\ calls'[handlers[t].call].stage = "sent"
                         /\ calls'[handlers[t].call].key = <<handlers[t].step, handlers[t].case>>
                      \/ /\ calls'[handlers[t].call].stage \in {"publishing", "answered"}
                         /\ AnswersTo(handlers[t].step, handlers[t].case,
                                      calls[handlers[t].call].answer)'
    BY DEF HandlersBound
  <2> DEFINE i == handlers[t].call
             op == handlers[t].step
             c == handlers[t].case
  <2>1. i \in Calls /\ c \in Cases
    BY DEF ServiceTypeOK, Handler, StepsInv, CaseSteps, Steps, Methods, Operations
  <2>2. CASE calls'[i] = calls[i]
    <3>1. calls[i].answer \in Answer
      BY <2>1 DEF PlatformTypeOK, Call
    <3>2. CASE AnswersTo(op, c, calls[i].answer)
      <4>1. AnswersTo(op, c, calls[i].answer)'
        BY <2>1, <2>2, <3>1, <3>2, NoneAssumption DEF AnswersTo, AppealsGrow
      <4> QED
        BY <2>2, <4>1 DEF HandlersBound
    <3> QED
      BY <2>2, <3>2 DEF HandlersBound
  <2>3. CASE Settles(i)
    <3>1. Awaits(i, op, c)
      BY DEF Awaits
    <3>2. PICK x \in Answer : /\ calls'[i].stage \in {"publishing", "answered"}
                              /\ calls'[i].answer = x /\ AnswersTo(op, c, x)'
      BY <2>1, <2>3, <3>1 DEF Settles
    <3> QED
      BY <3>2 DEF AnswersTo
  <2> QED
    BY <2>1, <2>2, <2>3
<1> QED
  BY <1>1, <1>2, <1>3

-----------------------------------------------------------------------------
(* What the platform has on record.                                        *)

\* Records and appeals stay tied to their cases while cases only grow.
LEMMA SameStore ==
    ASSUME Inv, CasesGrow, UNCHANGED <<appeals, idem>>
    PROVE  RecordsBound' /\ AppealsBound' /\ AppealsGrow
<1> USE InvParts
<1>1. \A c \in Cases : docs[c].appeal \in Appeals =>
                          /\ docs'[c].appeal = docs[c].appeal
                          /\ Released(c) => Released(c)'
  BY NoneAssumption DEF CasesGrow, Released
<1>2. \A k : Used(k)' <=> Used(k)
  BY DEF Used
<1>3. RecordsBound'
  <2> SUFFICES ASSUME NEW c \in Cases PROVE SubmitRecorded(c)' /\ SupplementRecorded(c)'
    BY DEF RecordsBound
  <2>1. SubmitRecorded(c)'
    BY <1>2 DEF RecordsBound, SubmitRecorded
  <2>2. CASE Used(<<"supplement", c>>)
    BY <1>1, <2>1, <2>2 DEF RecordsBound, SupplementRecorded
  <2>3. CASE ~Used(<<"supplement", c>>)
    BY <1>2, <2>1, <2>3 DEF SupplementRecorded
  <2> QED
    BY <2>2, <2>3
<1>4. AppealsBound'
  <2> SUFFICES ASSUME NEW a \in Appeals PROVE AppealBound(a)'
    BY DEF AppealsBound
  <2>1. AppealBound(a) /\ (appeals[a].status # "UNUSED" => appeals[a].case # None)
    BY NoneAssumption DEF AppealsBound, AppealBound
  <2> QED
    BY <1>1, <1>2, <2>1 DEF AppealBound, Decided, Known
<1>5. AppealsGrow
  BY DEF AppealsGrow
<1> QED
  BY <1>3, <1>4, <1>5

\* A wiped store holds no appeal and has no record, but approvals happened.
LEMMA WipeStore ==
    ASSUME Inv, Wipe, UNCHANGED docs
    PROVE  RecordsBound' /\ AppealsBound' /\ AppealsGrow
<1> USE InvParts
<1>1. \A k \in Keys : ~Used(k)'
  BY DEF Wipe, Used
<1>2. \A c \in Cases : <<"submit", c>> \in Keys /\ <<"supplement", c>> \in Keys
  BY DEF Keys, Operations
<1>3. \A a \in Appeals : /\ appeals'[a].case = appeals[a].case
                         /\ appeals'[a].status = appeals[a].status
                         /\ ~appeals'[a].held
                         /\ appeals[a] = UnusedAppeal => appeals'[a] = UnusedAppeal
  <2> SUFFICES ASSUME NEW a \in Appeals
               PROVE  /\ appeals'[a].case = appeals[a].case
                      /\ appeals'[a].status = appeals[a].status
                      /\ ~appeals'[a].held
                      /\ appeals[a] = UnusedAppeal => appeals'[a] = UnusedAppeal
    OBVIOUS
  <2> DEFINE r == appeals[a]
  <2>1. r \in AppealRecord /\ appeals'[a] = [r EXCEPT !.held = FALSE]
    BY DEF Wipe, PlatformTypeOK
  <2> HIDE DEF r
  <2>2. /\ [r EXCEPT !.held = FALSE].case = r.case /\ [r EXCEPT !.held = FALSE].status = r.status
        /\ ~[r EXCEPT !.held = FALSE].held
        /\ r = UnusedAppeal => [r EXCEPT !.held = FALSE] = r
    BY <2>1 DEF AppealRecord, UnusedAppeal
  <2> QED
    BY <2>1, <2>2 DEF r
<1>4. RecordsBound'
  BY <1>1, <1>2 DEF RecordsBound, SubmitRecorded, SupplementRecorded
<1>5. AppealsBound'
  <2> SUFFICES ASSUME NEW a \in Appeals PROVE AppealBound(a)'
    BY DEF AppealsBound
  <2>1. AppealBound(a)
    BY DEF AppealsBound
  <2> QED
    BY <1>3, <2>1 DEF AppealBound, Known, Released
<1>6. AppealsGrow
  BY <1>3 DEF AppealsGrow
<1> QED
  BY <1>4, <1>5, <1>6

\* The request under way is what its kind says.
LEMMA PendingShape ==
    ASSUME Inv, NEW i \in Calls
    PROVE  /\ Pending(i, "RESET") \/ Pending(i, "GET_ACCOUNT") => calls[i].key = None
           /\ Pending(i, "SUBMIT_APPEAL") =>
                \E c \in Cases : calls[i].key = <<"submit", c>> /\ calls[i].request = AppealRequest(c)
           /\ Pending(i, "SUBMIT_SUPPLEMENT") =>
                \E c \in Cases : /\ calls[i].key = <<"supplement", c>>
                                 /\ docs[c].appeal \in Appeals /\ Released(c)
                                 /\ calls[i].request = SupplementRequest(docs[c].appeal, TRUE)
<1>1. /\ ResetRequest.kind = "RESET" /\ AccountRequest.kind = "GET_ACCOUNT"
      /\ \A c : AppealRequest(c).kind = "SUBMIT_APPEAL"
      /\ \A a, m : SupplementRequest(a, m).kind = "SUBMIT_SUPPLEMENT"
  BY DEF ResetRequest, AccountRequest, AppealRequest, SupplementRequest, NoRequest
<1> QED
  BY <1>1, InvParts DEF RequestsBound, Pending

\* A new appeal is recorded under the key of its case.
LEMMA FileStore ==
    ASSUME Inv, NEW i \in Calls, Pending(i, "SUBMIT_APPEAL"), ~Used(calls[i].key),
           FileAppeal(i), UNCHANGED docs
    PROVE  RecordsBound' /\ AppealsBound' /\ AppealsGrow
<1> USE InvParts
<1>1. PICK c \in Cases : calls[i].key = <<"submit", c>> /\ calls[i].request = AppealRequest(c)
  BY PendingShape
<1>2. AppealRequest(c).case = c /\ AppealRequest(c) # NoRequest
  BY DEF AppealRequest, NoRequest
<1> DEFINE x(a) == [result |-> "OK", appeal |-> a, status |-> "SUPPLEMENT_REQUESTED",
                    account |-> "NONE", receipt |-> seq + 1]
           record(a) == [request |-> AppealRequest(c), answer |-> x(a)]
<1>3. PICK a \in Appeals :
        /\ appeals[a] = UnusedAppeal
        /\ appeals' = [appeals EXCEPT ![a] = NewAppeal(c)]
        /\ idem' = [idem EXCEPT ![<<"submit", c>>] = record(a)]
  BY <1>1, <1>2, ZenonT(60) DEF FileAppeal, Commit
<1>4. /\ record(a).request = AppealRequest(c) /\ record(a).answer.result = "OK"
      /\ record(a).answer.status = "SUPPLEMENT_REQUESTED" /\ record(a).answer.appeal = a
      /\ record(a) # NoRecord
  BY <1>2 DEF NoRecord
<1>5. /\ appeals[a].case = None /\ appeals[a].status = "UNUSED" /\ ~appeals[a].held
      /\ NewAppeal(c).case = c /\ NewAppeal(c).status = "SUPPLEMENT_REQUESTED"
      /\ NewAppeal(c).held
  BY <1>3 DEF UnusedAppeal, NewAppeal
<1> HIDE DEF record
<1>6. \A b \in Appeals : appeals'[b] = IF b = a THEN NewAppeal(c) ELSE appeals[b]
  BY <1>3 DEF PlatformTypeOK
<1>7. \A d \in Cases : /\ <<"submit", d>> \in Keys /\ <<"supplement", d>> \in Keys
                       /\ idem'[<<"supplement", d>>] = idem[<<"supplement", d>>]
                       /\ d # c => idem'[<<"submit", d>>] = idem[<<"submit", d>>]
  BY <1>3 DEF PlatformTypeOK, Keys, Operations
<1>8. idem'[<<"submit", c>>] = record(a)
  BY <1>3, <1>7 DEF PlatformTypeOK
<1>9. RecordsBound'
  <2> SUFFICES ASSUME NEW d \in Cases PROVE SubmitRecorded(d)' /\ SupplementRecorded(d)'
    BY DEF RecordsBound
  <2>1. SubmitRecorded(d) /\ SupplementRecorded(d)
    BY DEF RecordsBound
  <2>2. SupplementRecorded(d)'
    <3>1. Used(<<"supplement", d>>)' => Used(<<"supplement", d>>)
      BY <1>7 DEF Used
    <3>2. docs[d].appeal \in Appeals => docs[d].appeal # a \/ appeals[a].status # "APPROVED"
      BY <1>5
    <3> QED
      BY <1>5, <1>6, <1>7, <2>1, <3>1, <3>2 DEF SupplementRecorded
  <2>3. CASE d = c
    BY <1>4, <1>5, <1>6, <1>8, <2>2, <2>3 DEF SubmitRecorded
  <2>4. CASE d # c
    <3>1. Used(<<"submit", d>>)' => Used(<<"submit", d>>)
      BY <1>7, <2>4 DEF Used
    <3>2. d # None
      BY NoneAssumption
    <3> QED
      BY <1>5, <1>6, <1>7, <2>1, <2>2, <2>4, <3>1, <3>2 DEF SubmitRecorded
  <2> QED
    BY <2>3, <2>4
<1>10. AppealsBound'
  <2>1. Used(<<"submit", c>>)'
    BY <1>4, <1>8 DEF Used
  <2>2. \A d \in Cases : Used(<<"submit", d>>) => d # c /\ Used(<<"submit", d>>)'
    BY <1>1, <1>7 DEF Used
  <2> SUFFICES ASSUME NEW b \in Appeals PROVE AppealBound(b)'
    BY DEF AppealsBound
  <2>3. AppealBound(b)
    BY DEF AppealsBound
  <2>4. CASE b = a
    BY <1>4, <1>5, <1>6, <1>8, <2>1, <2>4 DEF AppealBound, Used, Known, Decided
  <2>5. CASE b # a
    <3>1. appeals'[b] = appeals[b]
      BY <1>6, <2>5
    <3>2. Known(b) => appeals[b].status # "UNUSED"
      BY <2>3 DEF AppealBound, Known, UnusedAppeal
    <3> QED
      BY <1>7, <2>2, <2>3, <3>1, <3>2, ZenonT(60) DEF AppealBound, Known, Used, Released
  <2> QED
    BY <2>4, <2>5
<1>11. AppealsGrow
  BY <1>5, <1>6 DEF AppealsGrow
<1> QED
  BY <1>9, <1>10, <1>11

\* A decision approves the appeal its case waits on, and is recorded.
LEMMA DecideStore ==
    ASSUME Inv, NEW i \in Calls, Pending(i, "SUBMIT_SUPPLEMENT"), ~Used(calls[i].key),
           Known(calls[i].request.appeal),
           appeals[calls[i].request.appeal].status = "SUPPLEMENT_REQUESTED",
           DecideAppeal(i), UNCHANGED docs,
           NEW c \in Cases, calls[i].key = <<"supplement", c>>,
           docs[c].appeal \in Appeals, Released(c),
           calls[i].request = SupplementRequest(docs[c].appeal, TRUE)
    PROVE  /\ RecordsBound' /\ AppealsBound' /\ AppealsGrow
           /\ appeals' = [appeals EXCEPT ![docs[c].appeal].status = "APPROVED"]
           /\ appeals[docs[c].appeal].case = c
           /\ \E x \in Answer : /\ calls' = [calls EXCEPT ![i] = Published(x)]
                                /\ x.result = "OK" /\ x.status = "APPROVED"
                                /\ x.appeal = docs[c].appeal
<1> USE InvParts
<1> DEFINE a == docs[c].appeal
           request == SupplementRequest(a, TRUE)
           account2 == [status |-> "ACTIVE", version |-> account.version + 1]
           x == [result |-> "OK", appeal |-> a, status |-> "APPROVED",
                 account |-> account2.status, receipt |-> seq + 1]
           record == [request |-> request, answer |-> x]
<1>1. request.appeal = a /\ request.matches = TRUE /\ request # NoRequest
  BY DEF SupplementRequest, NoRequest
<1>2. /\ appeals' = [appeals EXCEPT ![a].status = "APPROVED"]
      /\ calls' = [calls EXCEPT ![i] = Published(x)]
      /\ idem' = [idem EXCEPT ![<<"supplement", c>>] = record]
  BY <1>1 DEF DecideAppeal, Commit
<1>3. x \in Answer
  BY DEF Answer, OpenOrDecided, Decided, AccountStatus, PlatformTypeOK
<1>4. x.result = "OK" /\ x.status = "APPROVED" /\ x.appeal = a
  OBVIOUS
<1>5. record.request = request /\ record.answer = x /\ record # NoRecord
  BY <1>1 DEF NoRecord
<1>6. appeals[a].case = c /\ appeals[a].status = "SUPPLEMENT_REQUESTED"
  BY <1>1, NoneAssumption DEF DocsBound, DocBound
<1> HIDE DEF request, x, record
<1>7. \A b \in Appeals : /\ appeals'[b].case = appeals[b].case
                         /\ appeals'[b].held = appeals[b].held
                         /\ b # a => appeals'[b] = appeals[b]
                         /\ appeals'[a].status = "APPROVED"
  BY <1>2 DEF PlatformTypeOK, AppealRecord
<1>8. \A d \in Cases : /\ idem'[<<"submit", d>>] = idem[<<"submit", d>>]
                       /\ d # c => idem'[<<"supplement", d>>] = idem[<<"supplement", d>>]
                       /\ idem'[<<"supplement", c>>] = record
  BY <1>2 DEF PlatformTypeOK, Keys, Operations
<1>9. \A d \in Cases : Used(<<"submit", d>>)' <=> Used(<<"submit", d>>)
  BY <1>8 DEF Used
<1>10. RecordsBound'
  <2> SUFFICES ASSUME NEW d \in Cases PROVE SubmitRecorded(d)' /\ SupplementRecorded(d)'
    BY DEF RecordsBound
  <2>1. SubmitRecorded(d) /\ SupplementRecorded(d)
    BY DEF RecordsBound
  <2>2. SubmitRecorded(d)'
    BY <1>7, <1>8, <1>9, <2>1 DEF SubmitRecorded
  <2>3. CASE d = c
    <3>1. SupplementRecorded(c)'
      BY <1>4, <1>5, <1>7, <1>8 DEF SupplementRecorded, request
    <3> QED
      BY <2>2, <2>3, <3>1
  <2>4. CASE d # c
    <3>1. Used(<<"supplement", d>>)' => Used(<<"supplement", d>>)
      BY <1>8, <2>4 DEF Used
    <3>2. SupplementRecorded(d)'
      BY <1>6, <1>7, <1>8, <2>1, <2>4, <3>1 DEF SupplementRecorded
    <3> QED
      BY <2>2, <3>2
  <2> QED
    BY <2>3, <2>4
<1>11. AppealsBound'
  <2> SUFFICES ASSUME NEW b \in Appeals PROVE AppealBound(b)'
    BY DEF AppealsBound
  <2>1. AppealBound(b) /\ (appeals[b].status # "UNUSED" => appeals[b].case \in Cases)
    BY DEF AppealsBound, AppealBound
  <2>2. Known(b)' => Known(b)
    BY <1>7 DEF Known
  <2>3. Known(b) => appeals[b].case \in Cases
    BY <2>1 DEF AppealBound, Known, UnusedAppeal
  <2>4. Released(appeals[b].case)' <=> Released(appeals[b].case)
    BY <1>7 DEF Released
  <2>5. CASE b = a
    <3>1. Known(a) => Used(<<"submit", c>>) /\ idem[<<"submit", c>>].answer.appeal = a
      BY <1>6, <2>1, <2>5 DEF AppealBound
    <3> QED
      BY <1>6, <1>7, <1>8, <1>9, <2>2, <2>4, <2>5, <3>1 DEF AppealBound, Decided, Released
  <2>6. CASE b # a
    BY <1>7, <1>8, <1>9, <2>1, <2>2, <2>3, <2>4, <2>6 DEF AppealBound
  <2> QED
    BY <2>5, <2>6
<1>12. AppealsGrow
  BY <1>6, <1>7 DEF AppealsGrow
<1> QED
  BY <1>2, <1>3, <1>4, <1>6, <1>10, <1>11, <1>12

-----------------------------------------------------------------------------
(* Serving a call.                                                         *)

\* A thread awaits a sent call under the key of its step, and one already
\* served with the answer to it.
LEMMA AwaitedCall ==
    ASSUME Inv, NEW i \in Calls, NEW op \in Operations, NEW c \in Cases, Awaits(i, op, c)
    PROVE  /\ calls[i].stage = "sent" => calls[i].key = <<op, c>>
           /\ calls[i].stage # "sent" => AnswersTo(op, c, calls[i].answer)
<1>1. PICK t \in Threads : handlers[t].call = i /\ handlers[t].step = op /\ handlers[t].case = c
  BY DEF Awaits
<1>2. i # None
  BY NoneAssumption
<1> QED
  BY <1>1, <1>2, InvParts DEF HandlersBound

LEMMA KeyShape ==
    \A op \in Operations, c \in Cases : <<op, c>> \in Keys /\ <<op, c>> # None
BY KeysAssumption DEF Keys

\* An answer that names no appeal is proper when it is a failure, or when the
\* call carried no key.
LEMMA PlainSettles ==
    ASSUME Inv, NEW i \in Calls, NEW x \in Answer,
           x.appeal = None, x.status = "NONE", x.result # "KEY_REUSE",
           x.result # "OK" \/ (calls[i].stage = "sent" /\ calls[i].key = None),
           calls'[i] = Served("answered", x)
    PROVE  Settles(i)
<1>1. AnswerBound(x)'
  BY DEF AnswerBound
<1>2. \A op \in Operations, c \in Cases : Awaits(i, op, c) => AnswersTo(op, c, x)'
  BY AwaitedCall, KeyShape DEF AnswersTo
<1> QED
  BY <1>1, <1>2, ServedShape DEF Settles

LEMMA FailureSettles ==
    ASSUME Inv, NEW i \in Calls, NEW reason \in {"NOT_FOUND", "CONFLICT", "INTERNAL_ERROR"},
           calls'[i] = Served("answered", Failure(reason))
    PROVE  Settles(i)
<1>1. /\ Failure(reason) \in Answer /\ Failure(reason).result = reason
      /\ Failure(reason).appeal = None /\ Failure(reason).status = "NONE"
  BY DataTyped DEF Failure, NoAnswer, Failures
<1> QED
  BY <1>1, PlainSettles

LEMMA AnsweredOthers ==
    ASSUME PlatformTypeOK, NEW i \in Calls, NEW y, calls' = [calls EXCEPT ![i] = y]
    PROVE  calls'[i] = y /\ \A j \in Calls : j # i => calls'[j] = calls[j]
BY DEF PlatformTypeOK

\* The replay of a record is the answer to the request under its key.
LEMMA ReplaySettles ==
    ASSUME Inv, NEW i \in Calls, UNCHANGED <<docs, appeals>>,
           Pending(i, "SUBMIT_APPEAL") \/ Pending(i, "SUBMIT_SUPPLEMENT"),
           Used(calls[i].key), Replay(i)
    PROVE  Settles(i)
<1> USE InvParts
<1> DEFINE key == calls[i].key
<1>1. \E op \in Operations, c \in Cases, x \in Answer :
        /\ x = idem[key].answer
        /\ key = <<op, c>>
        /\ idem[key].request = calls[i].request
        /\ x.result = "OK" /\ x.appeal \in Appeals
        /\ op = "submit" => /\ x.status = "SUPPLEMENT_REQUESTED" /\ appeals[x.appeal].case = c
        /\ op = "supplement" => /\ x.status = "APPROVED" /\ x.appeal = docs[c].appeal
                                /\ appeals[x.appeal].status = "APPROVED"
  <2>1. CASE Pending(i, "SUBMIT_APPEAL")
    <3>1. PICK c \in Cases : key = <<"submit", c>> /\ calls[i].request = AppealRequest(c)
      BY <2>1, PendingShape
    <3>2. SubmitRecorded(c)
      BY DEF RecordsBound
    <3>3. idem[key].answer \in Answer
      BY <3>1, KeyShape DEF Operations, PlatformTypeOK, IdemRecord
    <3> QED
      BY <3>1, <3>2, <3>3 DEF SubmitRecorded, Operations
  <2>2. CASE Pending(i, "SUBMIT_SUPPLEMENT")
    <3>1. PICK c \in Cases : /\ key = <<"supplement", c>>
                             /\ calls[i].request = SupplementRequest(docs[c].appeal, TRUE)
      BY <2>2, PendingShape
    <3>2. SupplementRecorded(c)
      BY DEF RecordsBound
    <3>3. idem[key].answer \in Answer
      BY <3>1, KeyShape DEF Operations, PlatformTypeOK, IdemRecord
    <3> QED
      BY <3>1, <3>2, <3>3 DEF SupplementRecorded, Operations
  <2> QED
    BY <2>1, <2>2
<1>2. PICK op \in Operations, c \in Cases, x \in Answer :
        /\ x = idem[key].answer
        /\ key = <<op, c>>
        /\ idem[key].request = calls[i].request
        /\ x.result = "OK" /\ x.appeal \in Appeals
        /\ op = "submit" => /\ x.status = "SUPPLEMENT_REQUESTED" /\ appeals[x.appeal].case = c
        /\ op = "supplement" => /\ x.status = "APPROVED" /\ x.appeal = docs[c].appeal
                                /\ appeals[x.appeal].status = "APPROVED"
  BY <1>1
<1>3. calls'[i] = Served("answered", x)
  BY <1>2, AnsweredOthers DEF Replay, AnswerOnly, AnswerWith
<1>4. appeals[x.appeal].status # "UNUSED"
  <2>1. CASE op = "submit"
    BY <1>2, <2>1, NoneAssumption DEF AppealsBound, AppealBound, UnusedAppeal
  <2> QED
    BY <1>2, <2>1 DEF Operations
<1>5. AnswerBound(x) /\ AnswersTo(op, c, x)
  BY <1>2, <1>4 DEF AnswerBound, AnswersTo, Operations
<1>6. AnswerBound(x)' /\ AnswersTo(op, c, x)'
  BY <1>5 DEF AnswerBound, AnswersTo
<1>7. \A o \in Operations, d \in Cases : Awaits(i, o, d) => o = op /\ d = c
  BY <1>2, AwaitedCall DEF Pending
<1> QED
  BY <1>2, <1>3, <1>6, <1>7, ServedShape DEF Settles

-----------------------------------------------------------------------------
(* Every step of the platform.                                             *)

\* The part of IInv that ties the state of the two programs together.
Bindings ==
    /\ CaseShape /\ WaitingShape
    /\ RequestsBound /\ RecordsBound /\ AppealsBound /\ AnswersBound /\ DocsBound
    /\ HandlersBound /\ EventsBound /\ ProcessedMeansFinished

LEMMA ServingKeeps ==
    ASSUME Inv, UNCHANGED <<docs, handlers, processed>>,
           AppealsGrow, RecordsBound', AppealsBound',
           \A i \in Calls : calls'[i] = calls[i] \/ Settles(i)
    PROVE  Bindings'
BY PlatformKeepsCases, SettledCalls DEF Bindings

\* Answering one call, with the store as it was.
LEMMA AnsweringKeeps ==
    ASSUME Inv, UNCHANGED <<docs, handlers, processed, appeals, idem>>,
           NEW i \in Calls, NEW y, calls' = [calls EXCEPT ![i] = y], Settles(i)
    PROVE  Bindings'
<1>1. CasesGrow
  BY SameDocs
<1>2. \A j \in Calls : calls'[j] = calls[j] \/ Settles(j)
  BY InvParts, AnsweredOthers
<1> QED
  BY <1>1, <1>2, SameStore, ServingKeeps

LEMMA FailingKeeps ==
    ASSUME Inv, UNCHANGED <<docs, handlers, processed, appeals, idem>>, NEW i \in Calls,
           NEW reason \in {"NOT_FOUND", "CONFLICT", "INTERNAL_ERROR"},
           AnswerWith(i, Failure(reason))
    PROVE  Bindings'
<1>1. calls' = [calls EXCEPT ![i] = Served("answered", Failure(reason))]
  BY DEF AnswerWith
<1>2. Settles(i)
  BY <1>1, AnsweredOthers, FailureSettles, InvParts
<1> QED
  BY <1>1, <1>2, AnsweringKeeps

LEMMA HandleResetKeeps ==
    ASSUME Inv, UNCHANGED <<docs, handlers, processed>>, NEW i \in Calls, HandleReset(i)
    PROVE  Bindings' /\ AppealsGrow
<1> DEFINE x == [NoAnswer EXCEPT !.result = "OK", !.account = "SUSPENDED"]
<1>1. calls' = [calls EXCEPT ![i] = Served("answered", x)] /\ Wipe
  BY DEF HandleReset, AnswerWith
<1>2. /\ x \in Answer /\ x.appeal = None /\ x.status = "NONE" /\ x.result = "OK"
  BY DataTyped DEF NoAnswer, Answer, AccountStatus
<1> HIDE DEF x
<1>3. calls[i].stage = "sent" /\ calls[i].key = None
  BY PendingShape DEF HandleReset, Pending
<1>4. Settles(i)
  BY <1>1, <1>2, <1>3, PlainSettles, AnsweredOthers, InvParts
<1>5. \A j \in Calls : calls'[j] = calls[j] \/ Settles(j)
  BY <1>1, <1>4, InvParts, AnsweredOthers
<1> QED
  BY <1>1, <1>5, WipeStore, ServingKeeps

LEMMA HandleGetAccountKeeps ==
    ASSUME Inv, UNCHANGED <<docs, handlers, processed>>, NEW i \in Calls, HandleGetAccount(i)
    PROVE  Bindings'
<1> DEFINE x == [NoAnswer EXCEPT !.result = "OK", !.account = account.status]
<1>1. calls' = [calls EXCEPT ![i] = Served("answered", x)] /\ UNCHANGED <<appeals, idem>>
  BY DEF HandleGetAccount, AnswerOnly, AnswerWith
<1>2. x \in Answer /\ x.appeal = None /\ x.status = "NONE" /\ x.result = "OK"
  BY InvParts DEF NoAnswer, Answer, AccountStatus, PlatformTypeOK
<1>3. calls[i].stage = "sent" /\ calls[i].key = None
  BY PendingShape DEF HandleGetAccount, Pending
<1>4. \E y \in Answer : /\ calls' = [calls EXCEPT ![i] = Served("answered", y)]
                        /\ y.appeal = None /\ y.status = "NONE" /\ y.result = "OK"
  BY <1>1, <1>2
<1>5. Settles(i)
  BY <1>3, <1>4, PlainSettles, AnsweredOthers, InvParts
<1> QED
  BY <1>1, <1>5, AnsweringKeeps

LEMMA FilingKeeps ==
    ASSUME Inv, UNCHANGED <<docs, handlers, processed>>, NEW i \in Calls,
           Pending(i, "SUBMIT_APPEAL"), ~Used(calls[i].key), FileAppeal(i)
    PROVE  Bindings' /\ AppealsGrow
<1>1. PICK c \in Cases : calls[i].key = <<"submit", c>> /\ calls[i].request = AppealRequest(c)
  BY PendingShape
<1>2. AppealRequest(c).case = c
  BY DEF AppealRequest, NoRequest
<1>3. PICK a \in Appeals, x \in Answer :
        /\ appeals' = [appeals EXCEPT ![a] = NewAppeal(c)]
        /\ calls' = [calls EXCEPT ![i] = Published(x)]
        /\ x.result = "OK" /\ x.appeal = a /\ x.status = "SUPPLEMENT_REQUESTED"
  <2>1. PICK a \in Appeals :
          /\ appeals' = [appeals EXCEPT ![a] = NewAppeal(c)]
          /\ Commit(i, [result |-> "OK", appeal |-> a, status |-> "SUPPLEMENT_REQUESTED",
                        account |-> "NONE", receipt |-> seq + 1])
    BY <1>1, <1>2 DEF FileAppeal
  <2>2. [result |-> "OK", appeal |-> a, status |-> "SUPPLEMENT_REQUESTED",
         account |-> "NONE", receipt |-> seq + 1] \in Answer
    BY InvParts DEF Answer, OpenOrDecided, PlatformTypeOK
  <2> QED
    BY <2>1, <2>2 DEF Commit
<1>4. appeals'[a].case = c /\ appeals'[a].status = "SUPPLEMENT_REQUESTED"
  BY <1>3, InvParts DEF PlatformTypeOK, NewAppeal
<1>5. AnswerBound(x)' /\ AnswersTo("submit", c, x)'
  BY <1>3, <1>4 DEF AnswerBound, AnswersTo
<1>6. \A op \in Operations, d \in Cases : Awaits(i, op, d) => op = "submit" /\ d = c
  BY <1>1, AwaitedCall DEF Pending
<1>7. \A op \in Operations, d \in Cases : Awaits(i, op, d) => AnswersTo(op, d, x)'
  BY <1>5, <1>6
<1>8. calls'[i].stage = "publishing" /\ calls'[i].answer = x
  <2>1. calls'[i] = Published(x)
    BY <1>3, AnsweredOthers, InvParts
  <2>2. Published(x).stage = "publishing" /\ Published(x).answer = x
    BY PublishedTyped, InvParts
  <2> QED
    BY <2>1, <2>2
<1>9. Settles(i)
  BY <1>5, <1>7, <1>8 DEF Settles
<1>10. \A j \in Calls : calls'[j] = calls[j] \/ Settles(j)
  BY <1>3, <1>9, InvParts, AnsweredOthers
<1> QED
  BY <1>10, FileStore, ServingKeeps

LEMMA DecidingKeeps ==
    ASSUME Inv, UNCHANGED <<docs, handlers, processed>>, NEW i \in Calls,
           Pending(i, "SUBMIT_SUPPLEMENT"), ~Used(calls[i].key),
           Known(calls[i].request.appeal),
           appeals[calls[i].request.appeal].status = "SUPPLEMENT_REQUESTED", DecideAppeal(i)
    PROVE  Bindings' /\ AppealsGrow
<1>1. PICK c \in Cases : /\ calls[i].key = <<"supplement", c>>
                         /\ docs[c].appeal \in Appeals /\ Released(c)
                         /\ calls[i].request = SupplementRequest(docs[c].appeal, TRUE)
  BY PendingShape
<1>2. /\ RecordsBound' /\ AppealsBound' /\ AppealsGrow
      /\ appeals' = [appeals EXCEPT ![docs[c].appeal].status = "APPROVED"]
  BY <1>1, DecideStore, ZenonT(60)
<1>3. PICK x \in Answer :
        /\ calls' = [calls EXCEPT ![i] = Published(x)]
        /\ x.result = "OK" /\ x.status = "APPROVED" /\ x.appeal = docs[c].appeal
  BY <1>1, DecideStore, ZenonT(60)
<1>4. appeals'[x.appeal].status = "APPROVED"
  BY <1>1, <1>2, <1>3, InvParts DEF PlatformTypeOK, AppealRecord
<1>5. AnswerBound(x)' /\ AnswersTo("supplement", c, x)'
  BY <1>1, <1>3, <1>4 DEF AnswerBound, AnswersTo
<1>6. \A op \in Operations, d \in Cases : Awaits(i, op, d) => op = "supplement" /\ d = c
  BY <1>1, AwaitedCall DEF Pending
<1>7. /\ calls'[i].stage = "publishing" /\ calls'[i].answer = x
      /\ \A j \in Calls : j # i => calls'[j] = calls[j]
  <2>1. calls'[i] = Published(x) /\ \A j \in Calls : j # i => calls'[j] = calls[j]
    BY <1>3, AnsweredOthers, InvParts
  <2>2. Published(x).stage = "publishing" /\ Published(x).answer = x
    BY PublishedTyped, InvParts
  <2> QED
    BY <2>1, <2>2
<1>8. Settles(i)
  <2>1. \A op \in Operations, d \in Cases : Awaits(i, op, d) => AnswersTo(op, d, x)'
    BY <1>5, <1>6
  <2> QED
    BY <1>5, <1>7, <2>1 DEF Settles
<1>9. \A j \in Calls : calls'[j] = calls[j] \/ Settles(j)
  BY <1>7, <1>8
<1> QED
  BY <1>2, <1>9, ServingKeeps

\* Serving any request.
LEMMA HandleKeeps ==
    ASSUME Inv, UNCHANGED <<docs, handlers, processed>>, NEW i \in Calls, Handle(i)
    PROVE  Bindings' /\ AppealsGrow
<1>1. ASSUME UNCHANGED appeals PROVE AppealsGrow
  BY <1>1 DEF AppealsGrow
<1>2. ASSUME Pending(i, "SUBMIT_APPEAL") \/ Pending(i, "SUBMIT_SUPPLEMENT"),
             Used(calls[i].key), Replay(i)
      PROVE  Bindings' /\ AppealsGrow
  <2>1. /\ UNCHANGED <<appeals, idem>>
        /\ \E y : calls' = [calls EXCEPT ![i] = y]
    BY <1>2 DEF Replay, AnswerOnly, AnswerWith
  <2>2. Settles(i)
    BY <1>2, <2>1, ReplaySettles
  <2> QED
    BY <1>1, <2>1, <2>2, AnsweringKeeps
<1>3. ASSUME NEW reason \in {"NOT_FOUND", "CONFLICT"}, AnswerOnly(i, Failure(reason))
      PROVE  Bindings' /\ AppealsGrow
  BY <1>1, <1>3, FailingKeeps DEF AnswerOnly
<1>4. CASE HandleSubmit(i)
  BY <1>2, <1>3, <1>4, FilingKeeps DEF HandleSubmit
<1>5. CASE HandleSupplement(i)
  BY <1>2, <1>3, <1>5, DecidingKeeps DEF HandleSupplement
<1>6. CASE HandleGetAccount(i)
  BY <1>1, <1>6, HandleGetAccountKeeps DEF HandleGetAccount, AnswerOnly
<1> QED
  BY <1>4, <1>5, <1>6, HandleResetKeeps DEF Handle

\* Publishing answers the call with what was committed; a failure to publish,
\* or a restart, answers with an error.
LEMMA PublishKeeps ==
    ASSUME Inv, UNCHANGED <<docs, handlers, processed>>, NEW i \in Calls,
           Publish(i) \/ PublishFails(i) \/ ImportSettles(i)
    PROVE  Bindings'
<1>1. CASE Publish(i)
  <2>1. PICK x \in Answer : x = calls[i].answer
    BY InvParts DEF PlatformTypeOK, Call
  <2>2. calls' = [calls EXCEPT ![i] = Served("answered", x)] /\ UNCHANGED <<appeals, idem>>
    BY <1>1, <2>1 DEF Publish, AnswerWith
  <2>3. AnswerBound(x)'
    BY <2>1, <2>2, InvParts DEF AnswersBound, AnswerBound
  <2>4. \A op \in Operations, c \in Cases : Awaits(i, op, c) => AnswersTo(op, c, x)
    BY <1>1, <2>1, AwaitedCall DEF Publish, FirstToPublish
  <2>5. \A op \in Operations, c \in Cases : Awaits(i, op, c) => AnswersTo(op, c, x)'
    BY <2>2, <2>4 DEF AnswersTo
  <2>6. Settles(i)
    <3>1. calls'[i] = Served("answered", x)
      BY <2>2, AnsweredOthers, InvParts
    <3>2. calls'[i].stage = "answered" /\ calls'[i].answer = x
      BY <3>1, ServedShape
    <3> QED
      BY <2>3, <2>5, <3>2 DEF Settles
  <2> QED
    BY <2>2, <2>6, AnsweringKeeps
<1>2. CASE PublishFails(i)
  BY <1>2, FailingKeeps DEF PublishFails
<1>3. CASE ImportSettles(i)
  <2> DEFINE y == [calls[i] EXCEPT !.client = publisher + 1]
  <2>1. calls[i] \in Call /\ calls[i].stage = "publishing"
    BY <1>3, InvParts DEF ImportSettles, PlatformTypeOK
  <2>2. calls' = [calls EXCEPT ![i] = y] /\ UNCHANGED <<appeals, idem>>
    BY <1>3, InvParts DEF ImportSettles, PlatformTypeOK
  <2>3. y.stage = "publishing" /\ y.answer = calls[i].answer
    BY <2>1 DEF Call
  <2>4. PICK x \in Answer : x = calls[i].answer
    BY <2>1 DEF Call
  <2> HIDE DEF y
  <2>5. AnswerBound(x)'
    BY <2>2, <2>4, InvParts DEF AnswersBound, AnswerBound
  <2>6. \A op \in Operations, c \in Cases : Awaits(i, op, c) => AnswersTo(op, c, x)
    BY <2>1, <2>4, AwaitedCall
  <2>7. \A op \in Operations, c \in Cases : Awaits(i, op, c) => AnswersTo(op, c, x)'
    BY <2>2, <2>6 DEF AnswersTo
  <2>8. Settles(i)
    BY <2>2, <2>3, <2>4, <2>5, <2>7, AnsweredOthers, InvParts DEF Settles
  <2> QED
    BY <2>2, <2>8, AnsweringKeeps
<1> QED
  BY <1>1, <1>2, <1>3

LEMMA RestartKeeps ==
    ASSUME Inv, UNCHANGED <<docs, handlers, processed>>, Restart
    PROVE  Bindings' /\ AppealsGrow
<1>1. \A i \in Calls : calls'[i] = calls[i]
                         \/ calls'[i] = Served("answered", Failure("INTERNAL_ERROR"))
  BY DEF Restart
<1>2. \A i \in Calls : calls'[i] = calls[i] \/ Settles(i)
  BY <1>1, FailureSettles
<1> QED
  BY <1>2, WipeStore, ServingKeeps DEF Restart

-----------------------------------------------------------------------------
(* What a step of AppealOS keeps.  It files and decides nothing, and takes *)
(* nothing from the platform but answers.                                  *)

NobodyWorks ==
    \A t \in Threads : handlers[t].call = None /\ handlers[t].step \notin DraftSteps

\* Some answers are taken off the wire.
AnswersTaken == \A i \in Calls : calls'[i] = calls[i] \/ calls'[i] = FreeCall

LEMMA FreeShape == FreeCall.stage = "free" /\ FreeCall.answer = NoAnswer /\ AnswerBound(NoAnswer)
BY DEF FreeCall, NoAnswer, AnswerBound

LEMMA TakingKeeps ==
    ASSUME Inv, CasesGrow, AnswersTaken, UNCHANGED appeals
    PROVE  RequestsBound' /\ AnswersBound'
<1>1. RequestsBound'
  BY FreeShape, RequestsKept DEF AnswersTaken
<1>2. AnswersBound'
  BY FreeShape, InvParts DEF AnswersTaken, AnswersBound, AnswerBound
<1> QED
  BY <1>1, <1>2

\* While nobody is at work, nothing is owed.
LEMMA QuietKeeps ==
    ASSUME Inv, CaseShape', DocsBound', CasesGrow, UNCHANGED <<appeals, idem>>,
           AnswersTaken, NobodyWorks', EventsBound', ProcessedMeansFinished'
    PROVE  Bindings'
<1>1. WaitingShape' /\ HandlersBound'
  BY DEF NobodyWorks, WaitingShape, HandlersBound, DraftSteps, ModelSteps, VaultSteps
<1> QED
  BY <1>1, TakingKeeps, SameStore DEF Bindings

\* What a thread handles is still so, or the thread is done, or it may mark.
LEMMA EventsKept ==
    ASSUME Inv, CasesGrow, UNCHANGED appeals,
           \A t \in Threads :
             \/ handlers'[t].op # "event"
             \/ /\ handlers'[t].op = handlers[t].op
                /\ handlers'[t].event = handlers[t].event
                /\ handlers'[t].case = handlers[t].case
                /\ \/ handlers'[t].step # "mark"
                   \/ handlers[t].step = "mark"
                   \/ docs'[handlers[t].case].state = "ACCOUNT_ACTIVE"
    PROVE  EventsBound'
<1> SUFFICES ASSUME NEW t \in Threads, handlers'[t].op = "event"
             PROVE  LET a == handlers'[t].event[1]
                    IN  /\ handlers'[t].case \in Cases
                        /\ appeals'[a].case = handlers'[t].case
                        /\ docs'[handlers'[t].case].appeal = a
                        /\ handlers'[t].step = "mark"
                             => docs'[handlers'[t].case].state = "ACCOUNT_ACTIVE"
  BY DEF EventsBound
<1> DEFINE c == handlers[t].case
           a == handlers[t].event[1]
<1>1. /\ handlers'[t].case = c /\ handlers'[t].event = handlers[t].event
      /\ handlers[t].op = "event"
  OBVIOUS
<1>2. /\ c \in Cases /\ appeals[a].case = c /\ docs[c].appeal = a
      /\ handlers[t].step = "mark" => docs[c].state = "ACCOUNT_ACTIVE"
  BY <1>1, InvParts DEF EventsBound
<1>3. a \in Appeals /\ a # None
  BY <1>1, InvParts, NoneAssumption DEF StepsInv, EventIds
<1>4. /\ docs'[c].appeal = a
      /\ docs[c].state = "ACCOUNT_ACTIVE" => docs'[c].state = "ACCOUNT_ACTIVE"
  BY <1>2, <1>3 DEF CasesGrow
<1> QED
  BY <1>1, <1>2, <1>4

\* Only a thread at its mark adds an event.
LEMMA MarksKept ==
    ASSUME Inv, CasesGrow, UNCHANGED appeals,
           \A e \in processed' : \/ e \in processed
                                 \/ \E t \in Threads : /\ handlers[t].step = "mark"
                                                       /\ e = handlers[t].event
    PROVE  ProcessedMeansFinished'
<1> USE InvParts
<1> SUFFICES ASSUME NEW e \in processed'
             PROVE  /\ appeals[e[1]].case # None
                    /\ docs'[appeals[e[1]].case].state = "ACCOUNT_ACTIVE"
                    /\ docs'[appeals[e[1]].case].appeal = e[1]
  BY DEF ProcessedMeansFinished
<1>1. /\ e[1] \in Appeals
      /\ appeals[e[1]].case # None
      /\ docs[appeals[e[1]].case].state = "ACCOUNT_ACTIVE"
      /\ docs[appeals[e[1]].case].appeal = e[1]
  <2>1. CASE e \in processed
    BY <2>1 DEF ProcessedMeansFinished, ServiceTypeOK, EventIds
  <2>2. ASSUME NEW t \in Threads, handlers[t].step = "mark", e = handlers[t].event
        PROVE  /\ e[1] \in Appeals
               /\ appeals[e[1]].case # None
               /\ docs[appeals[e[1]].case].state = "ACCOUNT_ACTIVE"
               /\ docs[appeals[e[1]].case].appeal = e[1]
    BY <2>2, NoneAssumption DEF EventsBound, StepsInv, EventIds
  <2> QED
    BY <2>1, <2>2
<1>2. appeals[e[1]].case \in Cases
  BY <1>1 DEF PlatformTypeOK, AppealRecord
<1> QED
  BY <1>1, <1>2, NoneAssumption DEF CasesGrow

\* The moves of a thread (AppealWorkflow, "The lock, and what the steps share").
LEMMA AcquireKeeps ==
    ASSUME Inv, UNCHANGED <<docs, processed, platformVars>>,
           NEW t \in Threads, NEW op, NEW c, NEW e, NEW step, Acquire(t, op, c, e, step),
           step \notin DraftSteps,
           op = "event" => /\ c \in Cases
                           /\ appeals[e[1]].case = c
                           /\ docs[c].appeal = e[1]
                           /\ step = "mark" => docs[c].state = "ACCOUNT_ACTIVE"
    PROVE  Bindings'
<1> DEFINE h == [Idle EXCEPT !.op = op, !.case = c, !.event = e, !.step = step]
<1>1. h.call = None /\ h.op = op /\ h.case = c /\ h.event = e /\ h.step = step
  BY DEF Idle
<1>2. handlers' = [handlers EXCEPT ![t] = h] /\ lock = None
  BY DEF Acquire
<1> HIDE DEF h
<1>3. \A u \in Threads : handlers[u] = Idle
  BY <1>2, ThreadsAssumption, InvParts DEF LockHeld
<1>4. \A u \in Threads : handlers'[u] = IF u = t THEN h ELSE Idle
  BY <1>2, <1>3, InvParts DEF ServiceTypeOK
<1>5. UNCHANGED <<appeals, idem, calls>>
  BY DEF platformVars
<1>6. CaseShape' /\ DocsBound' /\ CasesGrow
  BY <1>5, SameDocs
<1>7. NobodyWorks'
  BY <1>1, <1>4, IdleShape DEF NobodyWorks
<1>8. EventsBound'
  BY <1>1, <1>4, <1>5, IdleShape DEF EventsBound
<1>9. ProcessedMeansFinished'
  BY <1>5, <1>6, MarksKept
<1> QED
  BY <1>5, <1>6, <1>7, <1>8, <1>9, QuietKeeps DEF AnswersTaken

LEMMA LeaveKeeps ==
    ASSUME Inv, CaseShape', DocsBound', CasesGrow, UNCHANGED <<appeals, idem>>,
           AnswersTaken, NEW t \in Threads, handlers[t] # Idle, Leave(t),
           processed' \subseteq processed
             \cup (IF handlers[t].step = "mark" THEN {handlers[t].event} ELSE {})
    PROVE  Bindings'
<1>1. \A u \in Threads : handlers'[u] = Idle
  BY InvParts, InvExclusive, AtWorkAlone DEF ServiceTypeOK, Leave
<1>2. NobodyWorks' /\ EventsBound'
  BY <1>1, IdleShape DEF NobodyWorks, EventsBound
<1>3. ProcessedMeansFinished'
  BY MarksKept
<1> QED
  BY <1>2, <1>3, QuietKeeps

LEMMA GoOnKeeps ==
    ASSUME Inv, CaseShape', DocsBound', CasesGrow, UNCHANGED <<appeals, idem, processed>>,
           AnswersTaken, NEW t \in Threads, handlers[t] # Idle, NEW step, GoOn(t, step),
           step \notin DraftSteps,
           step = "mark" => docs'[handlers[t].case].state = "ACCOUNT_ACTIVE"
    PROVE  Bindings'
<1> DEFINE h == [handlers[t] EXCEPT !.step = step, !.call = None, !.draft = AbsentCase]
<1>1. /\ h.step = step /\ h.call = None /\ h.op = handlers[t].op
      /\ h.event = handlers[t].event /\ h.case = handlers[t].case
  BY InvParts DEF ServiceTypeOK, Handler
<1>2. handlers' = [handlers EXCEPT ![t] = h]
  BY DEF GoOn
<1> HIDE DEF h
<1>3. \A u \in Threads : handlers'[u] = IF u = t THEN h ELSE Idle
  BY <1>2, InvParts, InvExclusive, AtWorkAlone DEF ServiceTypeOK
<1>4. NobodyWorks'
  BY <1>1, <1>3, IdleShape DEF NobodyWorks
<1>5. EventsBound'
  BY <1>1, <1>3, IdleShape, EventsKept
<1>6. ProcessedMeansFinished'
  BY MarksKept
<1> QED
  BY <1>4, <1>5, <1>6, QuietKeeps

\* A request that RequestsBound allows.
Proper(k, r) ==
    \/ k = None /\ r \in {ResetRequest, AccountRequest}
    \/ \E c \in Cases : k = <<"submit", c>> /\ r = AppealRequest(c)
    \/ \E c \in Cases : /\ k = <<"supplement", c>>
                        /\ docs[c].appeal \in Appeals /\ Released(c)
                        /\ r = SupplementRequest(docs[c].appeal, TRUE)

\* A thread that asks under the key of its step, in the state it wants.
LEMMA CallKeeps ==
    ASSUME Inv, NEW t \in Threads, handlers[t] # Idle, NEW doc, NEW k, NEW r,
           NEW step \in {"reset", "submit", "supplement", "verify"},
           CallPlatform(t, step, doc, k, r), Proper(k, r),
           step \in Operations => k = <<step, handlers[t].case>>,
           step = "submit" => docs[handlers[t].case].state = "MANDATE_APPROVED",
           step = "supplement" => docs[handlers[t].case].state = "SUPPLEMENT_REQUESTED",
           step = "verify" => docs[handlers[t].case].state = "DECIDED_APPROVED"
    PROVE  Bindings'
<1> USE InvParts
<1> DEFINE call == [stage |-> "sent", key |-> k, request |-> r, answer |-> NoAnswer, client |-> 0]
<1>1. PICK i \in Calls :
        /\ calls' = [calls EXCEPT ![i] = call]
        /\ handlers' = [handlers EXCEPT ![t].step = step, ![t].draft = doc, ![t].call = i]
        /\ UNCHANGED <<docs, processed, appeals, idem>>
  BY DEF CallPlatform, Send
<1>2. call.stage = "sent" /\ call.key = k /\ call.request = r /\ call.answer = NoAnswer
  OBVIOUS
<1> HIDE DEF call
<1>3. \A j \in Calls : calls'[j] = IF j = i THEN call ELSE calls[j]
  BY <1>1 DEF PlatformTypeOK
<1>4. /\ handlers'[t].call = i /\ handlers'[t].step = step
      /\ handlers'[t].case = handlers[t].case /\ handlers'[t].op = handlers[t].op
      /\ handlers'[t].event = handlers[t].event
      /\ \A u \in Threads : u # t => handlers'[u] = Idle
  BY <1>1, InvExclusive, AtWorkAlone DEF ServiceTypeOK, Handler
<1>5. CaseShape' /\ DocsBound' /\ CasesGrow
  BY <1>1, SameDocs
<1>6. RecordsBound' /\ AppealsBound'
  BY <1>1, <1>5, SameStore
<1>7. RequestsBound'
  <2> SUFFICES ASSUME NEW j \in Calls, calls'[j].stage = "sent"
               PROVE  \E k2, r2 : /\ calls'[j].key = k2 /\ calls'[j].request = r2
                                  /\ Proper(k2, r2)'
    BY DEF RequestsBound, Proper
  <2>1. \A k2, r2 : Proper(k2, r2) => Proper(k2, r2)'
    BY <1>1 DEF Proper, Released
  <2>2. CASE j = i
    <3>1. calls'[j].key = k /\ calls'[j].request = r
      BY <1>2, <1>3, <2>2
    <3> QED
      BY <2>1, <3>1
  <2>3. CASE j # i
    <3>1. calls'[j] = calls[j]
      BY <1>3, <2>3
    <3>2. \E k2, r2 : calls[j].key = k2 /\ calls[j].request = r2 /\ Proper(k2, r2)
      BY <3>1 DEF RequestsBound, Proper
    <3> QED
      BY <2>1, <3>1, <3>2
  <2> QED
    BY <2>2, <2>3
<1>8. AnswersBound'
  <2> SUFFICES ASSUME NEW j \in Calls PROVE AnswerBound(calls[j].answer)'
    BY DEF AnswersBound
  <2>1. AnswerBound(calls[j].answer)
    BY DEF AnswersBound
  <2> QED
    BY <1>1, <1>2, <1>3, <2>1, FreeShape DEF AnswerBound
<1>9. WaitingShape'
  <2>1. step \notin ModelSteps \cup VaultSteps
    BY DEF ModelSteps, VaultSteps
  <2>2. \A u \in Threads : u # t => /\ handlers'[u].call = None
                                    /\ handlers'[u].step \notin ModelSteps \cup VaultSteps
    BY <1>4, IdleShape DEF DraftSteps
  <2> QED
    BY <1>1, <1>4, <2>1, <2>2 DEF WaitingShape, ModelSteps, VaultSteps
<1>10. HandlersBound'
  BY <1>2, <1>3, <1>4, IdleShape DEF HandlersBound
<1>11. EventsBound'
  BY <1>1, <1>4, <1>5, IdleShape, EventsKept
<1>12. ProcessedMeansFinished'
  BY <1>1, <1>5, MarksKept
<1> QED
  BY <1>5, <1>6, <1>7, <1>8, <1>9, <1>10, <1>11, <1>12 DEF Bindings

\* A thread that goes on within its method, knowing what the step relies on.
LEMMA ProceedKeeps ==
    ASSUME Inv, NEW t \in Threads, handlers[t] # Idle, handlers[t].call = None,
           handlers[t].case \in Cases, NEW step \in DraftSteps, NEW doc,
           Proceed(t, step, doc),
           step = "parsing" => docs[handlers[t].case].state = "NOTICE_RECEIVED",
           step \in {"citing", "drafting"} => docs[handlers[t].case].state = "CONSENTED",
           step = "drafting"
             => docs[handlers[t].case].consent \cap docs[handlers[t].case].quarantined = {},
           step = "disclosing" => /\ docs[handlers[t].case].state = "SUPPLEMENT_REQUESTED"
                                  /\ Released(handlers[t].case)
    PROVE  Bindings'
<1> USE InvParts
<1>1. UNCHANGED <<docs, processed, appeals, idem, calls>>
  BY DEF Proceed, platformVars
<1>2. /\ handlers'[t].call = None /\ handlers'[t].step = step
      /\ handlers'[t].case = handlers[t].case /\ handlers'[t].op = handlers[t].op
      /\ handlers'[t].event = handlers[t].event
      /\ \A u \in Threads : u # t => handlers'[u] = Idle
  BY InvExclusive, AtWorkAlone DEF Proceed, ServiceTypeOK, Handler
<1>3. CaseShape' /\ DocsBound' /\ CasesGrow
  BY <1>1, SameDocs
<1>4. RequestsBound' /\ AnswersBound' /\ RecordsBound' /\ AppealsBound'
  BY <1>1, <1>3, TakingKeeps, SameStore DEF AnswersTaken
<1>5. WaitingShape'
  <2>1. \A u \in Threads : u # t => /\ handlers'[u].call = None
                                    /\ handlers'[u].step \notin ModelSteps \cup VaultSteps
    BY <1>2, IdleShape DEF DraftSteps
  <2> QED
    BY <1>1, <1>2, <2>1 DEF WaitingShape, ModelSteps, VaultSteps, Released
<1>6. HandlersBound'
  BY <1>2, IdleShape DEF HandlersBound
<1>7. step # "mark"
  BY DEF DraftSteps, ModelSteps, VaultSteps
<1>8. EventsBound' /\ ProcessedMeansFinished'
  BY <1>1, <1>2, <1>3, <1>7, IdleShape, EventsKept, MarksKept
<1> QED
  BY <1>3, <1>4, <1>5, <1>6, <1>8 DEF Bindings

-----------------------------------------------------------------------------
(* Every step of AppealOS and of the world.                                *)

LEMMA BeginKeeps == ASSUME Inv, NEW t \in Threads, Begin(t) PROVE Bindings'
<1> USE InvParts
<1>4. \A step \in Methods \cup {"reset", "mark"} : step \notin DraftSteps
  BY DEF Methods, DraftSteps, ModelSteps, VaultSteps
<1>5. \A step, c : May(step, c) => step \in Methods
  BY DEF May, Methods
<1>1. CASE ResetBegins(t)
  BY <1>1, <1>4, AcquireKeeps DEF ResetBegins
<1>2. ASSUME NEW c \in Cases, (\E op \in Methods : MethodBegins(t, op, c)) \/ ExecuteBegins(t, c)
      PROVE  Bindings'
  <2>1. PICK op \in Methods \cup {"execute"}, step \in Methods :
          Acquire(t, op, c, None, step) /\ UNCHANGED <<docs, processed, platformVars>>
    BY <1>2, <1>5 DEF MethodBegins, ExecuteBegins
  <2>2. op # "event"
    BY DEF Methods
  <2> QED
    BY <1>4, <2>1, <2>2, AcquireKeeps
<1>3. ASSUME NEW a \in Appeals, EventBegins(t, a) PROVE Bindings'
  <2> DEFINE c == appeals[a].case
             step == EventStep(Next1(a), docs[c].state)
             e == <<a, Next1(a)>>
  <2>1. /\ c \in Cases /\ docs[c].appeal = a
        /\ Acquire(t, "event", c, e, step)
        /\ step \notin DraftSteps
        /\ UNCHANGED <<docs, processed, platformVars>>
    BY <1>3, <1>4, <1>5 DEF EventBegins
  <2>2. docs[c].state # "DECIDED_REJECTED"
    BY <2>1 DEF DocsBound, DocBound
  <2>3. step = "mark" => docs[c].state = "ACCOUNT_ACTIVE"
    BY <2>2 DEF EventStep
  <2>4. e[1] = a
    OBVIOUS
  <2> HIDE DEF c, step, e
  <2>5. appeals[a].case = c
    BY DEF c
  <2> QED
    BY <2>1, <2>3, <2>4, <2>5, AcquireKeeps
<1> QED
  BY <1>1, <1>2, <1>3 DEF Begin

\* A thread asks for what its step stands for.
LEMMA AskingKeeps ==
    ASSUME Inv, NEW t \in Threads,
           ResetStep(t) \/ SubmitStep(t) \/ SupplementSends(t) \/ VerifyStep(t)
    PROVE  Bindings'
<1> USE InvParts
<1> DEFINE c == handlers[t].case
<1>1. handlers[t] # Idle
  BY IdleShape DEF ResetStep, SubmitStep, SupplementSends, VerifyStep, At
<1>2. CASE ResetStep(t)
  BY <1>1, <1>2, CallKeeps DEF ResetStep, Proper, Operations
<1>3. CASE VerifyStep(t)
  BY <1>1, <1>3, CallKeeps DEF VerifyStep, MayVerify, Proper, Operations
<1>4. CASE SubmitStep(t)
  <2>1. c \in Cases
    BY <1>4 DEF SubmitStep, At, StepsInv, CaseSteps, Steps, Methods
  <2>2. Proper(<<"submit", c>>, AppealRequest(c))
    BY <2>1 DEF Proper
  <2> QED
    BY <1>1, <1>4, <2>1, <2>2, CallKeeps DEF SubmitStep, MaySubmit
<1>5. CASE SupplementSends(t)
  <2>1. c \in Cases /\ handlers[t].draft = docs[c] /\ At(t, "disclosing")
    BY <1>5, WorkingCase
       DEF SupplementSends, At, CaseSteps, Steps, DraftSteps, ModelSteps, VaultSteps
  <2>2. docs[c].appeal \in Appeals /\ docs[c].state = "SUPPLEMENT_REQUESTED" /\ Released(c)
    BY <2>1 DEF At, StepsInv, WaitingShape
  <2>3. vault[DeviceLog] = "intact"
    BY <1>5, <2>1 DEF SupplementSends, Needed, Usable, At
  <2>4. CallPlatform(t, "supplement", docs[c], <<"supplement", c>>,
                     SupplementRequest(docs[c].appeal, TRUE))
    BY <1>5, <2>1, <2>3 DEF SupplementSends, Disclose
  <2>5. Proper(<<"supplement", c>>, SupplementRequest(docs[c].appeal, TRUE))
    BY <2>1, <2>2 DEF Proper
  <2> QED
    BY <1>1, <2>2, <2>4, <2>5, CallKeeps
<1> QED
  BY <1>2, <1>3, <1>4, <1>5

\* A thread goes on with what its guards, or the vault, have shown it.
LEMMA ProceedingKeeps ==
    ASSUME Inv, NEW t \in Threads,
           NoticeStep(t) \/ MandateStep(t) \/ MandateCites(t) \/ SupplementStep(t)
    PROVE  Bindings'
<1> USE InvParts
<1> DEFINE c == handlers[t].case
<1>1. /\ handlers[t] # Idle /\ handlers[t].call = None
      /\ handlers[t].step \in CaseSteps /\ c \in Cases
  BY IdleShape DEF NoticeStep, MandateStep, MandateCites, SupplementStep, At, StepsInv,
                   CaseSteps, Steps, Methods, VaultSteps
<1>2. {"parsing", "citing", "drafting", "disclosing"} \subseteq DraftSteps
  BY DEF DraftSteps, ModelSteps, VaultSteps
<1>3. CASE NoticeStep(t)
  BY <1>1, <1>2, <1>3, ProceedKeeps DEF NoticeStep, MayParse
<1>4. CASE MandateStep(t)
  BY <1>1, <1>2, <1>4, ProceedKeeps DEF MandateStep, MayMandate
<1>5. CASE MandateCites(t)
  <2>1. handlers[t].draft = docs[c] /\ handlers[t].step = "citing"
    BY <1>1, <1>2, <1>5, WorkingCase DEF MandateCites, At
  <2>2. docs[c].state = "CONSENTED" /\ docs[c].consent \cap docs[c].quarantined = {}
    BY <1>5, <2>1 DEF MandateCites, Needed, Usable, WaitingShape
  <2> QED
    BY <1>1, <1>2, <1>5, <2>2, ProceedKeeps DEF MandateCites
<1>6. CASE SupplementStep(t)
  <2>1. docs[c].state = "SUPPLEMENT_REQUESTED" /\ Released(c)
    BY <1>6 DEF SupplementStep, MaySupplement, CanSupplement, Released
  <2> QED
    BY <1>1, <1>2, <1>6, <2>1, ProceedKeeps DEF SupplementStep
<1> QED
  BY <1>3, <1>4, <1>5, <1>6

LEMMA DocsKeep ==
    ASSUME Inv, UNCHANGED appeals,
           \/ UNCHANGED docs
           \/ \E c \in Cases, doc \in CaseDoc : Moves(c, doc) /\ Save(c, doc)
    PROVE  CaseShape' /\ DocsBound' /\ CasesGrow
BY SameDocs, SaveKeeps

LEMMA StepKeeps == ASSUME Inv, NEW t \in Threads, Step(t) \/ ModelStep(t) PROVE Bindings'
<1> USE InvParts
<1>1. Base /\ handlers[t] # Idle
  BY StepAtWork DEF Inv
<1>2. CASE \/ ResetStep(t) \/ SubmitStep(t) \/ SupplementSends(t) \/ VerifyStep(t)
           \/ NoticeStep(t) \/ MandateStep(t) \/ MandateCites(t) \/ SupplementStep(t)
  BY <1>2, AskingKeeps, ProceedingKeeps
<1>3. CASE \/ ResetReturns(t) \/ SubmitReturns(t) \/ SupplementReturns(t)
           \/ VerifyReturns(t) \/ CallFails(t)
  <2>1. UNCHANGED <<appeals, idem, processed>>
    BY <1>3 DEF ResetReturns, SubmitReturns, SupplementReturns, VerifyReturns, CallFails
  <2>2. CaseShape' /\ DocsBound' /\ CasesGrow
    BY <2>1, StepMoves, DocsKeep
  <2>3. AnswersTaken
    BY <1>3 DEF ResetReturns, SubmitReturns, SupplementReturns, VerifyReturns, CallFails,
                Release, AnswersTaken, PlatformTypeOK
  <2>4. \/ Leave(t)
        \/ GoOn(t, "supplement") \/ GoOn(t, "verify")
        \/ GoOn(t, "mark") /\ VerifyReturns(t)
           /\ Save(handlers[t].case, [handlers[t].draft EXCEPT !.state = "ACCOUNT_ACTIVE"])
    BY <1>3 DEF ResetReturns, SubmitReturns, SupplementReturns, VerifyReturns, CallFails
  <2>5. CASE Leave(t)
    BY <1>1, <2>1, <2>2, <2>3, <2>5, LeaveKeeps
  <2>8. {"supplement", "verify", "mark"} \cap DraftSteps = {}
    BY DEF DraftSteps, ModelSteps, VaultSteps
  <2>6. CASE GoOn(t, "supplement") \/ GoOn(t, "verify")
    BY <1>1, <2>1, <2>2, <2>3, <2>6, <2>8, GoOnKeeps
  <2>7. CASE /\ GoOn(t, "mark") /\ VerifyReturns(t)
             /\ Save(handlers[t].case, [handlers[t].draft EXCEPT !.state = "ACCOUNT_ACTIVE"])
    <3>1. handlers[t].case \in Cases /\ handlers[t].draft \in CaseDoc
      BY <2>7, WaitingCase DEF VerifyReturns, Answered
    <3>2. docs'[handlers[t].case].state = "ACCOUNT_ACTIVE"
      BY <2>7, <3>1 DEF Save, ServiceTypeOK, CaseDoc
    <3> QED
      BY <1>1, <2>1, <2>2, <2>3, <2>7, <2>8, <3>2, GoOnKeeps
  <2> QED
    BY <2>4, <2>5, <2>6, <2>7
<1>4. CASE StepRefused(t) \/ ArtifactQuarantined(t) \/ ArtifactRefused(t) \/ ModelStep(t)
  <2>1. UNCHANGED <<appeals, idem, processed, calls>> /\ Leave(t)
    BY <1>4 DEF StepRefused, ArtifactQuarantined, ArtifactRefused, ModelStep, NoticeReturns,
                MandateReturns, ModelFails, Raise, SaveAndLeave, platformVars
  <2> QED
    BY <1>1, <2>1, StepMoves, DocsKeep, LeaveKeeps DEF AnswersTaken
<1>5. CASE EventMarked(t)
  <2>1. /\ UNCHANGED <<appeals, idem, docs, calls>> /\ Leave(t)
        /\ handlers[t].step = "mark" /\ processed' = processed \cup {handlers[t].event}
    BY <1>5 DEF EventMarked, At
  <2> QED
    BY <1>1, <2>1, SameDocs, LeaveKeeps DEF AnswersTaken
<1> QED
  BY <1>2, <1>3, <1>4, <1>5 DEF Step

LEMMA ConsentKeeps == ASSUME Inv, NEW c \in Cases, Consent(c) PROVE Bindings'
<1> USE InvParts
<1>1. PICK doc \in CaseDoc : Moves(c, doc) /\ Save(c, doc)
  BY ConsentMoves
<1>2. lock = None /\ UNCHANGED <<processed, handlers, appeals, idem, calls>>
  BY DEF Consent, platformVars
<1>3. CaseShape' /\ DocsBound' /\ CasesGrow
  BY <1>1, <1>2, SaveKeeps
<1>4. \A t \in Threads : handlers[t] = Idle
  BY <1>2, ThreadsAssumption DEF LockHeld
<1>5. NobodyWorks' /\ EventsBound'
  BY <1>2, <1>4, IdleShape DEF NobodyWorks, EventsBound
<1>6. ProcessedMeansFinished'
  BY <1>2, <1>3, MarksKept
<1> QED
  BY <1>2, <1>3, <1>5, <1>6, QuietKeeps DEF AnswersTaken

\* Bindings is about what these variables hold, and nothing else.
bound == <<docs, processed, handlers, appeals, idem, calls>>

LEMMA SameBindings == ASSUME Inv, UNCHANGED bound PROVE Bindings'
<1> USE InvParts
<1>1. UNCHANGED <<docs, processed, handlers, appeals, idem, calls>>
  BY DEF bound
<1>2. CaseShape' /\ DocsBound' /\ CasesGrow
  BY <1>1, SameDocs
<1>3. RecordsBound' /\ AppealsBound' /\ AppealsGrow
  BY <1>1, <1>2, SameStore
<1> QED
  BY <1>1, <1>3, ServingKeeps

LEMMA ForgottenKeeps ==
    ASSUME Inv, NEW i \in Calls, CallForgotten(i) PROVE Bindings'
<1> USE InvParts
<1>1. /\ UNCHANGED <<docs, processed, handlers, appeals, idem>>
      /\ calls' = [calls EXCEPT ![i] = FreeCall]
      /\ \A t \in Threads : handlers[t].call # i
  BY DEF CallForgotten, serviceVars, Release, Awaited
<1>2. CaseShape' /\ DocsBound' /\ CasesGrow
  BY <1>1, SameDocs
<1>3. RequestsBound' /\ AnswersBound'
  <2>1. AnswersTaken
    BY <1>1 DEF AnswersTaken, PlatformTypeOK
  <2> QED
    BY <1>1, <1>2, <2>1, TakingKeeps
<1>4. \A t \in Threads : handlers[t].call # None =>
                           calls'[handlers[t].call] = calls[handlers[t].call]
  BY <1>1 DEF ServiceTypeOK, Handler, PlatformTypeOK
<1>5. HandlersBound'
  BY <1>1, <1>4 DEF HandlersBound, AnswersTo
<1>6. WaitingShape'
  BY <1>1 DEF WaitingShape, Released
<1>7. EventsBound' /\ ProcessedMeansFinished'
  BY <1>1, <1>2, EventsKept, MarksKept
<1> QED
  BY <1>1, <1>2, <1>3, <1>5, <1>6, <1>7, SameStore DEF Bindings

LEMMA WorldKeeps == ASSUME Inv, World PROVE Bindings'
<1> USE InvParts
<1>1. ASSUME NEW i \in Calls, PlatformServes(i) \/ PublicationFails(i) PROVE Bindings'
  BY <1>1, HandleKeeps, PublishKeeps DEF PlatformServes, PublicationFails, serviceVars
<1>2. CASE PlatformRestarts
  BY <1>2, RestartKeeps DEF PlatformRestarts, serviceVars
<1>3. ASSUME NEW t \in Threads, StepThrows(t) \/ AckLost(t) PROVE Bindings'
  <2>1. /\ UNCHANGED <<appeals, idem, docs, calls>> /\ Leave(t) /\ handlers[t] # Idle
        /\ processed' \subseteq processed
             \cup (IF handlers[t].step = "mark" THEN {handlers[t].event} ELSE {})
    BY <1>3, IdleShape DEF StepThrows, AckLost, At, platformVars
  <2> QED
    BY <2>1, SameDocs, LeaveKeeps DEF AnswersTaken
<1>4. CASE Crash
  <2>1. UNCHANGED <<appeals, idem, docs, calls, processed>>
    BY <1>4 DEF Crash, platformVars
  <2>2. NobodyWorks' /\ EventsBound'
    BY <1>4, IdleShape DEF Crash, NobodyWorks, EventsBound
  <2>3. CaseShape' /\ DocsBound' /\ CasesGrow
    BY <2>1, SameDocs
  <2> QED
    BY <2>1, <2>2, <2>3, MarksKept, QuietKeeps DEF AnswersTaken
<1>5. ASSUME NEW c \in Cases, ConsentExpires(c) \/ MandateExpires(c) PROVE Bindings'
  BY <1>5, SameBindings DEF ConsentExpires, MandateExpires, bound, platformVars, serviceVars
<1>6. ASSUME NEW f \in Artifacts, VaultDamaged(f) \/ VaultReseeded(f) PROVE Bindings'
  BY <1>6, SameBindings DEF VaultDamaged, VaultReseeded, bound, platformVars, serviceVars
<1> QED
  BY <1>1, <1>2, <1>3, <1>4, <1>5, <1>6, ForgottenKeeps DEF World

LEMMA NextInv == Inv /\ [Next]_vars => Inv'
<1> SUFFICES ASSUME Inv, [Next]_vars PROVE Inv'
  OBVIOUS
<1>1. Base' /\ Exclusive'
  BY InvExclusive, NextBase, NextExclusive DEF Inv
<1>2. Bindings'
  <2>1. CASE UNCHANGED vars
    BY <2>1, SameBindings DEF vars, bound, platformVars, serviceVars
  <2>2. ASSUME NEW a \in Appeals, DuplicateEvent(a) PROVE Bindings'
    BY <2>2, SameBindings DEF DuplicateEvent, bound, serviceVars
  <2> QED
    BY <2>1, <2>2, BeginKeeps, StepKeeps, ConsentKeeps, WorldKeeps DEF Next
<1> QED
  BY <1>1, <1>2 DEF Inv, IInv, Base, Exclusive, Bindings

LEMMA InitInv == Init => Inv
<1> SUFFICES ASSUME Init PROVE Inv
  OBVIOUS
<1>1. Base /\ Exclusive
  BY InitBase, InitExclusive
<1>2. /\ docs = [c \in Cases |-> AbsentCase] /\ processed = {}
      /\ handlers = [t \in Threads |-> Idle]
      /\ appeals = [a \in Appeals |-> UnusedAppeal]
      /\ idem = [k \in Keys |-> NoRecord]
      /\ calls = [i \in Calls |-> FreeCall]
  BY DEF Init, PlatformInit
<1>3. CaseShape /\ DocsBound
  BY <1>2, Ranks DEF CaseShape, DocShape, DocsBound, DocBound, AbsentCase, DecidedStates
<1>4. WaitingShape /\ HandlersBound /\ EventsBound /\ ProcessedMeansFinished
  BY <1>2, IdleShape
     DEF WaitingShape, HandlersBound, EventsBound, ProcessedMeansFinished, DraftSteps,
         ModelSteps, VaultSteps
<1>5. RequestsBound /\ AnswersBound
  BY <1>2, FreeShape DEF RequestsBound, AnswersBound
<1>6. RecordsBound
  BY <1>2, KeyShape DEF RecordsBound, SubmitRecorded, SupplementRecorded, Used, Operations
<1>7. AppealsBound
  BY <1>2 DEF AppealsBound, AppealBound, UnusedAppeal, Known, Decided
<1> QED
  BY <1>1, <1>3, <1>4, <1>5, <1>6, <1>7 DEF Inv, IInv, Base, Exclusive

-----------------------------------------------------------------------------
(* What it is all for.                                                     *)

\* The records, the calls on their way, the appeals and the cases stay tied
\* to each other through retries, lost answers, resets, restarts and crashes.
THEOREM InvariantHolds == Spec => []IInv
<1>1. Inv => IInv
  BY DEF Inv
<1> QED
  BY <1>1, InitInv, NextInv, PTL DEF Spec

\* However often submit is retried, and whatever old request is still under
\* way, MockDrop never holds two appeals of one case (main.py submit, the
\* idempotency key).
THEOREM OneAppeal == Spec => []OneAppealPerCase
<1>1. Inv => OneAppealPerCase
  BY InvParts DEF OneAppealPerCase, AppealsBound, AppealBound
<1> QED
  BY <1>1, InitInv, NextInv, PTL DEF Spec

\* No retry of AppealOS meets a record of another request under its key.
THEOREM KeysAreNotReused == Spec => []NoKeyReuse
<1>1. Inv => NoKeyReuse
  BY InvParts DEF NoKeyReuse, AnswersBound, AnswerBound
<1> QED
  BY <1>1, InitInv, NextInv, PTL DEF Spec

\* MockDrop decides only on evidence that consent and mandate released, on the
\* appeal its case waits for, and never has a reason to reject it.
THEOREM DisclosureIsAuthorized == Spec => []DisclosureAuthorized
<1>1. Inv => DisclosureAuthorized
  BY InvParts DEF DisclosureAuthorized, AppealsBound, AppealBound, Released
<1> QED
  BY <1>1, InitInv, NextInv, PTL DEF Spec

\* What a case says was decided was decided, in its one supplement cycle.
THEOREM CasesTellTheTruth == Spec => []DecisionsAreReal
<1>1. Inv => DecisionsAreReal
  <2> SUFFICES ASSUME Inv, NEW c \in Cases
               PROVE  /\ docs[c].state \in DecidedStates =>
                           /\ docs[c].appeal # None
                           /\ appeals[docs[c].appeal].case = c
                           /\ appeals[docs[c].appeal].status = "APPROVED"
                      /\ docs[c].cyclesUsed = IF docs[c].state \in DecidedStates THEN 1 ELSE 0
    BY DEF DecisionsAreReal
  <2>1. docs[c].state \in CaseStates /\ DocShape(docs[c]) /\ DocBound(c, docs[c])
    BY InvParts DEF ServiceTypeOK, CaseDoc, CaseShape, DocsBound
  <2>2. /\ docs[c].state \in DecidedStates <=> Rank(docs[c].state) >= 6
        /\ Rank(docs[c].state) \in Nat
    BY <2>1, Ranks DEF CaseStates, DecidedStates
  <2> QED
    BY <2>1, <2>2 DEF DocShape, DocBound
<1> QED
  BY <1>1, InitInv, NextInv, PTL DEF Spec

\* An event is marked processed only once its case is finished: neither a
\* crash between the steps nor a second delivery loses the work it stands for.
THEOREM MarksAreEarned == Spec => []ProcessedMeansFinished
<1>1. Inv => ProcessedMeansFinished
  BY InvParts
<1> QED
  BY <1>1, InitInv, NextInv, PTL DEF Spec

-----------------------------------------------------------------------------
(* The refinement of CaseLifecycle: a move of a case is the action of that *)
(* name there, the decision of the platform is Grant, and everything else  *)
(* is a stutter.                                                           *)

\* What a case waits for is not approved before it knows of it, so a move
\* grants nothing.
LEMMA MoveGrantsNothing ==
    ASSUME Inv, UNCHANGED appeals, NEW c \in Cases, NEW doc \in CaseDoc,
           Moves(c, doc), Save(c, doc)
    PROVE  UNCHANGED Granted
<1> USE InvParts
<1>1. \A b \in Cases : docs'[b] = IF b = c THEN doc ELSE docs[b]
  BY DEF Save, ServiceTypeOK
<1>2. docs[c].appeal # None => doc.appeal = docs[c].appeal
  BY MoveSound
<1>3. ASSUME docs[c].appeal = None, doc.appeal # None
      PROVE  appeals[doc.appeal].status # "APPROVED"
  <2>1. doc.appeal \in Appeals
    BY <1>3 DEF CaseDoc
  <2>2. appeals[doc.appeal].case = c
    BY <1>3, MoveSound DEF DocBound
  <2> QED
    BY <1>3, <2>1, <2>2, NoneAssumption DEF AppealsBound, AppealBound, Decided
<1>4. \A b \in Cases :
        docs'[b].appeal # None /\ appeals[docs'[b].appeal].status = "APPROVED"
          <=> docs[b].appeal # None /\ appeals[docs[b].appeal].status = "APPROVED"
  BY <1>1, <1>2, <1>3
<1> QED
  BY <1>4 DEF Granted

LEMMA MoveMaps ==
    ASSUME Inv, UNCHANGED appeals, NEW c \in Cases, NEW doc \in CaseDoc,
           Moves(c, doc), Save(c, doc)
    PROVE  Lifecycle!Next
<1>1. Lifecycle!Become(c, doc)
  BY MoveGrantsNothing DEF Save, Lifecycle!Become
<1>2. CASE Opens(c, doc)
  BY <1>1, <1>2 DEF Opens, Lifecycle!Open, Lifecycle!Next
<1>3. CASE Parses(c, doc)
  BY <1>1, <1>3 DEF Parses, Lifecycle!Parse, Lifecycle!Next
<1>4. CASE Consents(c, doc)
  BY <1>1, <1>4 DEF Consents, Lifecycle!Consent, Lifecycle!Next
<1>5. CASE Mandates(c, doc)
  BY <1>1, <1>5 DEF Mandates, Lifecycle!Mandate, Lifecycle!Next
<1>6. CASE Quarantines(c, doc)
  BY <1>1, <1>6 DEF Quarantines, Quarantined, Lifecycle!Quarantine, Lifecycle!Next
<1>7. CASE Acknowledges(c, doc)
  BY <1>1, <1>7 DEF Acknowledges, Lifecycle!Acknowledge, Lifecycle!Next
<1>8. CASE Decides(c, doc)
  BY <1>1, <1>8 DEF Decides, Lifecycle!Decide, Lifecycle!Next
<1>9. CASE Finishes(c, doc)
  BY <1>1, <1>9 DEF Finishes, Lifecycle!Finish, Lifecycle!Next
<1> QED
  BY <1>2, <1>3, <1>4, <1>5, <1>6, <1>7, <1>8, <1>9 DEF Moves

\* The decision on a supplement grants the case that sent it.
LEMMA DecideMaps ==
    ASSUME Inv, UNCHANGED docs, NEW i \in Calls,
           Pending(i, "SUBMIT_SUPPLEMENT"), ~Used(calls[i].key),
           Known(calls[i].request.appeal),
           appeals[calls[i].request.appeal].status = "SUPPLEMENT_REQUESTED", DecideAppeal(i)
    PROVE  Lifecycle!Next
<1> USE InvParts
<1>1. PICK c \in Cases : /\ calls[i].key = <<"supplement", c>>
                         /\ docs[c].appeal \in Appeals /\ Released(c)
                         /\ calls[i].request = SupplementRequest(docs[c].appeal, TRUE)
  BY PendingShape
<1> DEFINE a == docs[c].appeal
<1>2. /\ appeals' = [appeals EXCEPT ![a].status = "APPROVED"]
      /\ appeals[a].case = c
  BY <1>1, DecideStore, ZenonT(60)
<1>3. appeals[a].status = "SUPPLEMENT_REQUESTED" /\ a # None
  BY <1>1, NoneAssumption DEF SupplementRequest, NoRequest
<1>4. docs[c].state = "SUPPLEMENT_REQUESTED"
  <2>1. docs[c].state \in CaseStates /\ DocShape(docs[c]) /\ DocBound(c, docs[c])
    BY DEF ServiceTypeOK, CaseDoc, CaseShape, DocsBound
  <2>2. docs[c].state \notin DecidedStates
    BY <1>3, <2>1 DEF DocBound
  <2>3. ~(Rank(docs[c].state) < 5)
    BY <1>3, <2>1 DEF DocShape
  <2> QED
    BY <2>1, <2>2, <2>3, Ranks DEF CaseStates, DecidedStates
<1>5. c \notin Granted
  BY <1>3 DEF Granted
<1>6. Granted' = Granted \cup {c}
  <2>1. \A b \in Cases : docs[b].appeal # None => /\ docs[b].appeal \in Appeals
                                                  /\ appeals[docs[b].appeal].case = b
    BY DEF ServiceTypeOK, CaseDoc, DocsBound, DocBound
  <2>2. \A b \in Cases : docs[b].appeal = a => b = c
    BY <1>2, <1>3, <2>1
  <2>3. \A b \in Appeals : appeals'[b].status = IF b = a THEN "APPROVED" ELSE appeals[b].status
    BY <1>2 DEF PlatformTypeOK, AppealRecord
  <2>4. \A b \in Cases :
          docs[b].appeal # None /\ appeals'[docs[b].appeal].status = "APPROVED"
            <=> b = c \/ (docs[b].appeal # None /\ appeals[docs[b].appeal].status = "APPROVED")
    BY <1>1, <1>3, <2>1, <2>2, <2>3
  <2> QED
    BY <2>4 DEF Granted
<1>7. Lifecycle!Grant(c)
  BY <1>1, <1>4, <1>5, <1>6 DEF Lifecycle!Grant, Released
<1> QED
  BY <1>7 DEF Lifecycle!Next

\* A step that touches no case and approves no appeal.
LEMMA StutterMaps ==
    ASSUME Inv, UNCHANGED docs,
           \A a \in Appeals : appeals'[a].status = "APPROVED" <=> appeals[a].status = "APPROVED"
    PROVE  UNCHANGED Lifecycle!vars
<1>1. \A b \in Cases : docs[b].appeal # None => docs[b].appeal \in Appeals
  BY InvParts DEF ServiceTypeOK, CaseDoc
<1>2. \A b \in Cases :
        docs[b].appeal # None /\ appeals'[docs[b].appeal].status = "APPROVED"
          <=> docs[b].appeal # None /\ appeals[docs[b].appeal].status = "APPROVED"
  BY <1>1
<1>3. UNCHANGED Granted
  BY <1>2 DEF Granted
<1> QED
  BY <1>3 DEF Lifecycle!vars

\* Serving a call decides an appeal, or approves none.
LEMMA HandleMaps ==
    ASSUME Inv, UNCHANGED docs, NEW i \in Calls, Handle(i)
    PROVE  Lifecycle!Next \/ UNCHANGED Lifecycle!vars
<1> USE InvParts
<1>1. CASE HandleReset(i)
  BY <1>1, StutterMaps DEF HandleReset, Wipe, PlatformTypeOK, AppealRecord
<1>2. CASE HandleSubmit(i)
  <2>1. CASE UNCHANGED appeals
    BY <2>1, StutterMaps
  <2>2. CASE FileAppeal(i)
    BY <2>2, StutterMaps DEF FileAppeal, PlatformTypeOK, UnusedAppeal, NewAppeal
  <2> QED
    BY <1>2, <2>1, <2>2 DEF HandleSubmit, Replay, AnswerOnly
<1>3. CASE HandleSupplement(i)
  <2>1. CASE UNCHANGED appeals
    BY <2>1, StutterMaps
  <2> QED
    BY <1>3, <2>1, DecideMaps DEF HandleSupplement, Replay, AnswerOnly
<1>4. CASE HandleGetAccount(i)
  BY <1>4, StutterMaps DEF HandleGetAccount, AnswerOnly
<1> QED
  BY <1>1, <1>2, <1>3, <1>4 DEF Handle

LEMMA NextMaps == Inv /\ [Next]_vars => [Lifecycle!Next]_(Lifecycle!vars)
<1> SUFFICES ASSUME Inv, [Next]_vars PROVE Lifecycle!Next \/ UNCHANGED Lifecycle!vars
  OBVIOUS
<1> USE InvParts
<1>1. CASE UNCHANGED <<docs, appeals>>
  BY <1>1, StutterMaps
<1>2. ASSUME UNCHANGED appeals,
             \/ UNCHANGED docs
             \/ \E c \in Cases, doc \in CaseDoc : Moves(c, doc) /\ Save(c, doc)
      PROVE  Lifecycle!Next \/ UNCHANGED Lifecycle!vars
  BY <1>1, <1>2, MoveMaps
<1>3. ASSUME NEW t \in Threads, Begin(t) PROVE UNCHANGED <<docs, appeals>>
  BY <1>3 DEF Begin, ResetBegins, MethodBegins, ExecuteBegins, EventBegins, platformVars
<1>4. ASSUME NEW t \in Threads, Step(t) \/ ModelStep(t)
      PROVE  Lifecycle!Next \/ UNCHANGED Lifecycle!vars
  <2>1. UNCHANGED appeals
    BY <1>4 DEF Step, ModelStep, ResetStep, SubmitStep, SupplementStep, SupplementSends, Disclose,
         VerifyStep, NoticeStep, MandateStep, MandateCites, NoticeReturns, MandateReturns,
         ModelFails, StepRefused, ArtifactQuarantined, ArtifactRefused, Raise, SaveAndLeave,
         ResetReturns, SubmitReturns, SupplementReturns, VerifyReturns, CallFails, EventMarked,
         CallPlatform, Proceed, platformVars
  <2> QED
    BY <1>2, <1>4, <2>1, StepMoves
<1>5. ASSUME NEW c \in Cases, Consent(c) PROVE Lifecycle!Next \/ UNCHANGED Lifecycle!vars
  <2>1. UNCHANGED appeals
    BY <1>5 DEF Consent, platformVars
  <2> QED
    BY <1>2, <1>5, <2>1, ConsentMoves
<1>6. ASSUME NEW i \in Calls, PlatformServes(i) PROVE Lifecycle!Next \/ UNCHANGED Lifecycle!vars
  BY <1>1, <1>6, HandleMaps DEF PlatformServes, serviceVars, Publish, ImportSettles
<1>7. CASE PlatformRestarts
  BY <1>7, StutterMaps
     DEF PlatformRestarts, Restart, Wipe, serviceVars, PlatformTypeOK, AppealRecord
<1>8. CASE UNCHANGED vars \/ (\E a \in Appeals : DuplicateEvent(a))
  BY <1>1, <1>8 DEF vars, platformVars, serviceVars, DuplicateEvent
<1>9. CASE World
  BY <1>1, <1>6, <1>7, <1>9
     DEF World, ConsentExpires, MandateExpires, VaultDamaged, VaultReseeded,
         PublicationFails, PublishFails, CallForgotten, StepThrows, AckLost, Crash,
         serviceVars, platformVars
<1> QED
  BY <1>1, <1>3, <1>4, <1>5, <1>8, <1>9 DEF Next

LEMMA InitMaps == Init => Lifecycle!Init
BY DEF Init, AbsentCase, Granted, Lifecycle!Init, Lifecycle!New

\* AppealOS with MockDrop implements CaseLifecycle: whatever thread, retry,
\* redelivery or restart takes the step, a case only ever does what is
\* promised there, and what is granted was granted once, by the platform.
THEOREM LifecycleImplemented == Spec => LifecycleKept
BY InitInv, NextInv, InitMaps, NextMaps, PTL DEF Spec, LifecycleKept, Lifecycle!Spec

=============================================================================

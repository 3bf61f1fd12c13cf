-------------------------- MODULE AppealInvariant --------------------------
(***************************************************************************)
(* The inductive invariant behind the safety properties of AppealOS with   *)
(* MockDrop.  The properties are not inductive: that a retry replays, say, *)
(* rests on what is known of every call still on its way, of every record, *)
(* and of the case that sent it.  Each conjunct says what one part of the  *)
(* state tells about another.                                              *)
(***************************************************************************)
EXTENDS AppealProperties

\* How far along a case is (UI stateOrder; STATES of domain.py).
Rank(state) ==
    CASE state = "ABSENT"               -> 0
      [] state = "NOTICE_RECEIVED"      -> 1
      [] state = "PARSED"               -> 2
      [] state = "CONSENTED"            -> 3
      [] state = "MANDATE_APPROVED"     -> 4
      [] state = "SUPPLEMENT_REQUESTED" -> 5
      [] state \in DecidedStates \ {"ACCOUNT_ACTIVE"} -> 6
      [] OTHER                          -> 7

\* Only the holder of the lock is at work.
LockHeld == \A t \in Threads : handlers[t] # Idle => lock = t

\* What a case has, by its state.
DocShape(doc) ==
    /\ doc.state = "ABSENT" => doc = AbsentCase
    /\ Rank(doc.state) < 3 => doc.consent = {}
    /\ Rank(doc.state) < 4 => doc.mandate = {}
    /\ (doc.appeal = None) <=> Rank(doc.state) < 5
    /\ doc.cyclesUsed = IF Rank(doc.state) < 6 THEN 0 ELSE 1

CaseShape == \A c \in Cases : DocShape(docs[c])

Released(c) == DeviceLog \in docs[c].consent \cap docs[c].mandate

\* What a thread may rely on once it has loaded its case.
WaitingShape ==
    \A t \in Threads :
        LET c == handlers[t].case
            step == handlers[t].step
        IN  /\ step \in ModelSteps \cup VaultSteps => c \in Cases /\ handlers[t].call = None
            /\ step = "parsing" => docs[c].state = "NOTICE_RECEIVED"
            /\ step \in {"citing", "drafting"} => docs[c].state = "CONSENTED"
            /\ step = "drafting" => docs[c].consent \cap docs[c].quarantined = {}
            /\ step = "disclosing" => docs[c].state = "SUPPLEMENT_REQUESTED" /\ Released(c)
            /\ handlers[t].call # None =>
                 /\ step \in {"reset", "submit", "supplement", "verify"}
                 /\ step = "submit" => docs[c].state = "MANDATE_APPROVED"
                 /\ step = "supplement" => docs[c].state = "SUPPLEMENT_REQUESTED"
                 /\ step = "verify" => docs[c].state = "DECIDED_APPROVED"

\* Every request on its way is the one request its key stands for; those that
\* write nothing carry no key.
RequestsBound ==
    \A i \in Calls : calls[i].stage = "sent" =>
        \/ calls[i].key = None /\ calls[i].request \in {ResetRequest, AccountRequest}
        \/ \E c \in Cases : calls[i].key = <<"submit", c>> /\ calls[i].request = AppealRequest(c)
        \/ \E c \in Cases : /\ calls[i].key = <<"supplement", c>>
                            /\ docs[c].appeal \in Appeals /\ Released(c)
                            /\ calls[i].request = SupplementRequest(docs[c].appeal, TRUE)

\* So is every request on record, and its response is what the platform did.
SubmitRecorded(c) ==
    Used(<<"submit", c>>) =>
        LET record == idem[<<"submit", c>>]
        IN  /\ record.request = AppealRequest(c)
            /\ record.answer.result = "OK"
            /\ record.answer.status = "SUPPLEMENT_REQUESTED"
            /\ record.answer.appeal \in Appeals
            /\ appeals[record.answer.appeal].case = c

SupplementRecorded(c) ==
    Used(<<"supplement", c>>) =>
        LET record == idem[<<"supplement", c>>]
        IN  /\ docs[c].appeal \in Appeals
            /\ record.request = SupplementRequest(docs[c].appeal, TRUE)
            /\ record.answer.result = "OK"
            /\ record.answer.status = "APPROVED"
            /\ record.answer.appeal = docs[c].appeal
            /\ appeals[docs[c].appeal].status = "APPROVED"

RecordsBound == \A c \in Cases : SubmitRecorded(c) /\ SupplementRecorded(c)

\* An appeal the platform holds is the one its case's submit record names, and
\* once decided it is approved, for a case that released the device log.
AppealBound(a) ==
    /\ appeals[a].status = "UNUSED" => appeals[a] = UnusedAppeal
    /\ appeals[a].status # "UNUSED" => appeals[a].case \in Cases
    /\ Known(a) => /\ Used(<<"submit", appeals[a].case>>)
                   /\ idem[<<"submit", appeals[a].case>>].answer.appeal = a
    /\ appeals[a].status \in Decided => /\ appeals[a].status = "APPROVED"
                                        /\ docs[appeals[a].case].appeal = a
                                        /\ Released(appeals[a].case)

AppealsBound == \A a \in Appeals : AppealBound(a)

\* An answer tells what the platform did.
AnswerBound(x) ==
    /\ x.result # "KEY_REUSE"
    /\ x.status # "REJECTED"
    /\ x.appeal # None => appeals[x.appeal].status # "UNUSED"
    /\ x.status = "APPROVED" => x.appeal \in Appeals /\ appeals[x.appeal].status = "APPROVED"

\* Every answer on the wire does.
AnswersBound == \A i \in Calls : AnswerBound(calls[i].answer)

\* So does what a case has recorded of it.
DocBound(c, doc) ==
    /\ doc.appeal # None => appeals[doc.appeal].case = c
    /\ doc.state # "DECIDED_REJECTED"
    /\ doc.state \in DecidedStates => appeals[doc.appeal].status = "APPROVED"

DocsBound == \A c \in Cases : DocBound(c, docs[c])

\* A success is the answer to this operation of this case.
AnswersTo(op, c, x) ==
    x.result = "OK" =>
        /\ op = "submit" => x.appeal \in Appeals /\ appeals[x.appeal].case = c
        /\ op = "supplement" => x.status = "APPROVED" /\ x.appeal = docs[c].appeal

\* The call a thread waits for is its own, and answers what it asked.
HandlersBound ==
    \A t \in Threads : handlers[t].call # None /\ handlers[t].step \in Operations =>
        LET call == calls[handlers[t].call]
        IN  \/ call.stage = "sent" /\ call.key = <<handlers[t].step, handlers[t].case>>
            \/ /\ call.stage \in {"publishing", "answered"}
               /\ AnswersTo(handlers[t].step, handlers[t].case, call.answer)

\* The event a thread handles is about the appeal of its case, and is marked
\* only once the case is finished.
EventsBound ==
    \A t \in Threads : handlers[t].op = "event" =>
        LET a == handlers[t].event[1]
        IN  /\ handlers[t].case \in Cases
            /\ appeals[a].case = handlers[t].case
            /\ docs[handlers[t].case].appeal = a
            /\ handlers[t].step = "mark" => docs[handlers[t].case].state = "ACCOUNT_ACTIVE"

IInv ==
    /\ TypeOK
    /\ LockHeld /\ NoLostUpdate
    /\ CaseShape /\ WaitingShape
    /\ RequestsBound /\ RecordsBound /\ AppealsBound /\ AnswersBound /\ DocsBound
    /\ HandlersBound /\ EventsBound
    /\ ProcessedMeansFinished

=============================================================================

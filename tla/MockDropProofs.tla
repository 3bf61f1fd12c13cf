--------------------------- MODULE MockDropProofs ---------------------------
(***************************************************************************)
(* The steps of MockDrop keep its state well typed, for any number of      *)
(* cases, appeals and calls.  The lemmas are stated for the steps and not  *)
(* for one specification: MockDropClients and AppealWorkflow both take     *)
(* them.                                                                   *)
(***************************************************************************)
EXTENDS MockDrop, TLAPS

\* The records the steps are built from have their types (MockDrop, "Data").
LEMMA DataTyped ==
    /\ NoRequest \in Request /\ ResetRequest \in Request /\ AccountRequest \in Request
    /\ \A c \in Cases : AppealRequest(c) \in Request
    /\ \A a \in Appeals, m \in BOOLEAN : SupplementRequest(a, m) \in Request
    /\ NoAnswer \in Answer
    /\ \A r \in Failures : Failure(r) \in Answer
    /\ NoRecord \in IdemRecord
    /\ FreeCall \in Call
    /\ \A s \in Stages, x \in Answer : Served(s, x) \in Call
    /\ UnusedAppeal \in AppealRecord
    /\ \A c \in Cases : NewAppeal(c) \in AppealRecord
<1>1. /\ NoRequest \in Request /\ ResetRequest \in Request /\ AccountRequest \in Request
      /\ \A c \in Cases : AppealRequest(c) \in Request
      /\ \A a \in Appeals, m \in BOOLEAN : SupplementRequest(a, m) \in Request
  BY DEF NoRequest, ResetRequest, AccountRequest, AppealRequest, SupplementRequest,
         Request, RequestKinds
<1>2. NoAnswer \in Answer /\ \A r \in Failures : Failure(r) \in Answer
  BY DEF NoAnswer, Answer, Failure, Failures
<1>3. NoRecord \in IdemRecord
  BY <1>1, <1>2 DEF NoRecord, IdemRecord
<1>4. FreeCall \in Call
  BY <1>1, <1>2 DEF FreeCall, Call, Stages
<1>5. \A s \in Stages, x \in Answer : Served(s, x) \in Call
  BY <1>4 DEF Served, FreeCall, Call
<1>6. UnusedAppeal \in AppealRecord /\ \A c \in Cases : NewAppeal(c) \in AppealRecord
  BY DEF UnusedAppeal, NewAppeal, AppealRecord, AppealStatus, OpenOrDecided
<1> QED
  BY <1>1, <1>2, <1>3, <1>4, <1>5, <1>6

\* A publication handed to the cached client is a call like any other.
LEMMA PublishedTyped ==
    ASSUME PlatformTypeOK, NEW x
    PROVE  /\ x \in Answer => Published(x) \in Call
           /\ Published(x).stage = "publishing" /\ Published(x).answer = x
           /\ Published(x).client = publisher
<1>1. x \in Answer => Served("publishing", x) \in Call
  BY DataTyped DEF Stages
<1>2. /\ Served("publishing", x).stage = "publishing" /\ Served("publishing", x).answer = x
      /\ "client" \in DOMAIN Served("publishing", x)
  BY DEF Served, FreeCall
<1>3. publisher \in Nat
  BY DEF PlatformTypeOK
<1> QED
  BY <1>1, <1>2, <1>3 DEF Published, Served, FreeCall, Call

\* A new platform is well typed (MockDropStore constructor).
LEMMA PlatformInitTyped == PlatformInit => PlatformTypeOK
BY DataTyped DEF PlatformInit, PlatformTypeOK, FreshAccount, AccountStatus

\* Sending a request and taking an answer keep the types.
LEMMA SendTyped ==
    ASSUME PlatformTypeOK, UNCHANGED <<account, appeals, idem, seq, topic, publisher>>,
           NEW i \in Calls, NEW k \in Keys \cup {None}, NEW r \in Request, Send(i, k, r)
    PROVE  PlatformTypeOK'
<1>1. [stage |-> "sent", key |-> k, request |-> r, answer |-> NoAnswer, client |-> 0] \in Call
  BY DataTyped DEF Call, Stages
<1> QED
  BY <1>1 DEF Send, PlatformTypeOK

LEMMA ReleaseTyped ==
    ASSUME PlatformTypeOK, UNCHANGED <<account, appeals, idem, seq, topic, publisher>>,
           NEW i \in Calls, Release(i)
    PROVE  PlatformTypeOK'
BY DataTyped DEF Release, PlatformTypeOK

\* Answering without touching the store keeps the types.
LEMMA AnswerOnlyTyped ==
    ASSUME PlatformTypeOK, NEW i \in Calls, NEW x \in Answer, AnswerOnly(i, x)
    PROVE  PlatformTypeOK'
<1>1. Served("answered", x) \in Call
  BY DataTyped DEF Stages
<1> QED
  BY <1>1 DEF AnswerOnly, AnswerWith, PlatformTypeOK

LEMMA ReplayTyped ==
    ASSUME PlatformTypeOK, NEW i \in Calls, calls[i].key \in Keys, Replay(i)
    PROVE  PlatformTypeOK'
<1>1. idem[calls[i].key].answer \in Answer
  BY DEF PlatformTypeOK, IdemRecord
<1>2. Failure("KEY_REUSE") \in Answer
  BY DataTyped DEF Failures
<1> QED
  BY <1>1, <1>2, AnswerOnlyTyped DEF Replay

LEMMA WipeTyped ==
    ASSUME PlatformTypeOK, Wipe, calls' \in [Calls -> Call], UNCHANGED topic,
           publisher' \in Nat
    PROVE  PlatformTypeOK'
<1>1. account' \in [status : AccountStatus, version : Nat]
  BY DEF Wipe, FreshAccount, AccountStatus
<1>2. appeals' \in [Appeals -> AppealRecord]
  BY DEF Wipe, PlatformTypeOK, AppealRecord, AppealStatus
<1>3. idem' \in [Keys -> IdemRecord] /\ seq' \in Nat
  BY DataTyped DEF Wipe
<1> QED
  BY <1>1, <1>2, <1>3 DEF PlatformTypeOK

\* Committing a write, with the record, the receipt and the response.
LEMMA CommitTyped ==
    ASSUME PlatformTypeOK, NEW i \in Calls, NEW x \in Answer, calls[i].key \in Keys,
           Commit(i, x),
           account' \in [status : AccountStatus, version : Nat],
           appeals' \in [Appeals -> AppealRecord]
    PROVE  PlatformTypeOK'
<1>1. Published(x) \in Call
  BY PublishedTyped
<1>2. [request |-> calls[i].request, answer |-> x] \in IdemRecord
  BY DEF PlatformTypeOK, Call, IdemRecord
<1>3. seq' \in Nat
  BY DEF Commit, Answer
<1> QED
  BY <1>1, <1>2, <1>3 DEF Commit, PlatformTypeOK

\* A write in flight carries a key, a submit a case, a supplement an appeal:
\* requests are only formed that way (mockdrop.py, MockDropClient).
CallsWellFormed ==
    \A i \in Calls : calls[i].stage = "sent" =>
        /\ calls[i].request.kind = "SUBMIT_APPEAL" =>
             calls[i].key \in Keys /\ calls[i].request.case \in Cases
        /\ calls[i].request.kind = "SUBMIT_SUPPLEMENT" =>
             calls[i].key \in Keys /\ calls[i].request.appeal \in Appeals

\* What is published belongs to an appeal.
AnswersWellFormed ==
    \A i \in Calls : calls[i].stage = "publishing" => calls[i].answer.appeal \in Appeals

LEMMA SubmitTyped ==
    ASSUME PlatformTypeOK, CallsWellFormed, NEW i \in Calls, HandleSubmit(i)
    PROVE  PlatformTypeOK'
<1>1. calls[i].key \in Keys /\ calls[i].request.case \in Cases
  BY DEF HandleSubmit, Pending, CallsWellFormed
<1>2. CASE Replay(i)
  BY <1>1, <1>2, ReplayTyped
<1>3. CASE AnswerOnly(i, Failure("CONFLICT"))
  BY <1>3, AnswerOnlyTyped, DataTyped DEF Failures
<1>4. CASE FileAppeal(i)
  <2> DEFINE c == calls[i].request.case
  <2>1. PICK a \in Appeals :
          /\ appeals' = [appeals EXCEPT ![a] = NewAppeal(c)]
          /\ Commit(i, [result |-> "OK", appeal |-> a, status |-> "SUPPLEMENT_REQUESTED",
                        account |-> "NONE", receipt |-> seq + 1])
          /\ UNCHANGED account
    BY <1>4 DEF FileAppeal
  <2>2. NewAppeal(c) \in AppealRecord
    BY <1>1, DataTyped
  <2>3. appeals' \in [Appeals -> AppealRecord]
    BY <2>1, <2>2 DEF PlatformTypeOK
  <2>4. [result |-> "OK", appeal |-> a, status |-> "SUPPLEMENT_REQUESTED",
         account |-> "NONE", receipt |-> seq + 1] \in Answer
    BY DEF Answer, OpenOrDecided, PlatformTypeOK
  <2>5. account' \in [status : AccountStatus, version : Nat]
    BY <2>1 DEF PlatformTypeOK
  <2> QED
    BY <1>1, <2>1, <2>3, <2>4, <2>5, CommitTyped
<1> QED
  BY <1>2, <1>3, <1>4 DEF HandleSubmit

LEMMA SupplementTyped ==
    ASSUME PlatformTypeOK, CallsWellFormed, NEW i \in Calls, HandleSupplement(i)
    PROVE  PlatformTypeOK'
<1>1. calls[i].key \in Keys /\ calls[i].request.appeal \in Appeals
  BY DEF HandleSupplement, Pending, CallsWellFormed
<1>2. CASE Replay(i)
  BY <1>1, <1>2, ReplayTyped
<1>3. CASE AnswerOnly(i, Failure("CONFLICT"))
  BY <1>3, AnswerOnlyTyped, DataTyped DEF Failures
<1>4. CASE AnswerOnly(i, Failure("NOT_FOUND"))
  BY <1>4, AnswerOnlyTyped, DataTyped DEF Failures
<1>5. CASE DecideAppeal(i)
  <2> DEFINE a == calls[i].request.appeal
             status == IF calls[i].request.matches THEN "APPROVED" ELSE "REJECTED"
             account2 == IF calls[i].request.matches
                         THEN [status |-> "ACTIVE", version |-> account.version + 1]
                         ELSE account
             x == [result |-> "OK", appeal |-> a, status |-> status,
                   account |-> account2.status, receipt |-> seq + 1]
  <2>1. account2 \in [status : AccountStatus, version : Nat]
    BY DEF PlatformTypeOK, AccountStatus
  <2>2. status \in OpenOrDecided
    BY DEF OpenOrDecided, Decided
  <2>3. x \in Answer
    BY <1>1, <2>1, <2>2 DEF Answer, PlatformTypeOK
  <2>4. [appeals[a] EXCEPT !.status = status] \in AppealRecord
    BY <1>1, <2>2, ZenonT(60) DEF PlatformTypeOK, AppealRecord, AppealStatus
  <2>5. appeals' = [appeals EXCEPT ![a].status = status] /\ account' = account2
        /\ Commit(i, x)
    BY <1>5 DEF DecideAppeal
  <2>6. appeals' \in [Appeals -> AppealRecord]
    BY <1>1, <2>4, <2>5 DEF PlatformTypeOK
  <2> HIDE DEF a, status, account2, x
  <2> QED
    BY <1>1, <2>1, <2>3, <2>5, <2>6, CommitTyped
<1> QED
  BY <1>2, <1>3, <1>4, <1>5 DEF HandleSupplement

\* Serving a request keeps the types.
LEMMA HandleTyped ==
    ASSUME PlatformTypeOK, CallsWellFormed, NEW i \in Calls, Handle(i)
    PROVE  PlatformTypeOK'
<1>1. CASE HandleReset(i)
  <2>1. [NoAnswer EXCEPT !.result = "OK", !.account = "SUSPENDED"] \in Answer
    BY DataTyped DEF NoAnswer, Answer, AccountStatus
  <2>2. calls' \in [Calls -> Call]
    BY <1>1, <2>1, DataTyped DEF HandleReset, AnswerWith, PlatformTypeOK, Stages
  <2> QED
    BY <1>1, <2>2, WipeTyped DEF HandleReset, PlatformTypeOK
<1>2. CASE HandleGetAccount(i)
  <2>1. [NoAnswer EXCEPT !.result = "OK", !.account = account.status] \in Answer
    BY DEF NoAnswer, Answer, AccountStatus, PlatformTypeOK
  <2> QED
    BY <1>2, <2>1, AnswerOnlyTyped DEF HandleGetAccount
<1> QED
  BY <1>1, <1>2, SubmitTyped, SupplementTyped DEF Handle

\* Publishing, failing to publish and dying keep the types.
LEMMA PublishTyped ==
    ASSUME PlatformTypeOK, AnswersWellFormed, NEW i \in Calls,
           Publish(i) \/ PublishFails(i)
    PROVE  PlatformTypeOK'
<1> DEFINE x == calls[i].answer
<1>1. x \in Answer /\ x.appeal \in Appeals
  BY DEF Publish, PublishFails, FirstToPublish, AnswersWellFormed, PlatformTypeOK, Call
<1>2. EventOf(x) \in EventTypes
  BY DEF EventOf, EventTypes
<1>3. ToTopic(x) \/ UNCHANGED topic
  BY DEF Publish, PublishFails
<1>4. topic' \in [Appeals -> Seq(EventTypes)]
  <2> DEFINE a == x.appeal
  <2>1. topic \in [Appeals -> Seq(EventTypes)] /\ topic[a] \in Seq(EventTypes)
    BY <1>1 DEF PlatformTypeOK
  <2>2. Append(topic[a], EventOf(x)) \in Seq(EventTypes)
    BY <1>2, <2>1
  <2>3. topic' = topic \/ topic' = [topic EXCEPT ![a] = Append(topic[a], EventOf(x))]
    BY <1>3 DEF ToTopic
  <2> HIDE DEF a, x
  <2> QED
    BY <2>1, <2>2, <2>3
<1>5. Served("answered", x) \in Call /\ Served("answered", Failure("INTERNAL_ERROR")) \in Call
  BY <1>1, DataTyped DEF Stages, Failures
<1>6. calls' \in [Calls -> Call]
  BY <1>5 DEF Publish, PublishFails, AnswerWith, PlatformTypeOK
<1> QED
  BY <1>4, <1>6 DEF Publish, PublishFails, PlatformTypeOK

LEMMA ImportTyped ==
    ASSUME PlatformTypeOK, NEW i \in Calls, ImportSettles(i)
    PROVE  PlatformTypeOK'
<1>1. publisher + 1 \in Nat
  BY DEF PlatformTypeOK
<1>2. [calls[i] EXCEPT !.client = publisher + 1] \in Call
  BY <1>1 DEF PlatformTypeOK, Call
<1> QED
  BY <1>1, <1>2 DEF ImportSettles, PlatformTypeOK

LEMMA RestartTyped ==
    ASSUME PlatformTypeOK, Restart
    PROVE  PlatformTypeOK'
<1>1. Served("answered", Failure("INTERNAL_ERROR")) \in Call
  BY DataTyped DEF Stages, Failures
<1>2. calls' \in [Calls -> Call]
  BY <1>1 DEF Restart, PlatformTypeOK
<1> QED
  BY <1>2, WipeTyped DEF Restart

-----------------------------------------------------------------------------
(* Calls and answers stay well formed.                                     *)

WellFormed == CallsWellFormed /\ AnswersWellFormed

\* Answering a call, or freeing it, takes it out of both conditions.
LEMMA AnswerWellFormed ==
    ASSUME PlatformTypeOK, WellFormed, NEW i \in Calls, NEW x,
           AnswerWith(i, x) \/ Release(i)
    PROVE  WellFormed'
<1>1. Served("answered", x).stage = "answered" /\ FreeCall.stage = "free"
  BY DEF Served, FreeCall
<1>2. \A j \in Calls : calls'[j] = calls[j] \/ calls'[j].stage \in {"answered", "free"}
  BY <1>1 DEF AnswerWith, Release, PlatformTypeOK
<1> QED
  BY <1>2 DEF WellFormed, CallsWellFormed, AnswersWellFormed

\* A committed write is published for the appeal it filed or decided.
LEMMA CommitWellFormed ==
    ASSUME PlatformTypeOK, WellFormed, NEW i \in Calls, NEW x, x.appeal \in Appeals,
           Commit(i, x)
    PROVE  WellFormed'
<1>1. Published(x).stage = "publishing" /\ Published(x).answer = x
  BY PublishedTyped
<1>2. \A j \in Calls :
        calls'[j] = calls[j]
          \/ (calls'[j].stage = "publishing" /\ calls'[j].answer.appeal \in Appeals)
  BY <1>1 DEF Commit, PlatformTypeOK
<1> QED
  BY <1>2 DEF WellFormed, CallsWellFormed, AnswersWellFormed

LEMMA SendWellFormed ==
    ASSUME PlatformTypeOK, WellFormed, NEW i \in Calls, NEW k, NEW r, Send(i, k, r),
           r.kind = "SUBMIT_APPEAL" => k \in Keys /\ r.case \in Cases,
           r.kind = "SUBMIT_SUPPLEMENT" => k \in Keys /\ r.appeal \in Appeals
    PROVE  WellFormed'
BY DEF Send, WellFormed, CallsWellFormed, AnswersWellFormed, PlatformTypeOK

LEMMA HandleWellFormed ==
    ASSUME PlatformTypeOK, WellFormed, NEW i \in Calls, Handle(i)
    PROVE  WellFormed'
<1>1. CASE \E x : AnswerWith(i, x)
  BY <1>1, AnswerWellFormed
<1>2. CASE FileAppeal(i)
  <2>1. PICK a \in Appeals :
          Commit(i, [result |-> "OK", appeal |-> a, status |-> "SUPPLEMENT_REQUESTED",
                     account |-> "NONE", receipt |-> seq + 1])
    BY <1>2 DEF FileAppeal
  <2> QED
    BY <2>1, CommitWellFormed
<1>3. CASE HandleSupplement(i) /\ DecideAppeal(i)
  <2>1. calls[i].request.appeal \in Appeals
    BY <1>3 DEF HandleSupplement, Pending, WellFormed, CallsWellFormed
  <2>2. \E x : x.appeal \in Appeals /\ Commit(i, x)
    BY <1>3, <2>1 DEF DecideAppeal
  <2> QED
    BY <2>2, CommitWellFormed
<1> QED
  BY <1>1, <1>2, <1>3 DEF Handle, HandleReset, HandleGetAccount, HandleSubmit,
                          HandleSupplement, AnswerOnly, Replay

LEMMA PublishWellFormed ==
    ASSUME PlatformTypeOK, WellFormed, NEW i \in Calls, Publish(i) \/ PublishFails(i)
    PROVE  WellFormed'
BY AnswerWellFormed DEF Publish, PublishFails

LEMMA ImportWellFormed ==
    ASSUME PlatformTypeOK, WellFormed, NEW i \in Calls, ImportSettles(i)
    PROVE  WellFormed'
<1>1. \A j \in Calls : /\ calls'[j].stage = calls[j].stage /\ calls'[j].key = calls[j].key
                       /\ calls'[j].request = calls[j].request
                       /\ calls'[j].answer = calls[j].answer
  BY DEF ImportSettles, PlatformTypeOK, Call
<1> QED
  BY <1>1 DEF WellFormed, CallsWellFormed, AnswersWellFormed

LEMMA RestartWellFormed ==
    ASSUME PlatformTypeOK, WellFormed, Restart
    PROVE  WellFormed'
<1>1. \A j \in Calls : calls'[j] = calls[j] \/ calls'[j].stage = "answered"
  BY DEF Restart, Served, FreeCall
<1> QED
  BY <1>1 DEF WellFormed, CallsWellFormed, AnswersWellFormed

=============================================================================

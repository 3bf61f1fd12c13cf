------------------------ MODULE MockDropClientsProofs ------------------------
(***************************************************************************)
(* MockDrop keeps its books straight whatever its clients do: for any      *)
(* number of cases, appeals and requests in flight.                        *)
(***************************************************************************)
EXTENDS MockDropClients, MockDropProofs, FiniteSetTheorems, SequenceTheorems

\* The inductive part: types, and requests formed as clients form them.
Base == TypeOK /\ WellFormed

LEMMA InitBase == PlatformInit => Base
<1> SUFFICES ASSUME PlatformInit PROVE Base
  OBVIOUS
<1>1. TypeOK
  BY PlatformInitTyped DEF TypeOK
<1>2. WellFormed
  BY DEF PlatformInit, FreeCall, WellFormed, CallsWellFormed, AnswersWellFormed
<1> QED
  BY <1>1, <1>2 DEF Base

LEMMA NextBase == Base /\ [Next]_platformVars => Base'
<1> SUFFICES ASSUME Base, [Next]_platformVars PROVE Base'
  OBVIOUS
<1> USE DEF Base, TypeOK
<1>1. CASE UNCHANGED platformVars
  BY <1>1 DEF platformVars, PlatformTypeOK, WellFormed, CallsWellFormed, AnswersWellFormed
<1>2. ASSUME NEW i \in Calls, ClientSends(i) PROVE Base'
  <2>1. PICK r \in ClientRequests, k \in Keys \cup {None} :
          ((k \in Keys) <=> (r.kind \in Writes)) /\ Send(i, k, r)
    BY <1>2 DEF ClientSends
  <2>2. r \in Request
    BY DataTyped DEF ClientRequests
  <2>3. /\ r.kind = "SUBMIT_APPEAL" => k \in Keys /\ r.case \in Cases
        /\ r.kind = "SUBMIT_SUPPLEMENT" => k \in Keys /\ r.appeal \in Appeals
    <3>1. /\ ResetRequest.kind = "RESET" /\ AccountRequest.kind = "GET_ACCOUNT"
          /\ \A c \in Cases : /\ AppealRequest(c).kind = "SUBMIT_APPEAL"
                              /\ AppealRequest(c).case = c
          /\ \A a \in Appeals, m \in BOOLEAN :
               /\ SupplementRequest(a, m).kind = "SUBMIT_SUPPLEMENT"
               /\ SupplementRequest(a, m).appeal = a
      BY DEF ResetRequest, AccountRequest, AppealRequest, SupplementRequest, NoRequest
    <3>2. \/ r = ResetRequest \/ r = AccountRequest
          \/ \E c \in Cases : r = AppealRequest(c)
          \/ \E a \in Appeals, m \in BOOLEAN : r = SupplementRequest(a, m)
      BY DEF ClientRequests
    <3> QED
      BY <2>1, <3>1, <3>2 DEF Writes
  <2>4. PlatformTypeOK'
    BY <1>2, <2>1, <2>2, SendTyped DEF ClientSends
  <2>5. WellFormed'
    BY <2>1, <2>3, SendWellFormed
  <2> QED
    BY <2>4, <2>5
<1>3. ASSUME NEW i \in Calls, Handle(i) PROVE Base'
  BY <1>3, HandleTyped, HandleWellFormed DEF WellFormed
<1>4. ASSUME NEW i \in Calls, Publish(i) \/ PublishFails(i) PROVE Base'
  BY <1>4, PublishTyped, PublishWellFormed DEF WellFormed
<1>5. ASSUME NEW i \in Calls, ClientDone(i) PROVE Base'
  BY <1>5, ReleaseTyped, AnswerWellFormed DEF ClientDone
<1>6. CASE Restart
  BY <1>6, RestartTyped, RestartWellFormed
<1>7. ASSUME NEW i \in Calls, ImportSettles(i) PROVE Base'
  BY <1>7, ImportTyped, ImportWellFormed
<1> QED
  BY <1>1, <1>2, <1>3, <1>4, <1>5, <1>6, <1>7 DEF Next

\* The platform's state is well typed in every reachable state.
THEOREM TypeCorrect == Spec => []TypeOK
<1>1. Base => TypeOK
  BY DEF Base
<1> QED
  BY <1>1, InitBase, NextBase, PTL DEF Spec

-----------------------------------------------------------------------------
(* The account reflects the approvals.                                     *)

AccountInv == IsFiniteSet(Approved) /\ AccountReflectsApprovals

LEMMA InitAccount == PlatformInit => AccountInv
<1> SUFFICES ASSUME PlatformInit PROVE AccountInv
  OBVIOUS
<1>1. Approved = {}
  BY DEF PlatformInit, UnusedAppeal, Approved
<1> QED
  BY <1>1, FS_EmptySet DEF PlatformInit, FreshAccount, AccountInv, AccountReflectsApprovals

\* A step that neither approves an appeal nor touches the account.
LEMMA SameApprovals ==
    ASSUME AccountInv, Approved' = Approved, account' = account
    PROVE  AccountInv'
BY DEF AccountInv, AccountReflectsApprovals

\* A wiped store has no approval and a suspended account.
LEMMA WipeAccount ==
    ASSUME PlatformTypeOK, Wipe
    PROVE  AccountInv'
<1>1. Approved' = {}
  BY DEF Wipe, Approved, Known, PlatformTypeOK, AppealRecord
<1> QED
  BY <1>1, FS_EmptySet DEF Wipe, FreshAccount, AccountInv, AccountReflectsApprovals

\* A decision approves exactly one appeal more, or none.
LEMMA DecideAccount ==
    ASSUME PlatformTypeOK, AccountInv, NEW i \in Calls, calls[i].request.appeal \in Appeals,
           Known(calls[i].request.appeal),
           appeals[calls[i].request.appeal].status = "SUPPLEMENT_REQUESTED", DecideAppeal(i)
    PROVE  AccountInv'
<1> DEFINE a == calls[i].request.appeal
<1>1. a \in Appeals /\ a \notin Approved /\ Known(a)
  BY DEF Approved
<1>2. CASE calls[i].request.matches
  <2>1. appeals' = [appeals EXCEPT ![a].status = "APPROVED"]
        /\ account' = [status |-> "ACTIVE", version |-> account.version + 1]
    BY <1>2 DEF DecideAppeal
  <2>2. Approved' = Approved \cup {a}
    BY <1>1, <2>1 DEF Approved, Known, PlatformTypeOK, AppealRecord
  <2>3. IsFiniteSet(Approved') /\ Cardinality(Approved') = Cardinality(Approved) + 1
    BY <1>1, <2>2, FS_AddElement DEF AccountInv
  <2>4. Cardinality(Approved) \in Nat
    BY FS_CardinalityType DEF AccountInv
  <2> QED
    BY <1>1, <2>1, <2>2, <2>3, <2>4 DEF AccountInv, AccountReflectsApprovals
<1>3. CASE ~calls[i].request.matches
  <2>1. appeals' = [appeals EXCEPT ![a].status = "REJECTED"] /\ account' = account
    BY <1>3 DEF DecideAppeal
  <2>2. Approved' = Approved
    BY <1>1, <2>1 DEF Approved, Known, PlatformTypeOK, AppealRecord
  <2> QED
    BY <2>1, <2>2, SameApprovals
<1> QED
  BY <1>2, <1>3

LEMMA NextAccount == Base /\ AccountInv /\ [Next]_platformVars => AccountInv'
<1> SUFFICES ASSUME Base, AccountInv, [Next]_platformVars PROVE AccountInv'
  OBVIOUS
<1> USE DEF Base, TypeOK
<1>1. CASE UNCHANGED <<account, appeals>>
  BY <1>1, SameApprovals DEF Approved, Known
<1>2. ASSUME NEW i \in Calls, HandleReset(i) PROVE AccountInv'
  BY <1>2, WipeAccount DEF HandleReset
<1>3. CASE Restart
  BY <1>3, WipeAccount DEF Restart
<1>4. ASSUME NEW i \in Calls, FileAppeal(i) PROVE AccountInv'
  <2>1. PICK a \in Appeals :
          /\ appeals[a] = UnusedAppeal
          /\ appeals' = [appeals EXCEPT ![a] = NewAppeal(calls[i].request.case)]
          /\ account' = account
    BY <1>4 DEF FileAppeal
  <2>2. Approved' = Approved
    BY <2>1 DEF Approved, Known, UnusedAppeal, NewAppeal, PlatformTypeOK
  <2> QED
    BY <2>1, <2>2, SameApprovals
<1>5. ASSUME NEW i \in Calls, HandleSupplement(i) PROVE AccountInv'
  <2>1. CASE UNCHANGED <<account, appeals>>
    BY <2>1, <1>1
  <2>2. CASE /\ Known(calls[i].request.appeal)
             /\ appeals[calls[i].request.appeal].status = "SUPPLEMENT_REQUESTED"
             /\ DecideAppeal(i)
    <3>1. calls[i].request.appeal \in Appeals
      BY <1>5 DEF HandleSupplement, Pending, WellFormed, CallsWellFormed
    <3> QED
      BY <2>2, <3>1, DecideAccount
  <2> QED
    BY <1>5, <2>1, <2>2 DEF HandleSupplement, AnswerOnly, Replay
<1>6. ASSUME NEW i \in Calls, HandleSubmit(i) PROVE AccountInv'
  BY <1>1, <1>4, <1>6 DEF HandleSubmit, AnswerOnly, Replay
<1>7. ASSUME NEW i \in Calls, Handle(i) PROVE AccountInv'
  BY <1>1, <1>2, <1>5, <1>6, <1>7 DEF Handle, HandleGetAccount, AnswerOnly
<1> QED
  BY <1>1, <1>3, <1>7 DEF Next, ClientSends, ClientDone, ImportSettles, Publish, PublishFails, platformVars

\* The account is active exactly when an approved appeal is held, and its
\* version counts the approvals (mockdrop-store.js submitSupplement, reset).
THEOREM AccountCorrect == Spec => []AccountReflectsApprovals
<1>1. AccountInv => AccountReflectsApprovals
  BY DEF AccountInv
<1>2. PlatformInit => Base /\ AccountInv
  BY InitBase, InitAccount
<1>3. (Base /\ AccountInv) /\ [Next]_platformVars => (Base /\ AccountInv)'
  BY NextBase, NextAccount
<1> QED
  BY <1>1, <1>2, <1>3, PTL DEF Spec

-----------------------------------------------------------------------------
(* History is kept.                                                        *)

\* A commit writes under a key that was not used.
LEMMA CommitKeepsRecords ==
    ASSUME NEW i \in Calls, NEW x, ~Used(calls[i].key), Commit(i, x)
    PROVE  \A k \in Keys : Used(k) => idem'[k] = idem[k]
BY DEF Commit, Used

LEMMA NextHistory == Base /\ [Next]_platformVars => [KeepsHistory]_platformVars
<1> SUFFICES ASSUME Base, Next PROVE KeepsHistory
  BY DEF platformVars, KeepsHistory
<1> USE DEF Base, TypeOK
<1>1. CASE UNCHANGED <<appeals, idem>>
  BY <1>1 DEF KeepsHistory
<1>2. CASE Wipe
  BY <1>2 DEF Wipe, KeepsHistory, StoreIsWiped, PlatformTypeOK, AppealRecord
<1>3. ASSUME NEW i \in Calls, ~Used(calls[i].key), FileAppeal(i) PROVE KeepsHistory
  <2>1. PICK a \in Appeals :
          /\ appeals[a] = UnusedAppeal
          /\ appeals' = [appeals EXCEPT ![a] = NewAppeal(calls[i].request.case)]
          /\ Commit(i, [result |-> "OK", appeal |-> a, status |-> "SUPPLEMENT_REQUESTED",
                        account |-> "NONE", receipt |-> seq + 1])
    BY <1>3 DEF FileAppeal
  <2>2. \A b \in Appeals : appeals[b].status \in Decided =>
                            appeals'[b].status = appeals[b].status
    BY <2>1 DEF UnusedAppeal, Decided, PlatformTypeOK
  <2> QED
    BY <1>3, <2>1, <2>2, CommitKeepsRecords DEF KeepsHistory
<1>4. ASSUME NEW i \in Calls, ~Used(calls[i].key), DecideAppeal(i),
             appeals[calls[i].request.appeal].status = "SUPPLEMENT_REQUESTED"
      PROVE  KeepsHistory
  <2>1. \E x : Commit(i, x)
    BY <1>4 DEF DecideAppeal
  <2>2. \E s : appeals' = [appeals EXCEPT ![calls[i].request.appeal].status = s]
    BY <1>4 DEF DecideAppeal
  <2>3. \A b \in Appeals : appeals[b].status \in Decided =>
                            appeals'[b].status = appeals[b].status
    BY <1>4, <2>2 DEF Decided, PlatformTypeOK
  <2> QED
    BY <1>4, <2>1, <2>3, CommitKeepsRecords DEF KeepsHistory
<1>5. ASSUME NEW i \in Calls, Handle(i) PROVE KeepsHistory
  BY <1>1, <1>2, <1>3, <1>4, <1>5 DEF Handle, HandleReset, HandleGetAccount, HandleSubmit,
                                      HandleSupplement, AnswerOnly, Replay
<1> QED
  BY <1>1, <1>2, <1>5 DEF Next, ClientSends, ClientDone, ImportSettles, Publish, PublishFails, Restart

\* Until the store is wiped, no used key and no decided appeal is rewritten
\* (mockdrop-store.js executeIdempotent, submitSupplement).
THEOREM HistoryCorrect == Spec => HistoryIsKept
BY InitBase, NextBase, NextHistory, PTL DEF Spec, HistoryIsKept

-----------------------------------------------------------------------------
(* The books: records, receipts and appeals.                               *)

UsedKeys == {k \in Keys : Used(k)}

\* The keys used are finitely many, so that they can be counted.
ReceiptsInv == IsFiniteSet(UsedKeys) /\ ReceiptsNumberWrites

\* A write in flight is a request some client formed.
RequestsFormed ==
    \A i \in Calls : calls[i].stage = "sent" => calls[i].request \in ClientRequests

\* A write that goes through, under a key not used yet.
Commits(i) ==
    /\ Pending(i, "SUBMIT_APPEAL") \/ Pending(i, "SUBMIT_SUPPLEMENT")
    /\ ~Used(calls[i].key)
    /\ \/ Pending(i, "SUBMIT_APPEAL") /\ FileAppeal(i)
       \/ /\ Pending(i, "SUBMIT_SUPPLEMENT") /\ Known(calls[i].request.appeal)
          /\ appeals[calls[i].request.appeal].status = "SUPPLEMENT_REQUESTED"
          /\ DecideAppeal(i)

\* No new request, and nothing new to publish.
ServesOnly ==
    \A i \in Calls : calls'[i] = calls[i] \/ calls'[i].stage \in {"free", "answered"}

\* A new process has made no client yet, and has nothing to publish.
ClientsKept == publisher' = publisher \/ \A i \in Calls : calls'[i].stage # "publishing"

\* What a step does to store and topic: nothing, a wipe, one commit, one
\* publication, or a new client for one.
LEMMA StepShapes ==
    ASSUME PlatformTypeOK, [Next]_platformVars
    PROVE  \/ UNCHANGED platformVars
           \/ \E i \in Calls : ClientSends(i)
           \/ \E i \in Calls : Commits(i)
           \/ \E i \in Calls : Publish(i) \/ PublishFails(i)
           \/ \E i \in Calls : ImportSettles(i)
           \/ UNCHANGED <<appeals, idem, seq, topic, publisher>> /\ ServesOnly
           \/ Wipe /\ UNCHANGED topic /\ ServesOnly /\ ClientsKept
<1>1. FreeCall.stage = "free" /\ \A x : Served("answered", x).stage = "answered"
  BY DEF Served, FreeCall
<1>2. ASSUME NEW i \in Calls, NEW x, AnswerWith(i, x) PROVE ServesOnly
  BY <1>1, <1>2 DEF AnswerWith, ServesOnly, PlatformTypeOK
<1>3. ASSUME NEW i \in Calls, Handle(i)
      PROVE  \/ Commits(i)
             \/ UNCHANGED <<appeals, idem, seq, topic, publisher>> /\ ServesOnly
             \/ Wipe /\ UNCHANGED topic /\ ServesOnly /\ ClientsKept
  BY <1>2, <1>3 DEF ClientsKept, Handle, HandleReset, HandleGetAccount, HandleSubmit, HandleSupplement,
                    Commits, AnswerOnly, Replay
<1>4. ASSUME NEW i \in Calls, ClientDone(i)
      PROVE  UNCHANGED <<appeals, idem, seq, topic, publisher>> /\ ServesOnly
  BY <1>1, <1>4 DEF ClientDone, Release, ServesOnly, PlatformTypeOK
<1>5. ASSUME Restart PROVE Wipe /\ UNCHANGED topic /\ ServesOnly /\ ClientsKept
  BY <1>1, <1>5 DEF Restart, ServesOnly, ClientsKept
<1> QED
  BY <1>3, <1>4, <1>5 DEF Next

LEMMA NextFormed ==
    ASSUME Base, RequestsFormed, [Next]_platformVars PROVE RequestsFormed'
<1> USE DEF Base, TypeOK
<1>1. ASSUME \A i \in Calls : calls'[i] = calls[i] \/ calls'[i].stage # "sent"
      PROVE  RequestsFormed'
  BY <1>1 DEF RequestsFormed
<1>2. ASSUME NEW i \in Calls, ClientSends(i) PROVE RequestsFormed'
  BY <1>2 DEF ClientSends, Send, RequestsFormed, PlatformTypeOK
<1>3. \A s, x : Served(s, x).stage = s
  BY DEF Served, FreeCall
<1>4. ASSUME NEW i \in Calls, Commits(i) PROVE RequestsFormed'
  <2>1. \E x : calls' = [calls EXCEPT ![i] = Published(x)]
    BY <1>4 DEF Commits, FileAppeal, DecideAppeal, Commit
  <2> QED
    BY <1>1, <2>1, PublishedTyped DEF PlatformTypeOK
<1>5. ASSUME NEW i \in Calls, Publish(i) \/ PublishFails(i) PROVE RequestsFormed'
  <2>1. \E x : calls' = [calls EXCEPT ![i] = Served("answered", x)]
    BY <1>5 DEF Publish, PublishFails, AnswerWith
  <2> QED
    BY <1>1, <1>3, <2>1 DEF PlatformTypeOK
<1>6. ASSUME ServesOnly PROVE RequestsFormed'
  BY <1>1, <1>6 DEF ServesOnly
<1>7. CASE UNCHANGED platformVars
  BY <1>1, <1>7 DEF platformVars
<1>8. ASSUME NEW i \in Calls, ImportSettles(i) PROVE RequestsFormed'
  BY <1>1, <1>8 DEF ImportSettles, PlatformTypeOK, Call
<1> QED
  BY <1>2, <1>4, <1>5, <1>6, <1>7, <1>8, StepShapes

\* A commit in one piece: the request, its key, the record and the response.
LEMMA CommitShape ==
    ASSUME Base, NEW i \in Calls, Commits(i)
    PROVE  /\ calls[i].key \in Keys /\ ~Used(calls[i].key)
           /\ \E x \in Answer :
                /\ x.result = "OK" /\ x.receipt = seq + 1 /\ x.appeal \in Appeals
                /\ seq' = seq + 1
                /\ idem' = [idem EXCEPT ![calls[i].key] = [request |-> calls[i].request,
                                                           answer |-> x]]
                /\ calls' = [calls EXCEPT ![i] = Published(x)]
                /\ UNCHANGED <<topic, publisher>>
                /\ \/ /\ Pending(i, "SUBMIT_APPEAL")
                      /\ x.status = "SUPPLEMENT_REQUESTED"
                      /\ appeals[x.appeal] = UnusedAppeal
                      /\ appeals' = [appeals EXCEPT ![x.appeal]
                                       = NewAppeal(calls[i].request.case)]
                   \/ /\ Pending(i, "SUBMIT_SUPPLEMENT")
                      /\ calls[i].request.appeal = x.appeal
                      /\ Known(x.appeal)
                      /\ appeals[x.appeal].status = "SUPPLEMENT_REQUESTED"
                      /\ x.status \in Decided
                      /\ appeals' = [appeals EXCEPT ![x.appeal].status = x.status]
<1> USE DEF Base, TypeOK
<1>1. calls[i].key \in Keys /\ ~Used(calls[i].key)
  BY DEF Commits, Pending, WellFormed, CallsWellFormed
<1>2. CASE Pending(i, "SUBMIT_APPEAL")
  <2>1. PICK a \in Appeals :
          /\ appeals[a] = UnusedAppeal
          /\ appeals' = [appeals EXCEPT ![a] = NewAppeal(calls[i].request.case)]
          /\ Commit(i, [result |-> "OK", appeal |-> a, status |-> "SUPPLEMENT_REQUESTED",
                        account |-> "NONE", receipt |-> seq + 1])
    BY <1>2 DEF Commits, FileAppeal, Pending
  <2> DEFINE x == [result |-> "OK", appeal |-> a, status |-> "SUPPLEMENT_REQUESTED",
                   account |-> "NONE", receipt |-> seq + 1]
  <2>2. x \in Answer
    BY DEF Answer, OpenOrDecided, PlatformTypeOK
  <2>3. /\ x.result = "OK" /\ x.receipt = seq + 1 /\ x.appeal = a
        /\ x.status = "SUPPLEMENT_REQUESTED"
    OBVIOUS
  <2>4. Commit(i, x)
    BY <2>1
  <2> HIDE DEF x
  <2> QED
    BY <1>1, <1>2, <2>1, <2>2, <2>3, <2>4 DEF Commit
<1>3. CASE Pending(i, "SUBMIT_SUPPLEMENT")
  <2> DEFINE a == calls[i].request.appeal
             status == IF calls[i].request.matches THEN "APPROVED" ELSE "REJECTED"
             account2 == IF calls[i].request.matches
                         THEN [status |-> "ACTIVE", version |-> account.version + 1]
                         ELSE account
             x == [result |-> "OK", appeal |-> a, status |-> status,
                   account |-> account2.status, receipt |-> seq + 1]
  <2>1. /\ a \in Appeals /\ Known(a) /\ appeals[a].status = "SUPPLEMENT_REQUESTED"
        /\ appeals' = [appeals EXCEPT ![a].status = status]
        /\ Commit(i, x)
    BY <1>3 DEF Commits, DecideAppeal, Pending, WellFormed, CallsWellFormed
  <2>2. x \in Answer
    BY <2>1 DEF Answer, OpenOrDecided, Decided, AccountStatus, PlatformTypeOK
  <2>3. /\ x.result = "OK" /\ x.receipt = seq + 1 /\ x.appeal = a /\ x.status = status
        /\ status \in Decided
    BY DEF Decided
  <2> HIDE DEF x, status
  <2> QED
    BY <1>1, <1>3, <2>1, <2>2, <2>3 DEF Commit
<1> QED
  BY <1>2, <1>3 DEF Commits

LEMMA InitReceipts == PlatformInit => ReceiptsInv
<1> SUFFICES ASSUME PlatformInit PROVE ReceiptsInv
  OBVIOUS
<1>1. UsedKeys = {} /\ seq = 0
  BY DEF PlatformInit, UsedKeys, Used
<1> QED
  BY <1>1, FS_EmptySet DEF ReceiptsInv, ReceiptsNumberWrites, UsedKeys

LEMMA CommitReceipts ==
    ASSUME Base, ReceiptsInv, NEW i \in Calls, Commits(i)
    PROVE  ReceiptsInv'
<1> USE DEF Base, TypeOK
<1> DEFINE key == calls[i].key
<1>1. key \in Keys /\ key \notin UsedKeys
  BY CommitShape DEF UsedKeys
<1>2. PICK record \in IdemRecord :
        /\ record.answer.result = "OK" /\ record.answer.receipt = seq + 1
        /\ seq' = seq + 1
        /\ idem' = [idem EXCEPT ![key] = record]
  <2>1. PICK x \in Answer :
          /\ x.result = "OK" /\ x.receipt = seq + 1
          /\ seq' = seq + 1
          /\ idem' = [idem EXCEPT ![key] = [request |-> calls[i].request, answer |-> x]]
    BY CommitShape
  <2>2. [request |-> calls[i].request, answer |-> x] \in IdemRecord
    BY DEF PlatformTypeOK, Call, IdemRecord
  <2> QED
    BY <2>1, <2>2
<1>3. record # NoRecord
  BY <1>2 DEF NoRecord, NoAnswer
<1> HIDE DEF key
<1>4. \A k \in Keys : idem'[k] = IF k = key THEN record ELSE idem[k]
  BY <1>2 DEF PlatformTypeOK
<1>5. UsedKeys' = UsedKeys \cup {key}
  BY <1>1, <1>3, <1>4 DEF UsedKeys, Used
<1>6. IsFiniteSet(UsedKeys') /\ Cardinality(UsedKeys') = Cardinality(UsedKeys) + 1
  BY <1>1, <1>5, FS_AddElement DEF ReceiptsInv
<1>7. {idem[k].answer.receipt : k \in UsedKeys} = 1 .. seq /\ Cardinality(UsedKeys) = seq
  BY DEF ReceiptsInv, ReceiptsNumberWrites, UsedKeys
<1>8. {idem'[k].answer.receipt : k \in UsedKeys'} = 1 .. (seq + 1)
  <2>1. seq \in Nat
    BY DEF PlatformTypeOK
  <2>2. {idem'[k].answer.receipt : k \in UsedKeys'}
          = {idem[k].answer.receipt : k \in UsedKeys} \cup {seq + 1}
    BY <1>1, <1>2, <1>4, <1>5 DEF UsedKeys
  <2> QED
    BY <1>7, <2>1, <2>2, SMTT(30)
<1> QED
  BY <1>2, <1>6, <1>7, <1>8 DEF ReceiptsInv, ReceiptsNumberWrites, UsedKeys

LEMMA NextReceipts == Base /\ ReceiptsInv /\ [Next]_platformVars => ReceiptsInv'
<1> SUFFICES ASSUME Base, ReceiptsInv, [Next]_platformVars PROVE ReceiptsInv'
  OBVIOUS
<1>1. CASE UNCHANGED <<idem, seq>>
  BY <1>1 DEF ReceiptsInv, ReceiptsNumberWrites, UsedKeys, Used
<1>2. CASE Wipe
  <2>1. UsedKeys' = {} /\ seq' = 0
    BY <1>2 DEF Wipe, UsedKeys, Used
  <2> QED
    BY <2>1, FS_EmptySet DEF ReceiptsInv, ReceiptsNumberWrites, UsedKeys
<1> QED
  BY <1>1, <1>2, StepShapes, CommitReceipts
     DEF ClientSends, ImportSettles, Publish, PublishFails, platformVars, Base, TypeOK

\* Every committed write has one record and one receipt, and receipts are
\* numbered without gap or repetition (mockdrop-store.js createReceipt).
THEOREM ReceiptsCorrect == Spec => []ReceiptsNumberWrites
<1>1. ReceiptsInv => ReceiptsNumberWrites
  BY DEF ReceiptsInv
<1> QED
  BY <1>1, InitBase, InitReceipts, NextBase, NextReceipts, PTL DEF Spec

\* An appeal is filed by the record of a submit, and decided by the record of a
\* supplement.
FiledBy(k, a) ==
    /\ idem[k].request = AppealRequest(appeals[a].case)
    /\ idem[k].answer.appeal = a

DecidedBy(k, a) ==
    /\ idem[k].request.kind = "SUBMIT_SUPPLEMENT"
    /\ idem[k].request.appeal = a
    /\ idem[k].answer.status = appeals[a].status

\* What tells requests apart.
LEMMA RequestShapes ==
    /\ NoRecord.request.kind = "NONE"
    /\ ResetRequest.kind = "RESET" /\ AccountRequest.kind = "GET_ACCOUNT"
    /\ \A c : AppealRequest(c).kind = "SUBMIT_APPEAL" /\ AppealRequest(c).case = c
    /\ \A d, m : /\ SupplementRequest(d, m).kind = "SUBMIT_SUPPLEMENT"
                 /\ SupplementRequest(d, m).appeal = d
    /\ \A r \in ClientRequests : r.kind = "SUBMIT_APPEAL" => r = AppealRequest(r.case)
<1>1. /\ NoRecord.request.kind = "NONE"
      /\ ResetRequest.kind = "RESET" /\ AccountRequest.kind = "GET_ACCOUNT"
      /\ \A c : AppealRequest(c).kind = "SUBMIT_APPEAL" /\ AppealRequest(c).case = c
      /\ \A d, m : /\ SupplementRequest(d, m).kind = "SUBMIT_SUPPLEMENT"
                   /\ SupplementRequest(d, m).appeal = d
  BY DEF NoRecord, NoRequest, ResetRequest, AccountRequest, AppealRequest, SupplementRequest
<1>2. ASSUME NEW r \in ClientRequests, r.kind = "SUBMIT_APPEAL" PROVE r = AppealRequest(r.case)
  <2>1. \/ r = ResetRequest \/ r = AccountRequest
        \/ \E c \in Cases : r = AppealRequest(c)
        \/ \E d \in Appeals, m \in BOOLEAN : r = SupplementRequest(d, m)
    BY <1>2 DEF ClientRequests
  <2>2. PICK c \in Cases : r = AppealRequest(c)
    BY <1>1, <1>2, <2>1
  <2>3. r.case = c
    BY <1>1, <2>2
  <2> QED
    BY <2>2, <2>3
<1> QED
  BY <1>1, <1>2

\* The record of an appeal is a used one, so it outlives a commit.
LEMMA BookIsUsed ==
    ASSUME NEW a, NEW k, FiledBy(k, a) \/ DecidedBy(k, a) PROVE Used(k)
BY RequestShapes DEF FiledBy, DecidedBy, Used

LEMMA CommitKeepsBooks ==
    ASSUME Base, RequestsFormed, AppealsAreRecorded, NEW i \in Calls, Commits(i)
    PROVE  AppealsAreRecorded'
<1> USE DEF Base, TypeOK
<1>1. PICK key \in Keys, r \in ClientRequests :
        key = calls[i].key /\ r = calls[i].request /\ ~Used(key)
  BY CommitShape DEF Commits, Pending, RequestsFormed
<1>2. PICK x \in Answer :
        /\ x.appeal \in Appeals
        /\ idem' = [idem EXCEPT ![key] = [request |-> r, answer |-> x]]
        /\ \/ /\ r.kind = "SUBMIT_APPEAL"
              /\ appeals' = [appeals EXCEPT ![x.appeal] = NewAppeal(r.case)]
           \/ /\ r.kind = "SUBMIT_SUPPLEMENT"
              /\ r.appeal = x.appeal
              /\ appeals' = [appeals EXCEPT ![x.appeal].status = x.status]
  BY <1>1, CommitShape DEF Pending
<1>3. PICK a \in Appeals : a = x.appeal
  BY <1>2
<1>4. idem'[key].request = r /\ idem'[key].answer = x
  BY <1>2 DEF PlatformTypeOK
<1>5. \A k \in Keys : Used(k) => idem'[k] = idem[k]
  BY <1>1, <1>2
<1>6. \A b \in Appeals : b # a => appeals'[b] = appeals[b]
  BY <1>2, <1>3 DEF PlatformTypeOK
<1> SUFFICES ASSUME NEW b \in Appeals, Known(b)'
             PROVE  /\ \E k \in Keys : FiledBy(k, b)'
                    /\ appeals'[b].status \in Decided => \E k \in Keys : DecidedBy(k, b)'
  BY DEF AppealsAreRecorded, FiledBy, DecidedBy, Known
<1>7. CASE b # a
  <2>1. appeals'[b] = appeals[b] /\ Known(b)
    BY <1>6, <1>7 DEF Known
  <2>2. \A k \in Keys : /\ FiledBy(k, b) => FiledBy(k, b)'
                        /\ DecidedBy(k, b) => DecidedBy(k, b)'
    BY <1>5, <2>1, BookIsUsed DEF FiledBy, DecidedBy
  <2>3. /\ \E k \in Keys : FiledBy(k, b)
        /\ appeals[b].status \in Decided => \E k \in Keys : DecidedBy(k, b)
    BY <2>1 DEF AppealsAreRecorded, FiledBy, DecidedBy
  <2> QED
    BY <2>1, <2>2, <2>3
<1>8. CASE b = a /\ r.kind = "SUBMIT_APPEAL"
  <2>1. appeals'[a] = NewAppeal(r.case)
    BY <1>2, <1>3, <1>8 DEF PlatformTypeOK
  <2>2. appeals'[a].case = r.case /\ appeals'[a].status \notin Decided
    BY <2>1 DEF NewAppeal, Decided
  <2>3. FiledBy(key, a)'
    BY <1>3, <1>4, <1>8, <2>2, RequestShapes DEF FiledBy
  <2> QED
    BY <1>8, <2>2, <2>3
<1>9. CASE b = a /\ r.kind = "SUBMIT_SUPPLEMENT"
  <2>1. r.appeal = a /\ appeals' = [appeals EXCEPT ![a].status = x.status]
    BY <1>2, <1>3, <1>9
  <2>2. /\ appeals'[a].status = x.status /\ appeals'[a].case = appeals[a].case
        /\ appeals'[a].held = appeals[a].held
    BY <2>1 DEF PlatformTypeOK, AppealRecord
  <2>3. DecidedBy(key, a)'
    BY <1>4, <1>9, <2>1, <2>2 DEF DecidedBy
  <2>4. PICK k \in Keys : FiledBy(k, a)
    BY <1>9, <2>2 DEF AppealsAreRecorded, FiledBy, Known
  <2>5. FiledBy(k, a)'
    BY <1>5, <2>2, <2>4, BookIsUsed DEF FiledBy
  <2> QED
    BY <1>9, <2>3, <2>5
<1> QED
  BY <1>2, <1>7, <1>8, <1>9

LEMMA NextBooks ==
    Base /\ RequestsFormed /\ AppealsAreRecorded /\ [Next]_platformVars => AppealsAreRecorded'
<1> SUFFICES ASSUME Base, RequestsFormed, AppealsAreRecorded, [Next]_platformVars
             PROVE  AppealsAreRecorded'
  OBVIOUS
<1>1. CASE UNCHANGED <<appeals, idem>>
  BY <1>1 DEF AppealsAreRecorded, Known
<1>2. CASE Wipe
  BY <1>2 DEF Wipe, AppealsAreRecorded, Known, Base, TypeOK, PlatformTypeOK, AppealRecord
<1> QED
  BY <1>1, <1>2, StepShapes, CommitKeepsBooks
     DEF ClientSends, ImportSettles, Publish, PublishFails, platformVars, Base, TypeOK

LEMMA InitBooks == PlatformInit => RequestsFormed /\ AppealsAreRecorded
BY DEF PlatformInit, RequestsFormed, AppealsAreRecorded, Known, UnusedAppeal, FreeCall

\* What the store holds, its records can account for: the filing of an appeal
\* and its decision each left one (mockdrop-store.js executeIdempotent).
THEOREM BooksCorrect == Spec => []AppealsAreRecorded
<1>1. /\ PlatformInit => Base /\ RequestsFormed /\ AppealsAreRecorded
      /\ (Base /\ RequestsFormed /\ AppealsAreRecorded) /\ [Next]_platformVars
           => (Base /\ RequestsFormed /\ AppealsAreRecorded)'
  BY InitBase, InitBooks, NextBase, NextFormed, NextBooks
<1> QED
  BY <1>1, PTL DEF Spec

-----------------------------------------------------------------------------
(* The events of an appeal: its request for the supplement once, then its  *)
(* decision once, or less when publications fail.                          *)

Asked == <<"SUPPLEMENT_REQUESTED">>
Histories == {<< >>, Asked}
               \cup {<<d>> : d \in Decisions} \cup {<<"SUPPLEMENT_REQUESTED", d>> : d \in Decisions}
               \cup {<<d, "SUPPLEMENT_REQUESTED">> : d \in Decisions}

\* What is on the topic has been published for a filed, or decided, appeal.
TopicBound ==
    \A a \in Appeals :
        /\ topic[a] \in Histories
        /\ appeals[a].status = "UNUSED" => topic[a] = << >>
        /\ appeals[a].status \notin Decided => topic[a] \in {<< >>, Asked}

\* A request that a decision has overtaken waits for a client other than the
\* one that sent the decision, or is about to get one.
Overtaken(call) ==
    /\ \E d \in Decisions : topic[call.answer.appeal] = <<d>>
    /\ publisher >= IF call.client = 0 THEN 1 ELSE 2

\* What is still to be published is not on the topic.  A store that holds the
\* appeal has numbered it already, so a later commit gets a later receipt.
PublicationBound(call) ==
    LET x == call.answer
    IN  /\ appeals[x.appeal].status # "UNUSED"
        /\ Known(x.appeal) => x.receipt <= seq
        /\ call.client <= publisher
        /\ \/ /\ x.status = "SUPPLEMENT_REQUESTED"
              /\ topic[x.appeal] = << >> \/ Overtaken(call)
           \/ /\ x.status \in Decided
              /\ appeals[x.appeal].status \in Decided
              /\ topic[x.appeal] \in {<< >>, Asked}

PublicationsBound ==
    \A i \in Calls : calls[i].stage = "publishing" => PublicationBound(calls[i])

\* Of two publications of one appeal, one is the request and has the smaller
\* receipt, the other the decision.
Before(x, y) ==
    x.status = "SUPPLEMENT_REQUESTED" /\ y.status \in Decided /\ x.receipt < y.receipt

PairsBound ==
    \A i, j \in Calls :
        LET x == calls[i].answer
            y == calls[j].answer
        IN  /\ i # j /\ x.appeal = y.appeal
            /\ calls[i].stage = "publishing" /\ calls[j].stage = "publishing"
            => Before(x, y) \/ Before(y, x)

EventsInv == TopicBound /\ PublicationsBound /\ PairsBound

LEMMA HistoryShapes ==
    /\ << >> \in Histories /\ Asked \in Histories
    /\ \A d \in Decisions : /\ <<d>> \in Histories
                            /\ <<"SUPPLEMENT_REQUESTED", d>> \in Histories
                            /\ <<d, "SUPPLEMENT_REQUESTED">> \in Histories
    /\ \A h \in Histories : \A m, n \in 1 .. Len(h) : m # n => h[m] # h[n]
<1>1. /\ << >> \in Histories /\ Asked \in Histories
      /\ \A d \in Decisions : /\ <<d>> \in Histories
                              /\ <<"SUPPLEMENT_REQUESTED", d>> \in Histories
                              /\ <<d, "SUPPLEMENT_REQUESTED">> \in Histories
  BY DEF Histories
<1>2. ASSUME NEW h \in Histories, NEW m \in 1 .. Len(h), NEW n \in 1 .. Len(h)
      PROVE  m # n => h[m] # h[n]
  <2>1. CASE h = << >>
    BY <2>1
  <2>2. CASE h = Asked
    BY <2>2 DEF Asked
  <2>3. CASE \E d \in Decisions : h = <<d>>
    BY <2>3
  <2>4. CASE \E d \in Decisions : h = <<"SUPPLEMENT_REQUESTED", d>>
    BY <2>4 DEF Decisions
  <2>5. CASE \E d \in Decisions : h = <<d, "SUPPLEMENT_REQUESTED">>
    BY <2>5 DEF Decisions
  <2> QED
    BY <2>1, <2>2, <2>3, <2>4, <2>5 DEF Histories
<1> QED
  BY <1>1, <1>2

\* A second event behind the first.
LEMMA SecondFollows ==
    /\ \A d \in Decisions : Append(Asked, d) = <<"SUPPLEMENT_REQUESTED", d>>
    /\ \A d \in Decisions : Append(<<d>>, "SUPPLEMENT_REQUESTED") = <<d, "SUPPLEMENT_REQUESTED">>
<1>1. ASSUME NEW d \in EventTypes, NEW e \in EventTypes
      PROVE  Append(<<d>>, e) = <<d, e>>
  <2>1. <<d>> \in Seq(EventTypes) /\ <<d, e>> \in Seq(EventTypes)
    OBVIOUS
  <2>2. /\ Append(<<d>>, e) \in Seq(EventTypes) /\ Len(Append(<<d>>, e)) = 2
        /\ Append(<<d>>, e)[1] = d /\ Append(<<d>>, e)[2] = e
    BY <2>1
  <2>3. Len(<<d, e>>) = 2 /\ <<d, e>>[1] = d /\ <<d, e>>[2] = e
    OBVIOUS
  <2>4. 1 .. 2 = {1, 2}
    OBVIOUS
  <2> QED
    BY <2>1, <2>2, <2>3, <2>4, SeqEqual
<1> QED
  BY <1>1 DEF Asked, Decisions, EventTypes

LEMMA EventsFromInv == EventsInv => EventsPublishedOnce
BY HistoryShapes DEF EventsInv, TopicBound, EventsPublishedOnce

LEMMA InitEvents == PlatformInit => EventsInv
BY HistoryShapes
   DEF PlatformInit, FreeCall, EventsInv, TopicBound, PublicationsBound, PairsBound

\* Nothing new to publish, what the store still holds keeps its numbers, and
\* clients only come to those that have something to publish.
LEMMA QuietEvents ==
    ASSUME EventsInv, AnswersWellFormed, UNCHANGED topic, ClientsKept,
           \A i \in Calls : calls'[i] = calls[i] \/ calls'[i].stage # "publishing",
           \A a \in Appeals : /\ appeals'[a].status = appeals[a].status
                              /\ Known(a)' => Known(a) /\ seq' = seq
    PROVE  EventsInv'
<1>1. TopicBound'
  BY DEF EventsInv, TopicBound
<1>2. PublicationsBound'
  BY DEF EventsInv, PublicationsBound, PublicationBound, AnswersWellFormed, ClientsKept,
         Overtaken, Known
<1>3. PairsBound'
  BY DEF EventsInv, PairsBound, Before
<1> QED
  BY <1>1, <1>2, <1>3 DEF EventsInv

\* What binds a publication still does when its appeal is left alone.
LEMMA StillBound ==
    ASSUME NEW call, PublicationBound(call),
           LET a == call.answer.appeal
           IN  /\ appeals'[a].status = appeals[a].status
               /\ Known(a)' => Known(a)
               /\ topic'[a] = topic[a],
           call.answer.receipt \in Nat, seq \in Nat, seq' \in Nat, seq' >= seq,
           publisher \in Nat, publisher' \in Nat, publisher' >= publisher, call.client \in Nat
    PROVE  PublicationBound(call)'
<1>1. Overtaken(call) => Overtaken(call)'
  BY DEF Overtaken
<1> QED
  BY <1>1 DEF PublicationBound, Known

\* A filed appeal has no event yet; a decided one at most its request, whether
\* on the topic or still to be published, under a smaller receipt.
LEMMA CommitEvents ==
    ASSUME Base, EventsInv, NEW i \in Calls, Commits(i)
    PROVE  EventsInv'
<1> USE DEF Base, TypeOK
<1>1. PICK x \in Answer :
        /\ x.receipt = seq + 1 /\ x.appeal \in Appeals
        /\ seq' = seq + 1
        /\ calls' = [calls EXCEPT ![i] = Published(x)]
        /\ UNCHANGED <<topic, publisher>>
        /\ \/ /\ x.status = "SUPPLEMENT_REQUESTED"
              /\ appeals[x.appeal] = UnusedAppeal
              /\ appeals' = [appeals EXCEPT ![x.appeal] = NewAppeal(calls[i].request.case)]
           \/ /\ Known(x.appeal)
              /\ appeals[x.appeal].status = "SUPPLEMENT_REQUESTED"
              /\ x.status \in Decided
              /\ appeals' = [appeals EXCEPT ![x.appeal].status = x.status]
  BY CommitShape
<1>2. PICK a \in Appeals : a = x.appeal
  BY <1>1
<1> DEFINE call == Published(x)
<1>3. call.stage = "publishing" /\ call.answer = x /\ call.client = publisher
  BY PublishedTyped
<1> HIDE DEF call
<1>4. \A j \in Calls : calls'[j] = IF j = i THEN call ELSE calls[j]
  BY <1>1 DEF PlatformTypeOK, call
<1>5. \A b \in Appeals : b # a => appeals'[b] = appeals[b]
  BY <1>1, <1>2 DEF PlatformTypeOK
<1>6. calls[i].stage = "sent"
  BY DEF Commits, Pending
<1>7. \/ /\ x.status = "SUPPLEMENT_REQUESTED"
         /\ appeals[a].status = "UNUSED" /\ appeals'[a].status = "SUPPLEMENT_REQUESTED"
      \/ /\ x.status \in Decided /\ Known(a)
         /\ appeals[a].status = "SUPPLEMENT_REQUESTED" /\ appeals'[a].status = x.status
  BY <1>1, <1>2 DEF UnusedAppeal, NewAppeal, PlatformTypeOK, AppealRecord
<1>8. \A b \in Appeals : Known(b)' => Known(b) \/ b = a
  BY <1>5 DEF Known
<1>9. /\ seq \in Nat /\ publisher \in Nat
      /\ \A j \in Calls : calls[j].answer.receipt \in Nat /\ calls[j].client \in Nat
  BY DEF PlatformTypeOK, Call, Answer
<1>0. topic[a] \in {<< >>, Asked} /\ (appeals[a].status = "UNUSED" => topic[a] = << >>)
  BY <1>7 DEF EventsInv, TopicBound, Decided
\* What else is to be published of this appeal is its request, not overtaken.
<1>10. ASSUME NEW j \in Calls, calls[j].stage = "publishing", calls[j].answer.appeal = a
       PROVE  /\ Before(calls[j].answer, x)
              /\ x.status \in Decided /\ topic[a] = << >>
  <2>1. PublicationBound(calls[j])
    BY <1>10 DEF EventsInv, PublicationsBound
  <2>2. ~Overtaken(calls[j])
    <3>1. \A d \in Decisions : <<d>> # << >> /\ <<d>> # Asked
      BY DEF Decisions, Asked
    <3> QED
      BY <1>0, <1>10, <3>1 DEF Overtaken
  <2> QED
    BY <1>1, <1>7, <1>9, <1>10, <2>1, <2>2 DEF PublicationBound, Before, Decided
<1>11. TopicBound'
  BY <1>1, <1>5, <1>7 DEF EventsInv, TopicBound, Decided
<1>12. PublicationsBound'
  <2> SUFFICES ASSUME NEW j \in Calls, calls'[j].stage = "publishing",
                      NEW y, y = calls'[j]
               PROVE  PublicationBound(y)'
    BY DEF PublicationsBound
  <2>1. CASE j = i
    <3>1. y.answer = x /\ y.client = publisher
      BY <1>3, <1>4, <2>1
    <3> QED
      BY <1>0, <1>1, <1>2, <1>7, <1>9, <3>1 DEF PublicationBound, Decided, Known
  <2>2. CASE j # i
    <3>1. y = calls[j] /\ calls[j].answer.appeal \in Appeals /\ calls[j].stage = "publishing"
      BY <1>4, <2>2 DEF WellFormed, AnswersWellFormed
    <3>2. PublicationBound(y)
      BY <3>1 DEF EventsInv, PublicationsBound
    <3>3. CASE y.answer.appeal = a
      <4>1. Before(y.answer, x) /\ x.status \in Decided /\ topic[a] = << >>
        BY <1>10, <3>1, <3>3
      <4>2. y.answer.receipt <= seq' /\ y.client <= publisher'
        BY <1>1, <1>9, <3>1, <3>2, <4>1 DEF PublicationBound, Before
      <4> QED
        BY <1>1, <1>7, <3>3, <4>1, <4>2 DEF PublicationBound, Before, Known, Decided
    <3>4. CASE y.answer.appeal # a
      BY <1>1, <1>5, <1>8, <1>9, <3>1, <3>2, <3>4, StillBound
    <3> QED
      BY <3>3, <3>4
  <2> QED
    BY <2>1, <2>2
<1>13. PairsBound'
  BY <1>2, <1>3, <1>4, <1>10 DEF EventsInv, PairsBound, Before
<1> QED
  BY <1>11, <1>12, <1>13 DEF EventsInv

\* A publication in import gets a new client, which is not the one that may
\* have sent the decision already.
LEMMA ImportEvents ==
    ASSUME Base, EventsInv, NEW i \in Calls, ImportSettles(i)
    PROVE  EventsInv'
<1> USE DEF Base, TypeOK
<1>1. /\ calls[i].stage = "publishing" /\ calls[i].client = 0
      /\ publisher' = publisher + 1
      /\ calls' = [calls EXCEPT ![i].client = publisher + 1]
      /\ UNCHANGED <<appeals, seq, topic>>
  BY DEF ImportSettles
<1>2. \A j \in Calls : /\ calls'[j].stage = calls[j].stage
                       /\ calls'[j].answer = calls[j].answer
                       /\ calls'[j].client = IF j = i THEN publisher + 1 ELSE calls[j].client
  BY <1>1 DEF PlatformTypeOK, Call
<1>3. publisher \in Nat /\ \A j \in Calls : calls[j].client \in Nat
  BY DEF PlatformTypeOK, Call
<1>4. TopicBound' /\ PairsBound'
  BY <1>1, <1>2 DEF EventsInv, TopicBound, PairsBound, Before
<1>5. ASSUME NEW j \in Calls, calls'[j].stage = "publishing"
      PROVE  PublicationBound(calls[j])'
  <2>1. PublicationBound(calls[j])
    BY <1>2, <1>5 DEF EventsInv, PublicationsBound
  <2>2. calls'[j].client <= publisher'
    BY <1>1, <1>2, <1>3, <2>1 DEF PublicationBound
  <2>3. Overtaken(calls[j]) => Overtaken(calls[j])'
    BY <1>1, <1>2, <1>3 DEF Overtaken
  <2> QED
    BY <1>1, <1>2, <2>1, <2>2, <2>3 DEF PublicationBound, Known
<1> QED
  BY <1>4, <1>5 DEF EventsInv, PublicationsBound

\* A publication adds its event, or fails and adds it or not.  A decision goes
\* out while the request of its appeal still waits only by another client.
LEMMA PublishEvents ==
    ASSUME Base, EventsInv, NEW i \in Calls, Publish(i) \/ PublishFails(i)
    PROVE  /\ EventsInv'
           /\ \A b \in Appeals : RequestOvertaken(b) => publisher > 1
<1> USE DEF Base, TypeOK
<1>1. PICK x \in Answer, a \in Appeals :
        x = calls[i].answer /\ a = x.appeal /\ calls[i].stage = "publishing"
  BY SMTT(30) DEF Publish, PublishFails, FirstToPublish, WellFormed, AnswersWellFormed,
         PlatformTypeOK, Call
<1>2. /\ UNCHANGED <<appeals, seq, publisher>>
      /\ \E y : calls' = [calls EXCEPT ![i] = Served("answered", y)]
      /\ \/ UNCHANGED topic
         \/ FirstToPublish(i) /\ topic' = [topic EXCEPT ![a] = Append(topic[a], EventOf(x))]
  BY <1>1 DEF Publish, PublishFails, AnswerWith, ToTopic
<1>3. \A j \in Calls : IF j = i THEN calls'[j].stage = "answered" ELSE calls'[j] = calls[j]
  BY <1>2 DEF Served, FreeCall, PlatformTypeOK
<1>4. \A b \in Appeals : topic[b] \in Seq(EventTypes)
  BY DEF PlatformTypeOK
<1>5. CASE UNCHANGED topic
  <2>1. \A b \in Appeals : Append(topic[b], "SUPPLEMENT_REQUESTED") # topic[b]
    <3> SUFFICES ASSUME NEW b \in Appeals
                 PROVE  Append(topic[b], "SUPPLEMENT_REQUESTED") # topic[b]
      OBVIOUS
    <3>1. Len(Append(topic[b], "SUPPLEMENT_REQUESTED")) = Len(topic[b]) + 1
          /\ Len(topic[b]) \in Nat
      BY <1>4 DEF EventTypes
    <3> QED
      BY <3>1
  <2>2. EventsInv'
    BY <1>2, <1>3, <1>5, QuietEvents DEF WellFormed, Known, ClientsKept
  <2> QED
    BY <1>5, <2>1, <2>2 DEF RequestOvertaken
<1>6. CASE FirstToPublish(i) /\ topic' = [topic EXCEPT ![a] = Append(topic[a], EventOf(x))]
  <2> DEFINE asks == x.status = "SUPPLEMENT_REQUESTED"
  <2>1. /\ PublicationBound(calls[i]) /\ calls[i].client # 0
        /\ publisher \in Nat
        /\ \A j \in Calls : calls[j].client \in Nat /\ calls[j].answer.receipt \in Nat
    BY <1>1, <1>6 DEF EventsInv, PublicationsBound, FirstToPublish, PlatformTypeOK, Call, Answer
  <2>2. \A b \in Appeals : topic'[b] = IF b = a THEN Append(topic[a], EventOf(x)) ELSE topic[b]
    BY <1>6 DEF PlatformTypeOK
  <2>3. /\ x.status = "SUPPLEMENT_REQUESTED" => EventOf(x) = "SUPPLEMENT_REQUESTED"
        /\ x.status \in Decided => EventOf(x) \in Decisions
        /\ x.status = "SUPPLEMENT_REQUESTED" => x.status \notin Decided
    BY DEF EventOf, Decided, Decisions
  <2>4. Append(<< >>, EventOf(x)) = <<EventOf(x)>>
    OBVIOUS
  <2>5. \/ /\ asks
           /\ \/ topic[a] = << >> /\ topic'[a] = Asked
              \/ /\ Overtaken(calls[i])
                 /\ \E d \in Decisions : topic'[a] = <<d, "SUPPLEMENT_REQUESTED">>
        \/ /\ x.status \in Decided /\ appeals[a].status \in Decided
           /\ \E d \in Decisions : \/ topic[a] = << >> /\ topic'[a] = <<d>>
                                   \/ topic[a] = Asked /\ topic'[a] = <<"SUPPLEMENT_REQUESTED", d>>
    <3>1. CASE asks
      <4>1. topic[a] = << >> \/ Overtaken(calls[i])
        BY <1>1, <2>1, <2>3, <3>1 DEF PublicationBound
      <4>2. topic'[a] = Append(topic[a], "SUPPLEMENT_REQUESTED")
        BY <2>2, <2>3, <3>1
      <4>3. Overtaken(calls[i]) => \E d \in Decisions : topic[a] = <<d>>
        BY <1>1 DEF Overtaken
      <4> QED
        BY <3>1, <2>3, <2>4, <4>1, <4>2, <4>3, SecondFollows DEF Asked
    <3>2. CASE x.status \in Decided
      <4>1. appeals[a].status \in Decided /\ topic[a] \in {<< >>, Asked}
        BY <1>1, <2>1, <2>3, <3>2 DEF PublicationBound
      <4>2. topic'[a] = Append(topic[a], EventOf(x)) /\ EventOf(x) \in Decisions
        BY <2>2, <2>3, <3>2
      <4> QED
        BY <3>2, <2>4, <4>1, <4>2, SecondFollows
    <3> QED
      BY <1>1, <2>1, <3>1, <3>2 DEF PublicationBound
  \* A request that waits while its decision goes out waits for another client.
  <2>6. ASSUME NEW j \in Calls, j # i, calls[j].stage = "publishing", calls[j].answer.appeal = a,
               Before(calls[j].answer, x)
        PROVE  publisher >= IF calls[j].client = 0 THEN 1 ELSE 2
    <3>1. calls[i].client \in 1 .. publisher
      BY <2>1 DEF PublicationBound
    <3>2. calls[j].client # calls[i].client
      BY <1>1, <1>6, <2>1, <2>6 DEF FirstToPublish, Before
    <3>3. calls[j].client <= publisher
      BY <2>6 DEF EventsInv, PublicationsBound, PublicationBound
    <3> QED
      BY <2>1, <3>1, <3>2, <3>3
  <2>7. TopicBound'
    <3> SUFFICES ASSUME NEW b \in Appeals
                 PROVE  /\ topic'[b] \in Histories
                        /\ appeals[b].status = "UNUSED" => topic'[b] = << >>
                        /\ appeals[b].status \notin Decided => topic'[b] \in {<< >>, Asked}
      BY <1>2 DEF TopicBound
    <3>1. CASE b = a
      <4>1. appeals[a].status # "UNUSED"
        BY <1>1, <2>1 DEF PublicationBound
      <4>2. Overtaken(calls[i]) => appeals[a].status \in Decided
        <5>1. \A d \in Decisions : <<d>> # << >> /\ <<d>> # Asked
          BY DEF Decisions, Asked
        <5> QED
          BY <1>1, <5>1 DEF Overtaken, EventsInv, TopicBound
      <4>3. /\ topic'[a] \in Histories
            /\ appeals[a].status \notin Decided => topic'[a] \in {<< >>, Asked}
        BY <2>5, <4>2, HistoryShapes
      <4> QED
        BY <3>1, <4>1, <4>3
    <3>2. CASE b # a
      BY <2>2, <3>2 DEF EventsInv, TopicBound
    <3> QED
      BY <3>1, <3>2
  <2>8. PublicationsBound'
    <3> SUFFICES ASSUME NEW j \in Calls, calls'[j].stage = "publishing",
                        NEW y, y = calls'[j]
                 PROVE  PublicationBound(y)'
      BY DEF PublicationsBound
    <3>1. /\ j # i /\ y = calls[j] /\ y.stage = "publishing" /\ y.answer.appeal \in Appeals
          /\ PublicationBound(y)
      BY <1>3 DEF WellFormed, AnswersWellFormed, EventsInv, PublicationsBound
    <3>2. CASE y.answer.appeal # a
      BY <1>2, <2>1, <2>2, <3>1, <3>2, StillBound DEF PlatformTypeOK, Known
    <3>3. CASE y.answer.appeal = a
      <4>1. Before(x, y.answer) \/ Before(y.answer, x)
        BY <1>1, <3>1, <3>3 DEF EventsInv, PairsBound
      \* The decision is still to come: the request has not been overtaken.
      <4>2. CASE Before(x, y.answer)
        <5>1. asks /\ y.answer.status \in Decided /\ topic[a] \in {<< >>, Asked}
          BY <2>3, <3>1, <3>3, <4>2 DEF Before, PublicationBound, Decided
        <5>2. ~Overtaken(calls[i])
          <6>1. \A d \in Decisions : <<d>> # << >> /\ <<d>> # Asked
            BY DEF Decisions, Asked
          <6> QED
            BY <1>1, <5>1, <6>1 DEF Overtaken
        <5>3. topic'[a] = Asked
          BY <2>3, <2>5, <5>1, <5>2
        <5> QED
          BY <1>2, <3>1, <3>3, <5>1, <5>3 DEF PublicationBound, Known, Decided
      \* It has just gone out.
      <4>3. CASE Before(y.answer, x)
        <5>1. ~asks /\ y.answer.status = "SUPPLEMENT_REQUESTED" /\ x.status \in Decided
          BY <2>3, <4>3 DEF Before
        <5>2. topic[a] # Asked
          <6>1. << >> # Asked /\ \A d \in Decisions : <<d>> # Asked
            BY DEF Decisions, Asked
          <6>2. topic[a] = << >> \/ Overtaken(y)
            BY <3>1, <3>3, <5>1 DEF PublicationBound, Decided
          <6> QED
            BY <3>3, <6>1, <6>2 DEF Overtaken
        <5>3. \E d \in Decisions : topic'[a] = <<d>>
          BY <2>5, <5>1, <5>2
        <5>4. publisher >= IF y.client = 0 THEN 1 ELSE 2
          BY <2>6, <3>1, <3>3, <4>3
        <5>5. Overtaken(y)'
          BY <1>2, <3>3, <5>3, <5>4 DEF Overtaken
        <5> QED
          BY <1>2, <3>1, <5>1, <5>5 DEF PublicationBound, Known, Decided
      <4> QED
        BY <4>1, <4>2, <4>3
    <3> QED
      BY <3>2, <3>3
  <2>9. PairsBound'
    BY <1>3 DEF EventsInv, PairsBound, Before
  <2>10. ASSUME NEW b \in Appeals, RequestOvertaken(b) PROVE publisher > 1
    <3>1. b = a
      <4>1. Len(Append(topic[b], "SUPPLEMENT_REQUESTED")) = Len(topic[b]) + 1
            /\ Len(topic[b]) \in Nat
        BY <1>4 DEF EventTypes
      <4> QED
        BY <2>2, <2>10, <4>1 DEF RequestOvertaken
    <3>2. topic[a] # << >>
      BY <2>10, <3>1 DEF RequestOvertaken
    <3>3. topic[a] # Asked
      <4>1. "SUPPLEMENT_REQUESTED" \notin Decisions
        BY DEF Decisions
      <4>2. Len(Asked) = 1 /\ Asked[1] = "SUPPLEMENT_REQUESTED"
        BY DEF Asked
      <4> QED
        BY <2>10, <3>1, <4>1, <4>2 DEF RequestOvertaken
    <3>4. Overtaken(calls[i])
      BY <2>5, <3>2, <3>3
    <3> QED
      BY <2>1, <3>4 DEF Overtaken
  <2> QED
    BY <2>7, <2>8, <2>9, <2>10 DEF EventsInv
<1> QED
  BY <1>2, <1>5, <1>6

LEMMA NextEvents == Base /\ EventsInv /\ [Next]_platformVars => EventsInv'
<1> SUFFICES ASSUME Base, EventsInv, [Next]_platformVars PROVE EventsInv'
  OBVIOUS
<1> USE DEF Base, TypeOK, WellFormed
<1>1. CASE UNCHANGED platformVars
  BY <1>1, QuietEvents DEF platformVars, Known, ClientsKept
<1>2. ASSUME NEW i \in Calls, ClientSends(i) PROVE EventsInv'
  <2>1. \A j \in Calls : calls'[j] = calls[j] \/ calls'[j].stage # "publishing"
    BY <1>2 DEF ClientSends, Send, PlatformTypeOK
  <2> QED
    BY <1>2, <2>1, QuietEvents DEF ClientSends, Known, ClientsKept
<1>3. CASE UNCHANGED <<appeals, idem, seq, topic, publisher>> /\ ServesOnly
  BY <1>3, QuietEvents DEF ServesOnly, Known, ClientsKept
<1>4. CASE Wipe /\ UNCHANGED topic /\ ServesOnly /\ ClientsKept
  <2>1. \A a \in Appeals : appeals'[a].status = appeals[a].status /\ ~Known(a)'
    BY <1>4 DEF Wipe, Known, PlatformTypeOK, AppealRecord
  <2> QED
    BY <1>4, <2>1, QuietEvents DEF ServesOnly
<1> QED
  BY <1>1, <1>2, <1>3, <1>4, StepShapes, CommitEvents, PublishEvents, ImportEvents

\* No event is put on the topic twice, whatever is retried or replayed
\* (server.js publishes only what was not replayed).
THEOREM EventsAreUnique == Spec => []EventsPublishedOnce
<1>1. EventsInv => EventsPublishedOnce
  BY EventsFromInv
<1> QED
  BY <1>1, InitBase, InitEvents, NextBase, NextEvents, PTL DEF Spec

\* Only a publication puts anything on the topic.
LEMMA NextOvertaking ==
    Base /\ EventsInv /\ [Next]_platformVars
        => [\A a \in Appeals : RequestOvertaken(a) => publisher > 1]_platformVars
<1> SUFFICES ASSUME Base, EventsInv, [Next]_platformVars, NEW a \in Appeals, RequestOvertaken(a)
             PROVE  publisher > 1
  BY DEF platformVars
<1>1. topic' # topic
  <2>1. topic[a] \in Seq(EventTypes)
    BY DEF Base, TypeOK, PlatformTypeOK
  <2>2. Len(Append(topic[a], "SUPPLEMENT_REQUESTED")) = Len(topic[a]) + 1 /\ Len(topic[a]) \in Nat
    BY <2>1 DEF EventTypes
  <2> QED
    BY <2>2 DEF RequestOvertaken
<1>2. PICK i \in Calls : Publish(i) \/ PublishFails(i)
  <2>1. \A i \in Calls : Commits(i) => UNCHANGED topic
    BY CommitShape
  <2> QED
    BY <1>1, <2>1, StepShapes DEF Base, TypeOK, platformVars, ClientSends, ImportSettles
<1> QED
  BY <1>2, PublishEvents

\* A decision overtakes the supplement request of its appeal only when the
\* process has made a second Pub/Sub client: with one client cached, never,
\* for any number of requests in flight (pubsub.js publish).
THEOREM OvertakingIsColdStart == Spec => OvertakingNeedsTwoClients
BY InitBase, InitEvents, NextBase, NextEvents, NextOvertaking, PTL
   DEF Spec, OvertakingNeedsTwoClients

=============================================================================

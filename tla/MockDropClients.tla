--------------------------- MODULE MockDropClients ---------------------------
(***************************************************************************)
(* MockDrop served to arbitrary clients: any request under any idempotency *)
(* key, retried, duplicated, overlapping or given up on, with resets,      *)
(* restarts and failing publications at any moment.  What holds here holds *)
(* whatever AppealOS does (AppealWorkflow puts AppealOS in their place).   *)
(***************************************************************************)
EXTENDS MockDrop

\* Every request a client can form; only writes carry a key.
ClientRequests ==
    {ResetRequest, AccountRequest}
        \cup {AppealRequest(c) : c \in Cases}
        \cup {SupplementRequest(a, m) : a \in Appeals, m \in BOOLEAN}

Writes == {"SUBMIT_APPEAL", "SUBMIT_SUPPLEMENT"}

ClientSends(i) ==
    /\ \E r \in ClientRequests, k \in Keys \cup {None} :
         /\ (k \in Keys) <=> (r.kind \in Writes)
         /\ Send(i, k, r)
    /\ UNCHANGED <<account, appeals, idem, seq, topic, publisher>>

\* The client takes the answer, or has gone and the answer is dropped.
ClientDone(i) ==
    /\ calls[i].stage = "answered"
    /\ Release(i)
    /\ UNCHANGED <<account, appeals, idem, seq, topic, publisher>>

Next ==
    \/ \E i \in Calls :
         \/ ClientSends(i) \/ Handle(i) \/ ClientDone(i)
         \/ ImportSettles(i) \/ Publish(i) \/ PublishFails(i)
    \/ Restart

Spec == PlatformInit /\ [][Next]_platformVars

\* Node serves what it has accepted, and the import and publishMessage settle
\* one way or the other: a request does not wait for ever inside the server.
FairSpec ==
    /\ Spec
    /\ \A i \in Calls :
         WF_platformVars(Handle(i) \/ ImportSettles(i) \/ Publish(i) \/ PublishFails(i))

-----------------------------------------------------------------------------
(* Properties.                                                             *)

TypeOK == PlatformTypeOK

Approved == {a \in Appeals : Known(a) /\ appeals[a].status = "APPROVED"}

\* The account is active exactly when the store holds an approved appeal, and
\* its version counts the approvals: no retry, duplicate or crash of a client
\* applies one approval twice, and no reset leaves half of one behind
\* (mockdrop-store.js submitSupplement, reset).
AccountReflectsApprovals ==
    /\ account.status = "ACTIVE" <=> Approved # {}
    /\ account.version = 1 + Cardinality(Approved)

\* Every committed write has one idempotency record and one receipt, and the
\* numbers of the receipts are 1 .. seq without gap or repetition: a refused
\* request consumes no number, a replay none either (createReceipt).
ReceiptsNumberWrites ==
    LET used == {k \in Keys : Used(k)}
    IN  /\ {idem[k].answer.receipt : k \in used} = 1 .. seq
        /\ Cardinality(used) = seq

\* An appeal the store holds is backed by the record of the write that filed
\* it, and a decided one by the record of the supplement that decided it, so
\* a receipt lookup by key can always recover what was done.
AppealsAreRecorded ==
    \A a \in Appeals :
        /\ Known(a) => \E k \in Keys : /\ idem[k].request = AppealRequest(appeals[a].case)
                                       /\ idem[k].answer.appeal = a
        /\ Known(a) /\ appeals[a].status \in Decided =>
             \E k \in Keys : /\ idem[k].request.kind = "SUBMIT_SUPPLEMENT"
                             /\ idem[k].request.appeal = a
                             /\ idem[k].answer.status = appeals[a].status

\* No event is put on the topic twice, whatever is retried or replayed: the
\* replay of a key publishes nothing, and two racing requests of one key
\* commit once (server.js, "if (!result.replayed)").
EventsPublishedOnce ==
    \A a \in Appeals : \A m, n \in 1 .. Len(topic[a]) :
        m # n => topic[a][m] # topic[a][n]

Decisions == {"DECISION_APPROVED", "DECISION_REJECTED"}

\* The step puts the request of appeal a behind a decision already on its topic.
RequestOvertaken(a) ==
    /\ \E n \in 1 .. Len(topic[a]) : topic[a][n] \in Decisions
    /\ topic'[a] = Append(topic[a], "SUPPLEMENT_REQUESTED")

\* A decision overtakes the supplement request of its appeal only when the
\* process has made two Pub/Sub clients, that is when both were published while
\* the first import was under way.  Once a client is cached, the order of the
\* topic is the order of the commits, though a replay may let the client of
\* MockDrop go on and file the supplement while the request still waits to be
\* published (pubsub.js publish, one ordering key per appeal).
OvertakingNeedsTwoClients ==
    [][\A a \in Appeals : RequestOvertaken(a) => publisher > 1]_platformVars

StoreIsWiped == idem' = [k \in Keys |-> NoRecord]

KeepsHistory ==
    /\ \A k \in Keys : Used(k) => idem'[k] = idem[k] \/ StoreIsWiped
    /\ \A a \in Appeals : appeals[a].status \in Decided =>
         appeals'[a].status = appeals[a].status

\* Until the store is wiped, a key keeps the request and the response of its
\* first use, and what was once decided is never decided again: later requests,
\* conflicting ones included, never rewrite history (executeIdempotent).
HistoryIsKept == [][KeepsHistory]_platformVars

\* Every request that reached the server gets an answer, though it may have to
\* wait for the publications of earlier requests of the same appeal.  (Only a
\* request to file may wait for an appeal id, of which the code has no end.)
OutOfAppeals == \A a \in Appeals : appeals[a].status # "UNUSED"
EveryRequestAnswered ==
    \A i \in Calls :
        calls[i].stage = "sent" ~>
            \/ calls[i].stage = "answered"
            \/ OutOfAppeals /\ Pending(i, "SUBMIT_APPEAL")

=============================================================================

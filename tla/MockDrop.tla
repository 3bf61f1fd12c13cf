------------------------------ MODULE MockDrop ------------------------------
(***************************************************************************)
(* The simulated delivery platform (apps/mockdrop/src): one rider account, *)
(* the appeals filed against its suspension, the idempotency records that  *)
(* make a retried write harmless, and the HTTP server that commits a write *)
(* and only then publishes the platform event it produced.                 *)
(*                                                                         *)
(* Node runs one callback at a time, so a handler is atomic up to its      *)
(* await: a write is committed in one step (Handle), its event is          *)
(* published in others (ImportSettles, Publish, PublishFails), and the     *)
(* requests of other clients run in between.  Everything is held in        *)
(* memory: Restart loses it.                                               *)
(***************************************************************************)
EXTENDS Integers, FiniteSets, Sequences

CONSTANTS
    Cases,    \* the AppealOS cases that file appeals
    Appeals,  \* appeal ids; a fresh one is drawn for every new appeal
    Calls,    \* slots for HTTP requests in flight: bounds their number
    None      \* no case, no appeal, no call

ASSUME NoneAssumption == None \notin Cases \cup Appeals \cup Calls

VARIABLES
    account,  \* the rider account: its status and version
    appeals,  \* what the platform knows under each appeal id
    idem,     \* the idempotency record under each key
    seq,      \* platformSequence, the number of the last receipt
    calls,    \* the HTTP requests being served
    topic,    \* per appeal (the ordering key), the events Pub/Sub still holds
    publisher \* how many Pub/Sub clients this process has made, the last one cached

platformVars == <<account, appeals, idem, seq, calls, topic, publisher>>

-----------------------------------------------------------------------------
(* Data.  Idempotency keys name a case and an operation; a client is free  *)
(* to send any request under any key.                                      *)

Operations == {"submit", "supplement"}
Keys == Operations \X Cases
ASSUME KeysAssumption == None \notin Keys

AccountStatus == {"SUSPENDED", "ACTIVE"}
Decided == {"APPROVED", "REJECTED"}
OpenOrDecided == {"SUPPLEMENT_REQUESTED"} \cup Decided

\* An id is UNUSED until an appeal takes it.  A reset or a restart empties the
\* store: the appeal is then no longer held, but its id (a UUID) is not drawn
\* again, and its record stays here as history that no action reads.
AppealStatus == OpenOrDecided \cup {"UNUSED"}
AppealRecord == [case : Cases \cup {None}, status : AppealStatus, held : BOOLEAN]
UnusedAppeal == [case |-> None, status |-> "UNUSED", held |-> FALSE]
NewAppeal(c) == [case |-> c, status |-> "SUPPLEMENT_REQUESTED", held |-> TRUE]

RequestKinds == {"RESET", "GET_ACCOUNT", "SUBMIT_APPEAL", "SUBMIT_SUPPLEMENT"}
Request == [kind : RequestKinds \cup {"NONE"}, case : Cases \cup {None},
            appeal : Appeals \cup {None}, matches : BOOLEAN]
NoRequest == [kind |-> "NONE", case |-> None, appeal |-> None, matches |-> FALSE]

ResetRequest == [NoRequest EXCEPT !.kind = "RESET"]
AccountRequest == [NoRequest EXCEPT !.kind = "GET_ACCOUNT"]
AppealRequest(c) == [NoRequest EXCEPT !.kind = "SUBMIT_APPEAL", !.case = c]

\* "matches": hash, template and fields are those the platform asked for.
SupplementRequest(a, matches) ==
    [NoRequest EXCEPT !.kind = "SUBMIT_SUPPLEMENT", !.appeal = a, !.matches = matches]

Failures == {"NOT_FOUND", "CONFLICT", "KEY_REUSE", "INTERNAL_ERROR"}
Answer == [result : Failures \cup {"NONE", "OK"}, appeal : Appeals \cup {None},
           status : OpenOrDecided \cup {"NONE"},
           account : AccountStatus \cup {"NONE"}, receipt : Nat]
NoAnswer == [result |-> "NONE", appeal |-> None, status |-> "NONE",
             account |-> "NONE", receipt |-> 0]
Failure(reason) == [NoAnswer EXCEPT !.result = reason]

IdemRecord == [request : Request, answer : Answer]
NoRecord == [request |-> NoRequest, answer |-> NoAnswer]

\* A request is sent, perhaps commits and publishes, and is answered; from
\* then on only its answer matters, and key and request are dropped.
Stages == {"free", "sent", "publishing", "answered"}
\* "client" is the Pub/Sub client a publication was handed to, 0 for none yet.
Call == [stage : Stages, key : Keys \cup {None}, request : Request, answer : Answer,
         client : Nat]
FreeCall == [stage |-> "free", key |-> None, request |-> NoRequest, answer |-> NoAnswer,
             client |-> 0]
Served(stage, answer) == [FreeCall EXCEPT !.stage = stage, !.answer = answer]

\* publish(): the message goes to the cached client, if there is one.
Published(answer) == [Served("publishing", answer) EXCEPT !.client = publisher]

EventTypes == {"SUPPLEMENT_REQUESTED", "DECISION_APPROVED", "DECISION_REJECTED"}

\* Mutant: the status is published instead of the event type.
EventOfStatus(answer) == answer.status

EventOf(answer) ==
    CASE answer.status = "APPROVED" -> "DECISION_APPROVED"
      [] answer.status = "REJECTED" -> "DECISION_REJECTED"
      [] OTHER                      -> "SUPPLEMENT_REQUESTED"

\* getAppeal finds only what the current store holds.
Known(a) == appeals[a].held

PlatformTypeOK ==
    /\ account \in [status : AccountStatus, version : Nat]
    /\ appeals \in [Appeals -> AppealRecord]
    /\ idem \in [Keys -> IdemRecord]
    /\ seq \in Nat
    /\ calls \in [Calls -> Call]
    /\ topic \in [Appeals -> Seq(EventTypes)]
    /\ publisher \in Nat

-----------------------------------------------------------------------------
(* The client's side of a request.                                         *)

Send(i, key, request) ==
    /\ calls[i] = FreeCall
    /\ calls' = [calls EXCEPT ![i] = [stage |-> "sent", key |-> key,
                                      request |-> request, answer |-> NoAnswer,
                                      client |-> 0]]

\* The answer of call i, taken off the wire.
Release(i) == calls' = [calls EXCEPT ![i] = FreeCall]

-----------------------------------------------------------------------------
(* The store.                                                              *)

FreshAccount == [status |-> "SUSPENDED", version |-> 1]

PlatformInit ==
    /\ account = FreshAccount
    /\ appeals = [a \in Appeals |-> UnusedAppeal]
    /\ idem = [k \in Keys |-> NoRecord]
    /\ seq = 0
    /\ calls = [i \in Calls |-> FreeCall]
    /\ topic = [a \in Appeals |-> << >>]
    /\ publisher = 0

\* Mutants: reset forgets to clear the appeals, or to restart the sequence.
WipeKeepingAppeals ==
    account' = FreshAccount /\ idem' = [k \in Keys |-> NoRecord] /\ seq' = 0 /\ UNCHANGED appeals
WipeKeepingSequence ==
    /\ account' = FreshAccount /\ idem' = [k \in Keys |-> NoRecord] /\ UNCHANGED seq
    /\ appeals' = [a \in Appeals |-> [appeals[a] EXCEPT !.held = FALSE]]

\* reset(): a new suspended account, no appeals, no records, sequence 0.
Wipe ==
    /\ account' = FreshAccount
    /\ appeals' = [a \in Appeals |-> [appeals[a] EXCEPT !.held = FALSE]]
    /\ idem' = [k \in Keys |-> NoRecord]
    /\ seq' = 0

Pending(i, kind) == calls[i].stage = "sent" /\ calls[i].request.kind = kind

AnswerWith(i, answer) == calls' = [calls EXCEPT ![i] = Served("answered", answer)]

\* A failed or replayed request leaves the store as it was.
AnswerOnly(i, answer) ==
    /\ AnswerWith(i, answer)
    /\ UNCHANGED <<account, appeals, idem, seq, topic, publisher>>

\* Mutant: the response is not recorded under its key.
CommitUnrecorded(i, answer) ==
    /\ seq' = answer.receipt
    /\ calls' = [calls EXCEPT ![i] = Published(answer)]
    /\ UNCHANGED <<idem, topic, publisher>>

\* executeIdempotent, first use of a key: the record holds the response, and
\* the server goes on to publish its event before it answers.
Commit(i, answer) ==
    /\ seq' = answer.receipt
    /\ idem' = [idem EXCEPT ![calls[i].key] = [request |-> calls[i].request,
                                               answer |-> answer]]
    /\ calls' = [calls EXCEPT ![i] = Published(answer)]
    /\ UNCHANGED <<topic, publisher>>

Used(key) == idem[key] # NoRecord

\* Mutant: a replayed response publishes its event again.
ReplayAndPublish(i) ==
    /\ calls' = [calls EXCEPT ![i] = Published(idem[calls[i].key].answer)]
    /\ UNCHANGED <<account, appeals, idem, seq, topic, publisher>>

\* executeIdempotent, key already used: the original response again when the
\* request is the original one, a conflict when it is not.
Replay(i) ==
    LET record == idem[calls[i].key]
    IN  AnswerOnly(i, IF record.request = calls[i].request
                      THEN record.answer ELSE Failure("KEY_REUSE"))

HandleReset(i) ==
    /\ Pending(i, "RESET")
    /\ Wipe
    /\ AnswerWith(i, [NoAnswer EXCEPT !.result = "OK", !.account = "SUSPENDED"])
    /\ UNCHANGED <<topic, publisher>>

HandleGetAccount(i) ==
    /\ Pending(i, "GET_ACCOUNT")
    /\ AnswerOnly(i, [NoAnswer EXCEPT !.result = "OK", !.account = account.status])

\* submitAppeal, new key.  The appeal id is a fresh UUID: the guard also
\* bounds the number of appeals of a behaviour by Cardinality(Appeals).
FileAppeal(i) ==
    LET c == calls[i].request.case
    IN  \E a \in Appeals :
          /\ appeals[a] = UnusedAppeal
          /\ appeals' = [appeals EXCEPT ![a] = NewAppeal(c)]
          /\ Commit(i, [result |-> "OK", appeal |-> a, status |-> "SUPPLEMENT_REQUESTED",
                        account |-> "NONE", receipt |-> seq + 1])
          /\ UNCHANGED account

\* Mutant: the key is not looked up.
HandleSubmitUnchecked(i) ==
    Pending(i, "SUBMIT_APPEAL") /\ account.status = "SUSPENDED" /\ FileAppeal(i)

HandleSubmit(i) ==
    /\ Pending(i, "SUBMIT_APPEAL")
    /\ \/ Used(calls[i].key) /\ Replay(i)
       \/ /\ ~Used(calls[i].key)
          /\ account.status # "SUSPENDED"
          /\ AnswerOnly(i, Failure("CONFLICT"))
       \/ /\ ~Used(calls[i].key)
          /\ account.status = "SUSPENDED"
          /\ FileAppeal(i)

\* submitSupplement, new key, open appeal: the evidence decides the appeal,
\* and an approval reactivates the account.
DecideAppeal(i) ==
    LET a == calls[i].request.appeal
        accepted == calls[i].request.matches
        status == IF accepted THEN "APPROVED" ELSE "REJECTED"
        account2 == IF accepted
                    THEN [status |-> "ACTIVE", version |-> account.version + 1]
                    ELSE account
    IN  /\ appeals' = [appeals EXCEPT ![a].status = status]
        /\ account' = account2
        /\ Commit(i, [result |-> "OK", appeal |-> a, status |-> status,
                      account |-> account2.status, receipt |-> seq + 1])

\* Mutants: an unknown appeal gets no answer; a decided one is decided again.
HandleSupplementSilent(i) ==
    LET a == calls[i].request.appeal
    IN  /\ Pending(i, "SUBMIT_SUPPLEMENT") /\ Known(a)
        /\ \/ Used(calls[i].key) /\ Replay(i)
           \/ /\ ~Used(calls[i].key)
              /\ appeals[a].status # "SUPPLEMENT_REQUESTED"
              /\ AnswerOnly(i, Failure("CONFLICT"))
           \/ /\ ~Used(calls[i].key)
              /\ appeals[a].status = "SUPPLEMENT_REQUESTED"
              /\ DecideAppeal(i)
HandleSupplementAgain(i) ==
    LET a == calls[i].request.appeal
    IN  /\ Pending(i, "SUBMIT_SUPPLEMENT")
        /\ \/ ~Known(a) /\ AnswerOnly(i, Failure("NOT_FOUND"))
           \/ Known(a) /\ Used(calls[i].key) /\ Replay(i)
           \/ Known(a) /\ ~Used(calls[i].key) /\ DecideAppeal(i)

HandleSupplement(i) ==
    LET a == calls[i].request.appeal
    IN  /\ Pending(i, "SUBMIT_SUPPLEMENT")
        /\ \/ ~Known(a) /\ AnswerOnly(i, Failure("NOT_FOUND"))
           \/ Known(a) /\ Used(calls[i].key) /\ Replay(i)
           \/ /\ Known(a) /\ ~Used(calls[i].key)
              /\ appeals[a].status # "SUPPLEMENT_REQUESTED"
              /\ AnswerOnly(i, Failure("CONFLICT"))
           \/ /\ Known(a) /\ ~Used(calls[i].key)
              /\ appeals[a].status = "SUPPLEMENT_REQUESTED"
              /\ DecideAppeal(i)

Handle(i) ==
    HandleReset(i) \/ HandleGetAccount(i) \/ HandleSubmit(i) \/ HandleSupplement(i)

-----------------------------------------------------------------------------
(* Publication, after the commit.  publish() uses the cached client, or    *)
(* imports the library, makes a client and caches it.  Calls that begin    *)
(* before the first import settles each make a client of their own.  A     *)
(* client sends the messages of one ordering key in the order it got them; *)
(* two clients do not wait for each other.                                 *)

\* The import settles: a new client replaces the one cached meanwhile.
ImportSettles(i) ==
    /\ calls[i].stage = "publishing" /\ calls[i].client = 0
    /\ publisher' = publisher + 1
    /\ calls' = [calls EXCEPT ![i].client = publisher + 1]
    /\ UNCHANGED <<account, appeals, idem, seq, topic>>

\* Mutant: messages of one client overtake each other.
AnyToPublish(i) == calls[i].stage = "publishing" /\ calls[i].client # 0

FirstToPublish(i) ==
    /\ calls[i].stage = "publishing" /\ calls[i].client # 0
    /\ \A j \in Calls :
         /\ calls[j].stage = "publishing" /\ calls[j].client = calls[i].client
         /\ calls[j].answer.appeal = calls[i].answer.appeal
         => calls[j].answer.receipt >= calls[i].answer.receipt

ToTopic(answer) ==
    topic' = [topic EXCEPT ![answer.appeal] = Append(@, EventOf(answer))]

Publish(i) ==
    /\ FirstToPublish(i)
    /\ ToTopic(calls[i].answer)
    /\ AnswerWith(i, calls[i].answer)
    /\ UNCHANGED <<account, appeals, idem, seq, publisher>>

\* publish() throws, in the import or later: the client gets a 500 for a write
\* that is committed.  The message may have been accepted all the same, if it
\* was sent.  Nothing publishes it again.
PublishFails(i) ==
    /\ \/ calls[i].stage = "publishing" /\ calls[i].client = 0 /\ UNCHANGED topic
       \/ FirstToPublish(i) /\ UNCHANGED topic
       \/ FirstToPublish(i) /\ ToTopic(calls[i].answer)
    /\ AnswerWith(i, Failure("INTERNAL_ERROR"))
    /\ UNCHANGED <<account, appeals, idem, seq, publisher>>

\* The process dies and a new one starts with an empty store.  Requests it
\* was serving fail; one still on its way reaches the new process.
Restart ==
    /\ Wipe
    /\ calls' = [i \in Calls |-> IF calls[i].stage = "publishing"
                                 THEN Served("answered", Failure("INTERNAL_ERROR"))
                                 ELSE calls[i]]
    /\ publisher' = 0
    /\ UNCHANGED topic

=============================================================================

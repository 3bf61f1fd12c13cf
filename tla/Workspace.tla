------------------------------ MODULE Workspace ------------------------------
(***************************************************************************)
(* The case workspace (apps/appealos/app/static/index.html): the buttons   *)
(* of one page, their two-click confirmations, and the asynchronous        *)
(* functions behind them (runAction, refreshCase), which wait for the      *)
(* service and then overwrite what the page shows.                         *)
(*                                                                         *)
(* JavaScript runs one callback at a time: a click, a timer and what       *)
(* follows an await are one action each.  The buttons are all disabled     *)
(* while an action runs, but the refresh of the page load runs beside it.  *)
(* Of the service there are the guards of its methods and what they leave  *)
(* behind (AppealWorkflow has its inside).                                 *)
(***************************************************************************)
EXTENDS Integers, FiniteSets

CONSTANTS
    Cases,      \* case ids
    Tasks,      \* slots for running asynchronous functions: bounds them
    MaxErrors,  \* bounds the requests that fail without being refused
    Perils,     \* the reasons for a refusal that come up
    None        \* no case, no button

ASSUME ErrorsAssumption == MaxErrors \in Nat

VARIABLES
    served,      \* the state of each case at the service
    hindrances,  \* for each case, the reasons to refuse a method that stand now
    shown,       \* currentCase
    caseId,      \* currentCaseId, kept in localStorage too
    enabled,     \* the buttons that are not disabled
    confirming,  \* the buttons in confirm mode
    timer,       \* the button confirmTimer is about
    tasks,       \* the running asynchronous functions
    prompted,    \* history: the case for which a button last asked to confirm
    errors       \* errors so far

vars == <<served, hindrances, shown, caseId, enabled, confirming, timer, tasks, prompted,
          errors>>

-----------------------------------------------------------------------------
(* Cases and buttons.                                                      *)

Flow == <<"NOTICE_RECEIVED", "PARSED", "CONSENTED", "MANDATE_APPROVED",
          "SUPPLEMENT_REQUESTED", "DECIDED_APPROVED", "ACCOUNT_ACTIVE">>
States == {Flow[n] : n \in DOMAIN Flow}
Rank(state) == CHOOSE n \in DOMAIN Flow : Flow[n] = state

\* ABSENT: an id not drawn yet.  GONE: an id the store no longer knows.
Served == States \cup {"ABSENT", "GONE"}
View == [case : Cases, state : States]

Confirmed == {"consent", "mandate"}
StepButtons == {"notice", "run"} \cup Confirmed

\* The hidden buttons of submit, supplement and verify are never enabled.
Buttons == StepButtons \cup {"reset", "case", "export"}

RunStates == {"MANDATE_APPROVED", "SUPPLEMENT_REQUESTED", "DECIDED_APPROVED"}

\* The states in which updateButtons offers a step.
ReadyAt == [notice |-> {"NOTICE_RECEIVED"}, consent |-> {"PARSED"},
            mandate |-> {"CONSENTED"}, run |-> RunStates]

\* Mutant: an execution that was interrupted is not offered again.
OfferedOnce(view) ==
    IF view = None THEN {"reset"}
    ELSE {"reset", "export"} \cup
         {b \in StepButtons : view.state \in ReadyAt[b] \ {"DECIDED_APPROVED"}}

Offered(view) ==
    IF view = None THEN {"reset"}
    ELSE {"reset", "export"} \cup {b \in StepButtons : view.state \in ReadyAt[b]}

\* updateButtons, for the case shown from now on.  It has no line for the
\* Refresh button ("case").
UpdateButtons == enabled' = Offered(shown') \cup (enabled \cap {"case"})

-----------------------------------------------------------------------------
(* What the service accepts.                                               *)

Methods == {"notice", "consent", "mandate", "submit", "supplement", "verify"}

\* The methods behind each button; the state each expects its case in; the
\* state the last of them saves.
Runs == [notice |-> {"notice"}, consent |-> {"consent"}, mandate |-> {"mandate"},
         run |-> {"submit", "supplement", "verify"}]
Expects == [notice |-> "NOTICE_RECEIVED", consent |-> "PARSED", mandate |-> "CONSENTED",
            submit |-> "MANDATE_APPROVED", supplement |-> "SUPPLEMENT_REQUESTED",
            verify |-> "DECIDED_APPROVED"]
Goal == [notice |-> "PARSED", consent |-> "CONSENTED",
         mandate |-> "MANDATE_APPROVED", run |-> "ACCOUNT_ACTIVE"]

\* What a method is refused for beside the state of its case: the consent or the
\* mandate has expired, the consent leaves the device log out ("scope"), an
\* artifact is quarantined, the platform has lost the appeal; the vault cannot
\* be read, the account is not ACTIVE.  Only the last two ever pass.
RefusedFor ==
    [notice |-> {}, consent |-> {},
     mandate |-> {"consent", "quarantine", "vault"},
     submit |-> {"mandate"},
     supplement |-> {"consent", "scope", "mandate", "lost", "quarantine", "vault"},
     verify |-> {"mandate", "account"}]
Reasons == UNION {RefusedFor[m] : m \in Methods}
Passing == {"vault", "account"}

ASSUME PerilsAssumption == Perils \subseteq Reasons

\* The state from which a reason can come up.  The scope is settled with the
\* consent.
Since == [consent |-> "CONSENTED", quarantine |-> "CONSENTED", vault |-> "CONSENTED",
          mandate |-> "MANDATE_APPROVED", lost |-> "SUPPLEMENT_REQUESTED",
          account |-> "DECIDED_APPROVED"]

Refuses(m, reasons) == RefusedFor[m] \cap reasons # {}

\* Reasons that can come up in a state and matter to a method still to come.
Arising(state) ==
    {r \in Perils \cap DOMAIN Since :
        /\ Rank(Since[r]) <= Rank(state)
        /\ \E m \in Methods : Rank(state) <= Rank(Expects[m]) /\ r \in RefusedFor[m]}

-----------------------------------------------------------------------------
(* Asynchronous functions.  "load" is the refreshCase of the page load; an *)
(* action whose request failed goes on as a refresh ("get").               *)

Answer == [result : {"none", "ok", "notFound", "error"},
           case : Cases \cup {None}, state : States \cup {"none"}]
NoAnswer == [result |-> "none", case |-> None, state |-> "none"]
Ok(c, state) == [result |-> "ok", case |-> c, state |-> state]

Task == [action : Buttons \cup {"load", "none"}, stage : {"idle", "sent", "answered"},
         get : BOOLEAN, case : Cases \cup {None}, answer : Answer]
IdleTask == [action |-> "none", stage |-> "idle", get |-> FALSE,
             case |-> None, answer |-> NoAnswer]
Sent(action, get, c) ==
    [IdleTask EXCEPT !.action = action, !.stage = "sent", !.get = get, !.case = c]

TypeOK ==
    /\ served \in [Cases -> Served]
    /\ hindrances \in [Cases -> SUBSET Reasons]
    /\ shown \in View \cup {None}
    /\ caseId \in Cases \cup {None}
    /\ enabled \subseteq Buttons
    /\ confirming \subseteq Confirmed
    /\ timer \in Confirmed \cup {None}
    /\ tasks \in [Tasks -> Task]
    /\ prompted \in [Confirmed -> Cases \cup {None}]
    /\ errors \in 0 .. MaxErrors

\* The page is loaded with the case id of an earlier visit, or none; the store
\* may have lost that case.  Only Reset and Refresh start enabled.
Init ==
    /\ caseId \in Cases \cup {None}
    /\ served \in [Cases -> Served]
    /\ \A c \in Cases : (served[c] # "ABSENT") <=> (c = caseId)
    /\ hindrances = [c \in Cases |-> {}]
    /\ shown = None
    /\ enabled = {"reset", "case"}
    /\ confirming = {}
    /\ timer = None
    /\ \E k \in Tasks :
         tasks = [j \in Tasks |-> IF j = k /\ caseId # None
                                  THEN Sent("load", TRUE, caseId) ELSE IdleTask]
    /\ prompted = [b \in Confirmed |-> None]
    /\ errors = 0

-----------------------------------------------------------------------------
(* The user.                                                               *)

\* startConfirm: the first click on consent or mandate only asks.
FirstClick(b) ==
    /\ b \in (enabled \cap Confirmed) \ confirming
    /\ confirming' = confirming \cup {b}
    /\ timer' = b
    /\ prompted' = [prompted EXCEPT ![b] = caseId]
    /\ UNCHANGED <<served, hindrances, shown, caseId, enabled, tasks, errors>>

\* The timer of the last confirmation: resetConfirm.
ConfirmTimesOut ==
    /\ timer # None
    /\ confirming' = confirming \ {timer}
    /\ timer' = None
    /\ UNCHANGED <<served, hindrances, shown, caseId, enabled, tasks, prompted, errors>>

\* runAction up to its await.  resetConfirm clears the one timer, whichever
\* button it was about.  A refresh without a case id ends at once.
Click(k, b) ==
    /\ b \in enabled
    /\ b \in Confirmed => b \in confirming
    /\ tasks[k] = IdleTask
    /\ confirming' = confirming \ {b}
    /\ timer' = None
    /\ IF b = "case" /\ caseId = None
       THEN /\ shown' = None
            /\ enabled' = Offered(None)
            /\ UNCHANGED tasks
       ELSE /\ enabled' = {}
            /\ tasks' = [tasks EXCEPT ![k] =
                           Sent(b, b = "case", IF b = "reset" THEN None ELSE caseId)]
            /\ UNCHANGED shown
    /\ UNCHANGED <<served, hindrances, caseId, prompted, errors>>

-----------------------------------------------------------------------------
(* The service.                                                            *)

\* The state a method of the step expects; an execution also takes a case that
\* is through (resumable_states).
Admits(b, state) ==
    (\E m \in Runs[b] : Expects[m] = state) \/ (b = "run" /\ state = "ACCOUNT_ACTIVE")

\* How far the methods of a step carry a case before one is refused.
Reach(b, c) ==
    {s \in States :
        /\ Rank(served[c]) <= Rank(s)
        /\ \A m \in Methods :
             Rank(served[c]) <= Rank(Expects[m]) /\ Rank(Expects[m]) < Rank(s)
               => m \in Runs[b] /\ ~Refuses(m, hindrances[c])}

\* A consent may leave the device log out.
LeftOut(b, state) ==
    IF b = "consent" /\ state = "CONSENTED" THEN SUBSET ({"scope"} \cap Perils) ELSE {{}}

Leaves(c, state, reasons) ==
    /\ served' = [served EXCEPT ![c] = state]
    /\ hindrances' = [hindrances EXCEPT ![c] = @ \cup reasons]

Reply(k, answer) ==
    tasks' = [tasks EXCEPT ![k].stage = "answered", ![k].answer = answer]
Refusal == [NoAnswer EXCEPT !.result = "error"]

\* An error, or an answer that is lost.
Fails(k) ==
    /\ errors < MaxErrors
    /\ errors' = errors + 1
    /\ Reply(k, Refusal)

\* The case id is a fresh UUID; when Cases is used up a reset fails.
ServeReset(k) ==
    /\ tasks[k].stage = "sent" /\ tasks[k].action = "reset"
    /\ \/ Fails(k) /\ UNCHANGED <<served, hindrances>>
       \/ /\ \A c \in Cases : served[c] # "ABSENT"
          /\ Reply(k, Refusal)
          /\ UNCHANGED <<served, hindrances, errors>>
       \/ \E c \in Cases :
            /\ served[c] = "ABSENT"
            /\ served' = [served EXCEPT ![c] = "NOTICE_RECEIVED"]
            /\ UNCHANGED hindrances
            /\ \/ Reply(k, Ok(c, "NOTICE_RECEIVED")) /\ UNCHANGED errors
               \/ Fails(k)
    /\ UNCHANGED <<shown, caseId, enabled, confirming, timer, prompted>>

\* A step succeeds; or stops on its way, by an error or for a reason that stood
\* or comes up (an artifact found damaged is quarantined there and then); or is
\* not admitted at all.
ServeStep(k) ==
    LET b == tasks[k].action
        c == tasks[k].case
        admitted == c # None /\ served[c] \in States /\ Admits(b, served[c])
    IN  /\ tasks[k].stage = "sent" /\ b \in StepButtons /\ ~tasks[k].get
        /\ \/ /\ admitted /\ Goal[b] \in Reach(b, c)
              /\ \E x \in LeftOut(b, Goal[b]) : Leaves(c, Goal[b], x)
              /\ Reply(k, Ok(c, Goal[b]))
              /\ UNCHANGED errors
           \/ /\ admitted
              /\ \E s \in Reach(b, c) : \E x \in LeftOut(b, s) : Leaves(c, s, x)
              /\ Fails(k)
           \/ /\ admitted
              /\ \E s \in Reach(b, c), m \in Runs[b] :
                   /\ Expects[m] = s
                   /\ \E r \in RefusedFor[m] \cap (hindrances[c] \cup Arising(s)) :
                        Leaves(c, s, {r})
              /\ Reply(k, Refusal)
              /\ UNCHANGED errors
           \/ /\ ~admitted
              /\ Reply(k, Refusal)
              /\ UNCHANGED <<served, hindrances, errors>>
        /\ UNCHANGED <<shown, caseId, enabled, confirming, timer, prompted>>

\* GET /demo/case: of a refresh, or of an export.
ServeGet(k) ==
    LET c == tasks[k].case
    IN  /\ tasks[k].stage = "sent" /\ (tasks[k].get \/ tasks[k].action = "export")
        /\ \/ Fails(k)
           \/ /\ Reply(k, IF c # None /\ served[c] \in States THEN Ok(c, served[c])
                          ELSE [NoAnswer EXCEPT !.result = "notFound"])
              /\ UNCHANGED errors
        /\ UNCHANGED <<served, hindrances, shown, caseId, enabled, confirming, timer, prompted>>

Serve(k) == ServeReset(k) \/ ServeStep(k) \/ ServeGet(k)

\* A platform event carries the case on without the page.
EventMovesCase(c) ==
    /\ \E m \in {"supplement", "verify"} :
         served[c] = Expects[m] /\ ~Refuses(m, hindrances[c])
    /\ served' = [served EXCEPT ![c] = Flow[Rank(@) + 1]]
    /\ UNCHANGED <<hindrances, shown, caseId, enabled, confirming, timer, tasks, prompted,
                   errors>>

\* Time passes; the vault, the platform or the account change; an event finds
\* an artifact damaged.
Hinders(c) ==
    /\ served[c] \in States
    /\ \E r \in Arising(served[c]) \ hindrances[c] :
         hindrances' = [hindrances EXCEPT ![c] = @ \cup {r}]
    /\ UNCHANGED <<served, shown, caseId, enabled, confirming, timer, tasks, prompted, errors>>

\* The vault is seeded again; the account is reinstated in another case.
HindrancePasses(c) ==
    /\ \E r \in hindrances[c] \cap Passing :
         hindrances' = [hindrances EXCEPT ![c] = @ \ {r}]
    /\ UNCHANGED <<served, shown, caseId, enabled, confirming, timer, tasks, prompted, errors>>

-----------------------------------------------------------------------------
(* What follows an await.                                                  *)

Answered(k, get) == tasks[k].stage = "answered" /\ tasks[k].get = get
AnswerTo(k) == tasks[k].answer
ViewOf(answer) == [case |-> answer.case, state |-> answer.state]
Ends(k) == tasks' = [tasks EXCEPT ![k] = IdleTask]

\* applyCase takes the case and its id; an execution's result only the case;
\* an export neither.
ActionSucceeds(k) ==
    /\ Answered(k, FALSE) /\ AnswerTo(k).result = "ok"
    /\ shown' = IF tasks[k].action = "export" THEN shown ELSE ViewOf(AnswerTo(k))
    /\ caseId' = IF tasks[k].action \in {"export", "run"} THEN caseId ELSE AnswerTo(k).case
    /\ UpdateButtons
    /\ Ends(k)
    /\ UNCHANGED <<served, hindrances, confirming, timer, prompted, errors>>

\* Mutants: the page shows the goal of an action that failed; a failed action
\* leaves the buttons disabled.
ActionFailsHopeful(k) ==
    /\ Answered(k, FALSE) /\ AnswerTo(k).result # "ok"
    /\ shown' = IF tasks[k].action \in StepButtons /\ tasks[k].case # None
                THEN [case |-> tasks[k].case, state |-> Goal[tasks[k].action]] ELSE shown
    /\ UpdateButtons
    /\ Ends(k)
    /\ UNCHANGED <<served, hindrances, caseId, confirming, timer, prompted, errors>>

\* The catch block: refresh the case, unless there is none or it is a reset.
ActionFails(k) ==
    /\ Answered(k, FALSE) /\ AnswerTo(k).result # "ok"
    /\ IF caseId # None /\ tasks[k].action # "reset"
       THEN /\ tasks' = [tasks EXCEPT ![k] = Sent(tasks[k].action, TRUE, caseId)]
            /\ UNCHANGED <<shown, enabled>>
       ELSE Ends(k) /\ UNCHANGED shown /\ UpdateButtons
    /\ UNCHANGED <<served, hindrances, caseId, confirming, timer, prompted, errors>>

\* Mutant: a case that is not found is shown all the same.
RefreshReturnsUnchecked(k) ==
    /\ Answered(k, TRUE)
    /\ IF AnswerTo(k).result = "error" THEN UNCHANGED shown ELSE shown' = ViewOf(AnswerTo(k))
    /\ UpdateButtons
    /\ Ends(k)
    /\ UNCHANGED <<served, hindrances, caseId, confirming, timer, prompted, errors>>

\* refreshCase.  The refresh of the page load leaves the buttons alone when it
\* fails; the others are followed by the finally block of runAction.
RefreshReturns(k) ==
    LET answer == AnswerTo(k)
    IN  /\ Answered(k, TRUE)
        /\ \/ answer.result = "ok" /\ shown' = ViewOf(answer) /\ UNCHANGED caseId
           \/ answer.result = "notFound" /\ shown' = None /\ caseId' = None
           \/ answer.result = "error" /\ UNCHANGED <<shown, caseId>>
        /\ IF tasks[k].action = "load" /\ answer.result = "error"
           THEN UNCHANGED enabled ELSE UpdateButtons
        /\ Ends(k)
        /\ UNCHANGED <<served, hindrances, confirming, timer, prompted, errors>>

Resume(k) == ActionSucceeds(k) \/ ActionFails(k) \/ RefreshReturns(k)

Next ==
    \/ \E b \in Confirmed : FirstClick(b)
    \/ ConfirmTimesOut
    \/ \E k \in Tasks : (\E b \in Buttons : Click(k, b)) \/ Serve(k) \/ Resume(k)
    \/ \E c \in Cases : EventMovesCase(c) \/ Hinders(c) \/ HindrancePasses(c)

Spec == Init /\ [][Next]_vars

\* Requests are answered, the page goes on, and a user who is offered a step
\* takes it sooner or later, whatever else is pressed before.
FairSpec ==
    /\ Spec
    /\ \A k \in Tasks : WF_vars(Serve(k)) /\ WF_vars(Resume(k))
    /\ \A b \in Confirmed : SF_vars(FirstClick(b))
    /\ \A b \in StepButtons : SF_vars(\E k \in Tasks : Click(k, b))

-----------------------------------------------------------------------------
(* Properties.                                                             *)

Settled == \A k \in Tasks : tasks[k] = IdleTask

\* The page is never ahead of the service: it shows a case as active, or any
\* further than it is, neither after a failed request nor after an answer that
\* was overtaken (applyCase, refreshCase).
SuccessIsReal == shown # None => Rank(shown.state) <= Rank(served[shown.case])

HeldBack(b, c) ==
    \E m \in Runs[b] : Expects[m] = served[c] /\ Refuses(m, hindrances[c])

\* At rest, a page that is up to date offers every step that would carry the
\* case on, and no other but the one that is held back for a reason beside the
\* state of the case: updateButtons, which knows the state alone, against the
\* guards of main.py.
OffersFit ==
    Settled /\ shown # None /\ (served[shown.case] = shown.state) =>
        enabled \cap StepButtons =
            {b \in StepButtons : \/ Reach(b, shown.case) # {shown.state}
                                 \/ HeldBack(b, shown.case)}


\* "Click again to grant consent" (index.html:1332): consent and mandate are
\* only ever sent for the case for which the first click asked.
ConsentWasPrompted ==
    \A k \in Tasks : tasks[k].action \in Confirmed /\ ~tasks[k].get
        => prompted[tasks[k].action] = tasks[k].case

=============================================================================

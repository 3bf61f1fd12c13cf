---------------------------- MODULE WorkspaceProofs ----------------------------
(***************************************************************************)
(* The page shows no case further than it is and, at rest, offers exactly  *)
(* the steps that carry the case on, or would but for a reason to refuse   *)
(* them, for any number of cases, running functions, errors and reasons.   *)
(*                                                                         *)
(* Neither is inductive.  A page may show next what an answer on its way   *)
(* says, so the answers must be true as well, and a case never goes back.  *)
(* The buttons need not fit while an action runs; they do when no function *)
(* runs but the refresh of the page load, which may leave them alone.      *)
(***************************************************************************)
EXTENDS Workspace, TLAPS

\* What is said of a case: it is at this state, or further.
Reached(c, state) ==
    /\ c \in Cases /\ state \in States
    /\ served[c] \in States /\ Rank(state) <= Rank(served[c])

AnswersTrue ==
    \A k \in Tasks : tasks[k].answer.result = "ok" =>
        Reached(tasks[k].answer.case, tasks[k].answer.state)

\* The page load is the one function that is no action of a button, and it is
\* a refresh from the start.
TasksNamed ==
    \A k \in Tasks : /\ tasks[k].action = "load" => tasks[k].get
                     /\ tasks[k].action = "none" => tasks[k].stage = "idle"

Acting(k) == tasks[k].action \in Buttons
ButtonsFit == shown # None => enabled \cap StepButtons = Offered(shown) \cap StepButtons

PageInv ==
    /\ TypeOK
    /\ shown # None => Reached(shown.case, shown.state)
    /\ AnswersTrue
    /\ TasksNamed
    /\ ButtonsFit \/ \E k \in Tasks : Acting(k)

-----------------------------------------------------------------------------
(* The states of a case and the steps between them.                        *)

\* The position of a state in the flow is its rank.
LEMMA RankOfState ==
    /\ DOMAIN Flow = 1 .. 7
    /\ \A n \in 1 .. 7 : Flow[n] \in States /\ Rank(Flow[n]) = n
    /\ \A s \in States : Rank(s) \in 1 .. 7 /\ Flow[Rank(s)] = s
<1>1. /\ DOMAIN Flow = 1 .. 7
      /\ Flow[1] = "NOTICE_RECEIVED" /\ Flow[2] = "PARSED" /\ Flow[3] = "CONSENTED"
      /\ Flow[4] = "MANDATE_APPROVED" /\ Flow[5] = "SUPPLEMENT_REQUESTED"
      /\ Flow[6] = "DECIDED_APPROVED" /\ Flow[7] = "ACCOUNT_ACTIVE"
  BY DEF Flow
<1>2. \A n \in 1 .. 7 : n \in {1, 2, 3, 4, 5, 6, 7}
  OBVIOUS
<1>3. \A m, n \in 1 .. 7 : Flow[m] = Flow[n] => m = n
  BY <1>1, <1>2
<1>4. \A n \in 1 .. 7 : Flow[n] \in States /\ Rank(Flow[n]) = n
  <2> SUFFICES ASSUME NEW n \in 1 .. 7 PROVE Flow[n] \in States /\ Rank(Flow[n]) = n
    OBVIOUS
  <2>1. n \in DOMAIN Flow /\ \A m \in DOMAIN Flow : Flow[m] = Flow[n] <=> m = n
    BY <1>1, <1>3
  <2> QED
    BY <2>1 DEF States, Rank
<1>5. \A s \in States : \E n \in 1 .. 7 : s = Flow[n]
  BY <1>1 DEF States
<1> QED
  BY <1>1, <1>4, <1>5

LEMMA FlowStates ==
    /\ States = {"NOTICE_RECEIVED", "PARSED", "CONSENTED", "MANDATE_APPROVED",
                 "SUPPLEMENT_REQUESTED", "DECIDED_APPROVED", "ACCOUNT_ACTIVE"}
    /\ Rank("NOTICE_RECEIVED") = 1 /\ Rank("PARSED") = 2 /\ Rank("CONSENTED") = 3
    /\ Rank("MANDATE_APPROVED") = 4 /\ Rank("SUPPLEMENT_REQUESTED") = 5
    /\ Rank("DECIDED_APPROVED") = 6 /\ Rank("ACCOUNT_ACTIVE") = 7
<1>1. /\ DOMAIN Flow = 1 .. 7
      /\ Flow[1] = "NOTICE_RECEIVED" /\ Flow[2] = "PARSED" /\ Flow[3] = "CONSENTED"
      /\ Flow[4] = "MANDATE_APPROVED" /\ Flow[5] = "SUPPLEMENT_REQUESTED"
      /\ Flow[6] = "DECIDED_APPROVED" /\ Flow[7] = "ACCOUNT_ACTIVE"
  BY DEF Flow
<1>2. \A n \in 1 .. 7 : n \in {1, 2, 3, 4, 5, 6, 7}
  OBVIOUS
<1>3. \A n \in {1, 2, 3, 4, 5, 6, 7} : n \in 1 .. 7 /\ Rank(Flow[n]) = n
  BY RankOfState
<1>4. States = {Flow[n] : n \in {1, 2, 3, 4, 5, 6, 7}}
  BY <1>1, <1>2 DEF States
<1> QED
  BY <1>1, <1>3, <1>4

\* The table of the page and the guards of the service agree on the states.
LEMMA ExpectedSteps ==
    \A b \in StepButtons :
        /\ Goal[b] \in States /\ Runs[b] \subseteq Methods
        /\ \A s \in States : s \in ReadyAt[b] <=> \E m \in Runs[b] : Expects[m] = s
BY FlowStates DEF StepButtons, Confirmed, ReadyAt, RunStates, Goal, Runs, Methods, Expects

\* Each method takes the case from the state it expects to the one after it.
LEMMA FlowOfMethods ==
    /\ \A m \in Methods : Rank(Expects[m]) \in 1 .. 6
    /\ \A m, n \in Methods : Rank(Expects[m]) = Rank(Expects[n]) => m = n
    /\ \A s \in States : Rank(s) < 7 => \E m \in Methods : Expects[m] = s
BY FlowStates DEF Methods, Expects

\* A step carries a case on, or is held back, where one of its methods expects it.
LEMMA ReachedSteps ==
    ASSUME NEW b \in StepButtons, NEW c \in Cases, served[c] \in States
    PROVE  (Reach(b, c) # {served[c]} \/ HeldBack(b, c))
               <=> \E m \in Runs[b] : Expects[m] = served[c]
<1>1. served[c] \in Reach(b, c)
  BY RankOfState, FlowOfMethods DEF Reach
<1>2. ASSUME NEW s \in Reach(b, c), s # served[c]
      PROVE  \E m \in Runs[b] : Expects[m] = served[c]
  <2>1. Rank(served[c]) < Rank(s) /\ Rank(s) \in 1 .. 7 /\ Rank(served[c]) \in 1 .. 7
    BY <1>2, RankOfState DEF Reach
  <2>2. PICK m \in Methods : Expects[m] = served[c]
    BY <2>1, RankOfState, FlowOfMethods
  <2> QED
    BY <2>1, <2>2, RankOfState DEF Reach
<1>3. ASSUME NEW m \in Runs[b], Expects[m] = served[c], ~Refuses(m, hindrances[c])
      PROVE  \E s \in Reach(b, c) : s # served[c]
  <2> DEFINE s == Flow[Rank(served[c]) + 1]
  <2>1. m \in Methods
    BY ExpectedSteps
  <2>2. Rank(served[c]) \in 1 .. 6
    BY <1>3, <2>1, FlowOfMethods
  <2>3. s \in States /\ Rank(s) = Rank(served[c]) + 1
    BY <2>2, RankOfState
  <2> HIDE DEF s
  <2>4. \A n \in Methods :
           Rank(served[c]) <= Rank(Expects[n]) /\ Rank(Expects[n]) < Rank(s) => n = m
    BY <1>3, <2>1, <2>2, <2>3, FlowOfMethods
  <2>5. s \in Reach(b, c)
    BY <1>3, <2>2, <2>3, <2>4 DEF Reach
  <2> QED
    BY <2>2, <2>3, <2>5
<1> QED
  BY <1>1, <1>2, <1>3 DEF HeldBack

\* Every reason is one of the known ones.
LEMMA ReasonsKnown ==
    /\ \A m \in Methods : RefusedFor[m] \subseteq Reasons
    /\ \A state : Arising(state) \subseteq Reasons
    /\ \A b, state : \A x \in LeftOut(b, state) : x \subseteq Reasons
BY PerilsAssumption DEF Reasons, Arising, LeftOut

\* No case goes back.
ServedGrows ==
    \A c \in Cases : served[c] \in States =>
        served'[c] \in States /\ Rank(served[c]) <= Rank(served'[c])

LEMMA ReachedStays ==
    ASSUME ServedGrows, NEW c, NEW state, Reached(c, state)
    PROVE  c \in Cases /\ state \in States /\ served'[c] \in States
               /\ Rank(state) <= Rank(served'[c])
BY RankOfState DEF ServedGrows, Reached

\* The records the steps are built from have their types.
LEMMA DataTyped ==
    /\ NoAnswer \in Answer /\ Refusal \in Answer /\ [NoAnswer EXCEPT !.result = "notFound"] \in Answer
    /\ \A c \in Cases, s \in States :
         Ok(c, s) \in Answer /\ Ok(c, s).case = c /\ Ok(c, s).state = s
    /\ IdleTask \in Task
    /\ \A action \in Buttons \cup {"load"}, get \in BOOLEAN, c \in Cases \cup {None} :
         Sent(action, get, c) \in Task
<1>1. /\ NoAnswer \in Answer /\ Refusal \in Answer
      /\ [NoAnswer EXCEPT !.result = "notFound"] \in Answer
      /\ \A c \in Cases, s \in States : Ok(c, s) \in Answer /\ Ok(c, s).case = c /\ Ok(c, s).state = s
  BY DEF NoAnswer, Refusal, Answer, Ok
<1>2. IdleTask \in Task
  BY <1>1 DEF IdleTask, Task
<1>3. ASSUME NEW action \in Buttons \cup {"load"}, NEW get \in BOOLEAN, NEW c \in Cases \cup {None}
      PROVE  Sent(action, get, c) \in Task
  BY <1>2 DEF Sent, IdleTask, Task
<1> QED
  BY <1>1, <1>2, <1>3

LEMMA ReplyShape ==
    ASSUME TypeOK, NEW k \in Tasks, NEW x \in Answer, Reply(k, x)
    PROVE  /\ tasks' \in [Tasks -> Task]
           /\ tasks'[k].answer = x
           /\ tasks'[k].action = tasks[k].action /\ tasks'[k].get = tasks[k].get
           /\ \A j \in Tasks : j # k => tasks'[j] = tasks[j]
<1>1. tasks[k] \in Task
  BY DEF TypeOK
<1> DEFINE task == [tasks[k] EXCEPT !.stage = "answered", !.answer = x]
<1>2. /\ task \in Task /\ task.answer = x
      /\ task.action = tasks[k].action /\ task.get = tasks[k].get
  BY <1>1 DEF Task
<1>3. tasks' = [tasks EXCEPT ![k] = task]
  BY <1>1 DEF Reply, TypeOK, Task
<1> HIDE DEF task
<1> QED
  BY <1>2, <1>3 DEF TypeOK

-----------------------------------------------------------------------------
(* The service: what it answers is true, and stays true.                   *)

ServiceStep(k) ==
    /\ served' \in [Cases -> Served] /\ ServedGrows
    /\ hindrances' \in [Cases -> SUBSET Reasons]
    /\ errors' \in 0 .. MaxErrors
    /\ \E x \in Answer :
         /\ Reply(k, x)
         /\ x.result = "ok" => /\ x.case \in Cases /\ x.state \in States
                              /\ served'[x.case] \in States
                              /\ Rank(x.state) <= Rank(served'[x.case])
    /\ UNCHANGED <<shown, caseId, enabled, confirming, timer, prompted>>

LEMMA FailsAnswer ==
    ASSUME TypeOK, NEW k \in Tasks, Fails(k)
    PROVE  /\ errors' \in 0 .. MaxErrors
           /\ Reply(k, Refusal) /\ Refusal \in Answer /\ Refusal.result = "error"
BY DataTyped, ErrorsAssumption DEF TypeOK, Fails, Refusal, NoAnswer

LEMMA ResetAnswers ==
    ASSUME TypeOK, NEW k \in Tasks, ServeReset(k)
    PROVE  ServiceStep(k)
<1>1. Refusal \in Answer /\ Refusal.result = "error"
  BY DataTyped DEF Refusal, NoAnswer
<1>2. CASE UNCHANGED <<served, hindrances>>
  <2>1. ServedGrows
    BY <1>2, RankOfState DEF ServedGrows
  <2>2. errors' \in 0 .. MaxErrors /\ Reply(k, Refusal)
    BY <1>2, FailsAnswer, FlowStates DEF ServeReset, TypeOK
  <2> QED
    BY <1>1, <1>2, <2>1, <2>2 DEF ServeReset, ServiceStep, TypeOK
<1>3. ASSUME NEW c \in Cases, served[c] = "ABSENT",
             served' = [served EXCEPT ![c] = "NOTICE_RECEIVED"], UNCHANGED hindrances,
             (Reply(k, Ok(c, "NOTICE_RECEIVED")) /\ UNCHANGED errors) \/ Fails(k)
      PROVE  ServiceStep(k)
  <2>1. ServedGrows /\ served' \in [Cases -> Served] /\ served'[c] = "NOTICE_RECEIVED"
    BY <1>3, FlowStates, RankOfState DEF ServedGrows, TypeOK, Served
  <2>2. Ok(c, "NOTICE_RECEIVED") \in Answer
        /\ Ok(c, "NOTICE_RECEIVED").case = c /\ Ok(c, "NOTICE_RECEIVED").state = "NOTICE_RECEIVED"
    BY FlowStates, DataTyped
  <2>3. CASE Reply(k, Ok(c, "NOTICE_RECEIVED")) /\ UNCHANGED errors
    BY <1>3, <2>1, <2>2, <2>3, FlowStates DEF ServiceStep, ServeReset, TypeOK
  <2>4. CASE Fails(k)
    BY <1>1, <1>3, <2>1, <2>4, FailsAnswer DEF ServiceStep, ServeReset, TypeOK
  <2> QED
    BY <1>3, <2>3, <2>4
<1> QED
  BY <1>2, <1>3 DEF ServeReset

\* A method leaves a case where it was or further on.
LEMMA LeavesGrows ==
    ASSUME TypeOK, NEW c \in Cases, served[c] \in States, NEW s \in States,
           Rank(served[c]) <= Rank(s), NEW x \in SUBSET Reasons, Leaves(c, s, x)
    PROVE  /\ ServedGrows /\ served' \in [Cases -> Served] /\ served'[c] = s
           /\ hindrances' \in [Cases -> SUBSET Reasons]
<1>1. ServedGrows /\ served' \in [Cases -> Served] /\ served'[c] = s
  BY RankOfState DEF Leaves, ServedGrows, TypeOK, Served
<1>2. hindrances' \in [Cases -> SUBSET Reasons]
  BY DEF Leaves, TypeOK
<1> QED
  BY <1>1, <1>2

LEMMA StepAnswers ==
    ASSUME TypeOK, NEW k \in Tasks, ServeStep(k)
    PROVE  ServiceStep(k)
<1>1. Refusal \in Answer /\ Refusal.result = "error"
  BY DataTyped DEF Refusal, NoAnswer
<1>2. PICK b \in StepButtons, c \in Cases \cup {None} : b = tasks[k].action /\ c = tasks[k].case
  BY DEF ServeStep, TypeOK, Task
<1>3. CASE UNCHANGED <<served, hindrances, errors>> /\ Reply(k, Refusal)
  <2>1. ServedGrows
    BY <1>3, RankOfState DEF ServedGrows
  <2> QED
    BY <1>1, <1>3, <2>1 DEF ServeStep, ServiceStep, TypeOK
<1>4. ASSUME c \in Cases, served[c] \in States, NEW s \in Reach(b, c),
             NEW x \in SUBSET Reasons, Leaves(c, s, x),
             \/ Fails(k)
             \/ s = Goal[b] /\ Reply(k, Ok(c, s)) /\ UNCHANGED errors
             \/ Reply(k, Refusal) /\ UNCHANGED errors
      PROVE  ServiceStep(k)
  <2>1. s \in States /\ Rank(served[c]) <= Rank(s)
    BY DEF Reach
  <2>2. /\ ServedGrows /\ served' \in [Cases -> Served] /\ served'[c] = s
        /\ hindrances' \in [Cases -> SUBSET Reasons]
    BY <1>4, <2>1, LeavesGrows
  <2>3. Ok(c, s) \in Answer /\ Ok(c, s).case = c /\ Ok(c, s).state = s
    BY <1>4, <2>1, DataTyped
  <2>4. CASE Reply(k, Ok(c, s)) /\ UNCHANGED errors
    BY <1>4, <2>1, <2>2, <2>3, <2>4, RankOfState DEF ServiceStep, ServeStep, TypeOK
  <2>5. CASE Fails(k)
    BY <1>1, <2>2, <2>5, FailsAnswer DEF ServiceStep, ServeStep
  <2>6. CASE Reply(k, Refusal) /\ UNCHANGED errors
    BY <1>1, <2>2, <2>6 DEF ServiceStep, ServeStep, TypeOK
  <2> QED
    BY <1>4, <2>4, <2>5, <2>6
<1>5. \/ UNCHANGED <<served, hindrances, errors>> /\ Reply(k, Refusal)
      \/ /\ c \in Cases /\ served[c] \in States
         /\ \E s \in Reach(b, c), x \in SUBSET Reasons :
              /\ Leaves(c, s, x)
              /\ \/ Fails(k)
                 \/ s = Goal[b] /\ Reply(k, Ok(c, s)) /\ UNCHANGED errors
                 \/ Reply(k, Refusal) /\ UNCHANGED errors
  <2> DEFINE admitted == c # None /\ served[c] \in States /\ Admits(b, served[c])
  <2>1. CASE /\ admitted /\ Goal[b] \in Reach(b, c)
             /\ \E x \in LeftOut(b, Goal[b]) : Leaves(c, Goal[b], x)
             /\ Reply(k, Ok(c, Goal[b])) /\ UNCHANGED errors
    BY <1>2, <2>1, ReasonsKnown
  <2>2. CASE /\ admitted /\ Fails(k)
             /\ \E s \in Reach(b, c) : \E x \in LeftOut(b, s) : Leaves(c, s, x)
    BY <1>2, <2>2, ReasonsKnown
  <2>3. CASE /\ admitted /\ Reply(k, Refusal) /\ UNCHANGED errors
             /\ \E s \in Reach(b, c), m \in Runs[b] :
                  \E r \in RefusedFor[m] \cap (hindrances[c] \cup Arising(s)) :
                     Leaves(c, s, {r})
    <3>1. PICK s \in Reach(b, c), m \in Runs[b] : \E r \in RefusedFor[m] : Leaves(c, s, {r})
      BY <2>3
    <3> PICK r \in RefusedFor[m] : Leaves(c, s, {r})
      BY <3>1
    <3>2. m \in Methods
      BY ExpectedSteps
    <3>3. {r} \in SUBSET Reasons
      BY <3>2, ReasonsKnown
    <3> QED
      BY <1>2, <2>3, <3>3
  <2>4. CASE ~admitted /\ Reply(k, Refusal) /\ UNCHANGED <<served, hindrances, errors>>
    BY <2>4
  <2> QED
    BY <1>2, <2>1, <2>2, <2>3, <2>4 DEF ServeStep
<1> QED
  BY <1>3, <1>4, <1>5

LEMMA GetAnswers ==
    ASSUME TypeOK, NEW k \in Tasks, ServeGet(k)
    PROVE  ServiceStep(k)
<1>1. PICK c \in Cases \cup {None} : c = tasks[k].case
  BY DEF TypeOK, Task
<1>2. /\ ServedGrows /\ served' \in [Cases -> Served]
      /\ hindrances' \in [Cases -> SUBSET Reasons]
  BY RankOfState DEF ServeGet, ServedGrows, TypeOK
<1>3. CASE Fails(k)
  BY <1>2, <1>3, FailsAnswer DEF ServiceStep, ServeGet
<1>4. CASE Reply(k, [NoAnswer EXCEPT !.result = "notFound"]) /\ UNCHANGED errors
  <2>1. [NoAnswer EXCEPT !.result = "notFound"].result # "ok"
    BY DEF NoAnswer
  <2> QED
    BY <1>2, <1>4, <2>1, DataTyped DEF ServiceStep, ServeGet, TypeOK
<1>5. CASE /\ c # None /\ served[c] \in States
           /\ Reply(k, Ok(c, served[c])) /\ UNCHANGED errors
  <2>1. Ok(c, served[c]) \in Answer /\ Ok(c, served[c]).case = c /\ Ok(c, served[c]).state = served[c]
    BY <1>5, DataTyped
  <2> QED
    BY <1>2, <1>5, <2>1, RankOfState DEF ServiceStep, ServeGet, TypeOK
<1> QED
  BY <1>1, <1>3, <1>4, <1>5 DEF ServeGet

LEMMA ServeIsService ==
    ASSUME TypeOK, NEW k \in Tasks, Serve(k)
    PROVE  ServiceStep(k)
BY ResetAnswers, StepAnswers, GetAnswers DEF Serve

\* What was shown or answered stays true while cases only go on.
LEMMA TruthStays ==
    ASSUME PageInv, ServedGrows, UNCHANGED shown,
           \A k \in Tasks : tasks'[k].answer = tasks[k].answer \/ tasks'[k].answer.result # "ok"
    PROVE  /\ shown' # None => Reached(shown.case, shown.state)'
           /\ AnswersTrue'
<1>1. shown # None => Reached(shown.case, shown.state)'
  BY ReachedStays DEF PageInv, Reached
<1>2. AnswersTrue'
  BY ReachedStays DEF PageInv, AnswersTrue, Reached
<1> QED
  BY <1>1, <1>2

LEMMA ServeKeeps ==
    ASSUME PageInv, NEW k \in Tasks, Serve(k)
    PROVE  PageInv'
<1>1. TypeOK
  BY DEF PageInv
<1>2. ServiceStep(k)
  BY <1>1, ServeIsService
<1>3. PICK x \in Answer :
        /\ Reply(k, x)
        /\ x.result = "ok" => /\ x.case \in Cases /\ x.state \in States
                             /\ served'[x.case] \in States
                             /\ Rank(x.state) <= Rank(served'[x.case])
  BY <1>2 DEF ServiceStep
<1>4. /\ tasks' \in [Tasks -> Task] /\ tasks'[k].answer = x
      /\ tasks'[k].action = tasks[k].action /\ tasks'[k].get = tasks[k].get
      /\ \A j \in Tasks : j # k => tasks'[j] = tasks[j]
  BY <1>1, <1>3, ReplyShape
<1>5. TypeOK'
  BY <1>1, <1>2, <1>4 DEF TypeOK, ServiceStep
<1>6. shown' # None => Reached(shown.case, shown.state)'
  BY <1>2, ReachedStays DEF PageInv, ServiceStep, Reached
<1>7. AnswersTrue'
  <2> SUFFICES ASSUME NEW j \in Tasks, tasks'[j].answer.result = "ok",
                      NEW y, y = tasks'[j].answer
               PROVE  /\ y.case \in Cases /\ y.state \in States /\ served'[y.case] \in States
                      /\ Rank(y.state) <= Rank(served'[y.case])
    BY DEF AnswersTrue, Reached
  <2>1. CASE j = k
    BY <1>3, <1>4, <2>1
  <2>2. CASE j # k
    <3>1. Reached(y.case, y.state)
      BY <1>4, <2>2 DEF PageInv, AnswersTrue
    <3> QED
      BY <1>2, <3>1, ReachedStays DEF ServiceStep
  <2> QED
    BY <2>1, <2>2
<1>8. \A j \in Tasks : tasks'[j].action = tasks[j].action /\ tasks'[j].get = tasks[j].get
  BY <1>4
<1>9. tasks[k].action # "none"
  BY DEF PageInv, TasksNamed, Serve, ServeReset, ServeStep, ServeGet
<1>10. TasksNamed' /\ (ButtonsFit \/ \E j \in Tasks : Acting(j))'
  BY <1>2, <1>4, <1>8, <1>9 DEF PageInv, TasksNamed, ButtonsFit, Acting, ServiceStep
<1> QED
  BY <1>5, <1>6, <1>7, <1>10 DEF PageInv

\* A platform event takes a case one state on.
LEMMA EventKeeps ==
    ASSUME PageInv, NEW c \in Cases, EventMovesCase(c)
    PROVE  PageInv'
<1>1. PICK s \in States : s = served[c] /\ Rank(s) \in {5, 6}
  BY FlowStates DEF EventMovesCase, Expects
<1>2. Rank(s) + 1 \in 1 .. 7
  BY <1>1
<1>3. Flow[Rank(s) + 1] \in States /\ Rank(Flow[Rank(s) + 1]) = Rank(s) + 1
  BY <1>2, RankOfState
<1>4. served' = [served EXCEPT ![c] = Flow[Rank(s) + 1]]
  BY <1>1 DEF EventMovesCase
<1>5. served' \in [Cases -> Served] /\ ServedGrows
  BY <1>1, <1>3, <1>4, RankOfState DEF PageInv, TypeOK, ServedGrows, Served
<1>6. UNCHANGED <<hindrances, shown, caseId, enabled, confirming, timer, tasks, prompted,
                 errors>>
  BY DEF EventMovesCase
<1>7. TypeOK'
  BY <1>5, <1>6 DEF PageInv, TypeOK
<1>8. (shown' # None => Reached(shown.case, shown.state)') /\ AnswersTrue'
  BY <1>5, <1>6, TruthStays
<1> QED
  BY <1>6, <1>7, <1>8 DEF PageInv, TasksNamed, ButtonsFit, Acting

-----------------------------------------------------------------------------
(* The user and the page.                                                  *)

\* Steps that leave the cases, the page and the running functions alone.
LEMMA ConfirmKeeps ==
    ASSUME PageInv,
           \/ (\E b \in Confirmed : FirstClick(b)) \/ ConfirmTimesOut \/ UNCHANGED vars
           \/ \E c \in Cases : Hinders(c) \/ HindrancePasses(c)
    PROVE  PageInv'
<1>1. UNCHANGED <<served, shown, caseId, enabled, tasks, errors>>
  BY DEF FirstClick, ConfirmTimesOut, Hinders, HindrancePasses, vars
<1>2. hindrances' \in [Cases -> SUBSET Reasons]
  <2>1. CASE UNCHANGED hindrances
    BY <2>1 DEF PageInv, TypeOK
  <2>2. ASSUME NEW c \in Cases, Hinders(c) \/ HindrancePasses(c)
        PROVE  \E x \in SUBSET Reasons : hindrances' = [hindrances EXCEPT ![c] = x]
    BY <2>2, ReasonsKnown DEF Hinders, HindrancePasses, PageInv, TypeOK
  <2> QED
    BY <2>1, <2>2 DEF FirstClick, ConfirmTimesOut, vars, PageInv, TypeOK
<1>3. UNCHANGED <<confirming, timer, prompted>> \/ (\E b \in Confirmed : FirstClick(b))
      \/ ConfirmTimesOut
  BY DEF Hinders, HindrancePasses, vars
<1>4. TypeOK'
  BY <1>1, <1>2, <1>3 DEF PageInv, TypeOK, FirstClick, ConfirmTimesOut
<1> QED
  BY <1>1, <1>4 DEF PageInv, AnswersTrue, TasksNamed, ButtonsFit, Acting, Reached

\* A click starts an action, or ends at once with nothing shown.
LEMMA ClickKeeps ==
    ASSUME PageInv, NEW k \in Tasks, NEW b \in Buttons, Click(k, b)
    PROVE  PageInv'
<1>1. /\ TypeOK /\ UNCHANGED <<served, hindrances, caseId, prompted, errors>>
      /\ tasks[k] = IdleTask
      /\ confirming' \subseteq Confirmed /\ timer' = None
  BY DEF PageInv, TypeOK, Click
<1>2. CASE b = "case" /\ caseId = None
  <2>1. shown' = None /\ enabled' = Offered(None) /\ UNCHANGED tasks
    BY <1>2 DEF Click
  <2>2. enabled' \subseteq Buttons
    BY <2>1 DEF Offered, Buttons
  <2>3. TypeOK'
    BY <1>1, <2>1, <2>2 DEF TypeOK
  <2> QED
    BY <1>1, <2>1, <2>3 DEF PageInv, AnswersTrue, Reached, TasksNamed, ButtonsFit
<1>3. CASE ~(b = "case" /\ caseId = None)
  <2>1. PICK c \in Cases \cup {None}, g \in BOOLEAN :
          /\ tasks' = [tasks EXCEPT ![k] = Sent(b, g, c)]
          /\ enabled' = {} /\ UNCHANGED shown
    BY <1>1, <1>3 DEF Click, TypeOK
  <2>2. /\ Sent(b, g, c) \in Task /\ Sent(b, g, c).action = b
        /\ Sent(b, g, c).answer.result = "none" /\ b # "load" /\ b # "none"
    BY DataTyped DEF Sent, IdleTask, NoAnswer, Buttons, StepButtons, Confirmed
  <2>3. TypeOK'
    BY <1>1, <2>1, <2>2 DEF TypeOK
  <2>4. \A j \in Tasks : IF j = k THEN /\ tasks'[j].action = b /\ b \in Buttons \ {"load", "none"}
                                        /\ tasks'[j].answer.result = "none"
                           ELSE tasks'[j] = tasks[j]
    BY <1>1, <2>1, <2>2 DEF TypeOK
  <2>5. AnswersTrue' /\ (shown' # None => Reached(shown.case, shown.state)')
    BY <1>1, <2>1, <2>4 DEF PageInv, AnswersTrue, Reached
  <2>6. TasksNamed' /\ Acting(k)'
    BY <2>4 DEF PageInv, TasksNamed, Acting
  <2> QED
    BY <2>3, <2>5, <2>6 DEF PageInv
<1> QED
  BY <1>2, <1>3

\* updateButtons makes the buttons fit whatever is shown by then.
LEMMA UpdatedButtons ==
    TypeOK /\ UpdateButtons => ButtonsFit' /\ enabled' \subseteq Buttons
<1>1. "case" \notin StepButtons /\ "case" \in Buttons
  BY DEF StepButtons, Confirmed, Buttons
<1>2. Offered(shown') \subseteq Buttons
  BY DEF Offered, Buttons
<1> QED
  BY <1>1, <1>2 DEF UpdateButtons, ButtonsFit

\* A function that ends leaves an answer of nobody behind.
LEMMA EndsShape ==
    ASSUME TypeOK, NEW k \in Tasks, Ends(k)
    PROVE  /\ tasks' \in [Tasks -> Task]
           /\ tasks'[k].answer.result = "none" /\ tasks'[k].action = "none"
           /\ tasks'[k].stage = "idle"
           /\ \A j \in Tasks : j # k => tasks'[j] = tasks[j]
BY DataTyped DEF TypeOK, Ends, IdleTask, NoAnswer

\* A function that ends, showing the truth or nothing new.
LEMMA EndKeeps ==
    ASSUME PageInv, NEW k \in Tasks, Ends(k),
           UNCHANGED <<served, hindrances, confirming, timer, prompted, errors>>,
           caseId' \in Cases \cup {None},
           \/ UNCHANGED shown \/ shown' = None
           \/ \E c \in Cases, s \in States : Reached(c, s) /\ shown' = [case |-> c, state |-> s],
           \/ UpdateButtons
           \/ UNCHANGED <<shown, enabled>> /\ tasks[k].action = "load"
    PROVE  PageInv'
<1>1. TypeOK
  BY DEF PageInv
<1>2. /\ tasks' \in [Tasks -> Task]
      /\ tasks'[k].answer.result = "none" /\ tasks'[k].action = "none"
      /\ tasks'[k].stage = "idle"
      /\ \A j \in Tasks : j # k => tasks'[j] = tasks[j]
  BY <1>1, EndsShape
<1>3. shown' \in View \cup {None}
  BY <1>1 DEF TypeOK, View
<1>4. enabled' \subseteq Buttons
  BY <1>1, UpdatedButtons DEF TypeOK
<1>5. TypeOK'
  BY <1>1, <1>2, <1>3, <1>4 DEF TypeOK
<1>6. shown' # None => Reached(shown.case, shown.state)'
  <2>1. CASE UNCHANGED shown
    BY <2>1 DEF PageInv, Reached
  <2>2. ASSUME NEW c \in Cases, NEW s \in States, Reached(c, s), shown' = [case |-> c, state |-> s]
        PROVE  Reached(shown.case, shown.state)'
    BY <2>2 DEF Reached
  <2> QED
    BY <2>1, <2>2
<1>7. AnswersTrue' /\ TasksNamed'
  BY <1>2 DEF PageInv, AnswersTrue, TasksNamed, Reached
<1>8. (ButtonsFit \/ \E j \in Tasks : Acting(j))'
  <2>1. CASE UpdateButtons
    BY <1>1, <2>1, UpdatedButtons
  <2>2. CASE UNCHANGED <<shown, enabled>> /\ tasks[k].action = "load"
    <3>1. "load" \notin Buttons
      BY DEF Buttons, StepButtons, Confirmed
    <3> QED
      BY <1>2, <2>2, <3>1 DEF PageInv, ButtonsFit, Acting
  <2> QED
    BY <2>1, <2>2
<1> QED
  BY <1>5, <1>6, <1>7, <1>8 DEF PageInv

LEMMA ActionSucceedsKeeps ==
    ASSUME PageInv, NEW k \in Tasks, ActionSucceeds(k)
    PROVE  PageInv'
<1>1. PICK x \in Answer : x = tasks[k].answer /\ x.result = "ok" /\ Reached(x.case, x.state)
  BY DEF PageInv, TypeOK, Task, AnswersTrue, ActionSucceeds, AnswerTo
<1>2. \/ UNCHANGED shown
      \/ \E c \in Cases, s \in States : Reached(c, s) /\ shown' = [case |-> c, state |-> s]
  BY <1>1 DEF ActionSucceeds, ViewOf, AnswerTo, Reached
<1>3. caseId' \in Cases \cup {None}
  BY <1>1 DEF ActionSucceeds, AnswerTo, Reached, PageInv, TypeOK
<1> QED
  BY <1>2, <1>3, EndKeeps DEF ActionSucceeds

\* A failed action goes on as a refresh, still the action of its button.
LEMMA ActionFailsKeeps ==
    ASSUME PageInv, NEW k \in Tasks, ActionFails(k)
    PROVE  PageInv'
<1>1. TypeOK /\ UNCHANGED <<served, hindrances, caseId, confirming, timer, prompted, errors>>
  BY DEF PageInv, ActionFails
<1>2. CASE Ends(k) /\ UNCHANGED shown /\ UpdateButtons
  BY <1>1, <1>2, EndKeeps DEF TypeOK
<1>3. CASE /\ tasks' = [tasks EXCEPT ![k] = Sent(tasks[k].action, TRUE, caseId)]
           /\ UNCHANGED <<shown, enabled>>
  <2>1. PICK b \in Buttons : b = tasks[k].action
    <3>1. tasks[k] \in Task /\ tasks[k].stage = "answered" /\ tasks[k].get = FALSE
      BY <1>1 DEF ActionFails, Answered, TypeOK
    <3>2. tasks[k].action # "load"
      BY <3>1 DEF PageInv, TasksNamed
    <3>3. tasks[k].action # "none"
      BY <3>1 DEF PageInv, TasksNamed
    <3> QED
      BY <3>1, <3>2, <3>3 DEF Task
  <2>2. /\ Sent(b, TRUE, caseId) \in Task /\ Sent(b, TRUE, caseId).action = b
        /\ Sent(b, TRUE, caseId).get /\ Sent(b, TRUE, caseId).answer.result = "none"
        /\ b # "none"
    BY <1>1, DataTyped DEF TypeOK, Sent, IdleTask, NoAnswer, Buttons, StepButtons, Confirmed
  <2>3. TypeOK'
    BY <1>1, <1>3, <2>1, <2>2 DEF TypeOK
  <2>4. \A j \in Tasks : IF j = k THEN /\ tasks'[j].action = b /\ b # "none" /\ tasks'[j].get
                                        /\ tasks'[j].answer.result = "none"
                           ELSE tasks'[j] = tasks[j]
    BY <1>1, <1>3, <2>1, <2>2 DEF TypeOK
  <2>5. AnswersTrue' /\ TasksNamed' /\ (shown' # None => Reached(shown.case, shown.state)')
    BY <1>1, <1>3, <2>4 DEF PageInv, AnswersTrue, TasksNamed, Reached
  <2>6. Acting(k)'
    BY <2>4 DEF Acting
  <2> QED
    BY <2>3, <2>5, <2>6 DEF PageInv
<1> QED
  BY <1>2, <1>3 DEF ActionFails

LEMMA RefreshReturnsKeeps ==
    ASSUME PageInv, NEW k \in Tasks, RefreshReturns(k)
    PROVE  PageInv'
<1>1. PICK x \in Answer : x = tasks[k].answer /\ (x.result = "ok" => Reached(x.case, x.state))
  BY DEF PageInv, TypeOK, Task, AnswersTrue
<1>2. \/ UNCHANGED shown \/ shown' = None
      \/ \E c \in Cases, s \in States : Reached(c, s) /\ shown' = [case |-> c, state |-> s]
  BY <1>1 DEF RefreshReturns, ViewOf, AnswerTo, Reached
<1>3. caseId' \in Cases \cup {None}
  BY DEF RefreshReturns, PageInv, TypeOK
<1>4. \/ UpdateButtons
      \/ UNCHANGED <<shown, enabled>> /\ tasks[k].action = "load"
  BY DEF RefreshReturns, AnswerTo
<1> QED
  BY <1>2, <1>3, <1>4, EndKeeps DEF RefreshReturns

-----------------------------------------------------------------------------
(* Theorems.                                                               *)

LEMMA InitPage == Init => PageInv
<1> SUFFICES ASSUME Init PROVE PageInv
  OBVIOUS
<1>1. PICK k \in Tasks :
        tasks = [j \in Tasks |-> IF j = k /\ caseId # None
                                 THEN Sent("load", TRUE, caseId) ELSE IdleTask]
  BY DEF Init
<1>2. /\ Sent("load", TRUE, caseId) \in Task /\ Sent("load", TRUE, caseId).get
      /\ Sent("load", TRUE, caseId).answer.result = "none"
      /\ Sent("load", TRUE, caseId).action = "load"
      /\ IdleTask \in Task /\ IdleTask.answer.result = "none"
      /\ IdleTask.action = "none" /\ IdleTask.stage = "idle"
  BY DataTyped DEF Init, Sent, IdleTask, NoAnswer
<1>3. TypeOK
  <2>1. tasks \in [Tasks -> Task]
    BY <1>1, <1>2
  <2>2. prompted \in [Confirmed -> Cases \cup {None}] /\ errors \in 0 .. MaxErrors
    BY ErrorsAssumption DEF Init
  <2>3. enabled \subseteq Buttons /\ confirming \subseteq Confirmed
    BY DEF Init, Buttons
  <2> QED
    BY <2>1, <2>2, <2>3 DEF Init, TypeOK
<1>4. AnswersTrue /\ TasksNamed
  BY <1>1, <1>2 DEF AnswersTrue, TasksNamed
<1> QED
  BY <1>3, <1>4 DEF Init, PageInv, ButtonsFit

LEMMA NextPage == PageInv /\ [Next]_vars => PageInv'
BY ServeKeeps, EventKeeps, ConfirmKeeps, ClickKeeps,
   ActionSucceedsKeeps, ActionFailsKeeps, RefreshReturnsKeeps DEF Next, Resume

\* The inductive invariant of the page and what is on its way to it.
THEOREM PageInvariant == Spec => []PageInv
BY InitPage, NextPage, PTL DEF Spec

\* The page keeps its types (index.html, the state of the script).
THEOREM TypeCorrect == Spec => []TypeOK
<1>1. PageInv => TypeOK
  BY DEF PageInv
<1> QED
  BY <1>1, PageInvariant, PTL

\* The page never shows a case further than the service has it, whatever
\* answers overtake each other (applyCase, refreshCase).
THEOREM ShownIsReal == Spec => []SuccessIsReal
<1>1. PageInv => SuccessIsReal
  BY DEF PageInv, SuccessIsReal, Reached
<1> QED
  BY <1>1, PageInvariant, PTL

\* At rest, an up-to-date page offers exactly the steps that would carry the
\* case on, or would but for a reason beside its state (updateButtons against
\* the guards of main.py).
THEOREM OffersAreTaken == Spec => []OffersFit
<1>1. PageInv => OffersFit
  <2> SUFFICES ASSUME PageInv, Settled, shown # None, served[shown.case] = shown.state
               PROVE  enabled \cap StepButtons =
                        {b \in StepButtons : \/ Reach(b, shown.case) # {shown.state}
                                             \/ HeldBack(b, shown.case)}
    BY DEF OffersFit
  <2>1. ButtonsFit
    BY DEF PageInv, Settled, Acting, IdleTask, Buttons, StepButtons, Confirmed
  <2>2. shown.case \in Cases /\ shown.state \in States
    BY DEF PageInv, Reached
  <2>3. "reset" \notin StepButtons /\ "export" \notin StepButtons
    BY DEF StepButtons, Confirmed
  <2>4. Offered(shown) \cap StepButtons = {b \in StepButtons : shown.state \in ReadyAt[b]}
    BY <2>3 DEF Offered
  <2>5. \A b \in StepButtons : shown.state \in ReadyAt[b] <=>
           (Reach(b, shown.case) # {shown.state} \/ HeldBack(b, shown.case))
    BY <2>2, ExpectedSteps, ReachedSteps
  <2> QED
    BY <2>1, <2>4, <2>5 DEF ButtonsFit
<1> QED
  BY <1>1, PageInvariant, PTL

=============================================================================

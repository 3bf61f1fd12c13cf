-------------------------------- MODULE Intake --------------------------------
(***************************************************************************)
(* From the notice to the mandate (apps/appealos/app/main.py notice,       *)
(* consent, mandate and their validators; domain.py AnalysisConsent.create *)
(* agent.py run_structured), for one case, with the evidence vault at work *)
(* beside it.                                                              *)
(*                                                                         *)
(* AppealWorkflow takes each of these methods as one action.  Here they    *)
(* are what the code does under the workflow lock: a mandate reads the     *)
(* consented artifacts one by one, then asks the model twice, and any of   *)
(* these remote calls may raise.  What the model answers is arbitrary.     *)
(***************************************************************************)
EXTENDS EvidenceVault, SequencesExt

CONSTANTS
    Unknown,   \* an artifact id that is in no inventory
    MaxItems   \* bounds the artifacts asked for and the items of an answer

ASSUME IntakeAssumption == Unknown \notin Artifacts /\ MaxItems \in Nat

VARIABLES
    case,     \* the case document
    work,     \* the method that holds the workflow lock
    expired,  \* whether the consent has expired
    checked   \* history: artifacts this mandate has verified

caseVars == <<case, work, expired, checked>>
vars == <<vaultVars, caseVars>>

-----------------------------------------------------------------------------
(* Data.                                                                   *)

Ids == Artifacts \cup {Unknown}
Some(S) == UNION {[1 .. n -> S] : n \in 0 .. MaxItems}

\* What the model drafts.  Platform, account and allegation of a notice are
\* right or not; a claim is sound when its type, policy clauses, confidence and
\* text are allowed.  A reason may be empty.
Extractions == [platform : BOOLEAN, account : BOOLEAN, allegation : BOOLEAN]
RelevanceItem == [artifact : Ids, reason : BOOLEAN]
ClaimUnit == [evidence : SUBSET Ids, sound : BOOLEAN]

\* A saved claim is the artifacts it cites, and its number is its id.  A
\* mandate is the claim ids and the artifacts it approves.
Claims == Some(SUBSET Ids)
Mandate == [claims : SUBSET (1 .. MaxItems), artifacts : SUBSET Artifacts]
CaseDoc == [state : {"NOTICE_RECEIVED", "PARSED", "CONSENTED", "MANDATE_APPROVED"},
            consent : Some(Artifacts), claims : Claims,
            mandate : Mandate \cup {None}, quarantined : SUBSET Artifacts]
NewCase == [state |-> "NOTICE_RECEIVED", consent |-> << >>, claims |-> << >>,
            mandate |-> None, quarantined |-> {}]

\* "next" is the consented artifact to be verified next.
Steps == {"idle", "notice", "verify", "relevance", "claims"}
Work == [step : Steps, next : 1 .. MaxItems + 1]
Idle == [step |-> "idle", next |-> 1]

Consented == ToSet(case.consent)

TypeOK ==
    /\ VaultTypeOK
    /\ case \in CaseDoc
    /\ IsInjective(case.consent)
    /\ work \in Work
    /\ expired \in BOOLEAN
    /\ checked \subseteq Artifacts

Init ==
    /\ VaultInit
    /\ case = NewCase
    /\ work = Idle
    /\ expired = FALSE
    /\ checked = {}

-----------------------------------------------------------------------------
(* Validators.                                                             *)

ValidNotice(extracted) ==
    extracted.platform /\ extracted.account /\ extracted.allegation

\* dict.fromkeys: the first of each, in order.  (A mutant keeps them all.)
Repeated(chosen, ids) == chosen = ids
Distinct(chosen, ids) ==
    /\ IsInjective(chosen) /\ ToSet(chosen) = ToSet(ids)
    /\ \A m, n \in DOMAIN chosen :
         m < n => \E k \in DOMAIN ids :
                    ids[k] = chosen[m] /\ \A j \in 1 .. k : ids[j] # chosen[n]

\* AnalysisConsent.create: otherwise a 422.
ValidConsent(ids) == ids # << >> /\ ToSet(ids) \subseteq Artifacts

\* Each authorized artifact exactly once, each with a reason.
ValidRelevance(items) ==
    LET ids == [n \in DOMAIN items |-> items[n].artifact]
    IN  /\ IsInjective(ids) /\ ToSet(ids) = Consented
        /\ \A n \in DOMAIN items : items[n].reason

\* Mutant: a claim may cite any artifact there is.
ValidClaimsAnywhere(claims) ==
    /\ claims # << >>
    /\ \A n \in DOMAIN claims :
         claims[n].sound /\ claims[n].evidence # {} /\ claims[n].evidence \subseteq Artifacts

\* At least one claim, each sound and citing only consented artifacts.
ValidClaims(claims) ==
    /\ claims # << >>
    /\ \A n \in DOMAIN claims :
         claims[n].sound /\ claims[n].evidence # {} /\ claims[n].evidence \subseteq Consented

-----------------------------------------------------------------------------
(* The methods.  Each holds the lock from its first step to its last.      *)

Goes(step) == work' = [Idle EXCEPT !.step = step]
Ends(doc) == case' = doc /\ work' = Idle

NoticeBegins ==
    /\ work = Idle /\ case.state = "NOTICE_RECEIVED"
    /\ Goes("notice")
    /\ UNCHANGED <<vaultVars, case, expired, checked>>

NoticeReturns ==
    /\ work.step = "notice"
    /\ \E extracted \in Extractions :
         Ends(IF ValidNotice(extracted) THEN [case EXCEPT !.state = "PARSED"] ELSE case)
    /\ UNCHANGED <<vaultVars, expired, checked>>

Consent ==
    /\ work = Idle /\ case.state = "PARSED"
    /\ \E ids \in Some(Ids), chosen \in Some(Artifacts) :
         /\ ValidConsent(ids) /\ Distinct(chosen, ids)
         /\ Ends([case EXCEPT !.state = "CONSENTED", !.consent = chosen])
    /\ UNCHANGED <<vaultVars, expired, checked>>

MandateBegins ==
    /\ work = Idle /\ case.state = "CONSENTED" /\ ~expired
    /\ Goes("verify")
    /\ checked' = {}
    /\ UNCHANGED <<vaultVars, case, expired>>

\* The consented artifact whose turn it is; a quarantined one is a 409.
Turn == case.consent[work.next]
Verifying == work.step = "verify" /\ work.next <= Len(case.consent)

ReadBegins ==
    /\ Verifying /\ Turn \notin case.quarantined
    /\ reader.artifact = None
    /\ FetchEnvelope(Turn)
    /\ UNCHANGED caseVars

ReadGoesOn == Verifying /\ ReadKey /\ UNCHANGED caseVars

\* The reading is over and its result taken.
Took(result) ==
    /\ Verifying /\ reader.result = result
    /\ reader' = NoReading
    /\ UNCHANGED <<versions, objects, seeders, faults>>

\* Mutant: one verified artifact is enough.
ReadVerifiesLast ==
    /\ Took("verified")
    /\ checked' = checked \cup {Turn}
    /\ work' = [work EXCEPT !.next = Len(case.consent) + 1]
    /\ UNCHANGED <<case, expired>>

ReadVerifies ==
    /\ Took("verified")
    /\ checked' = checked \cup {Turn}
    /\ work' = [work EXCEPT !.next = @ + 1]
    /\ UNCHANGED <<case, expired>>

\* EvidenceIntegrityError: the artifact is quarantined, saved, and the method
\* raises.
ReadQuarantines ==
    /\ Took("integrity")
    /\ Ends([case EXCEPT !.quarantined = @ \cup {Turn}])
    /\ UNCHANGED <<expired, checked>>

\* All are verified: the model is shown the consented artifacts.
AskRelevance ==
    /\ work.step = "verify" /\ work.next > Len(case.consent)
    /\ Goes("relevance")
    /\ UNCHANGED <<vaultVars, case, expired, checked>>

RelevanceReturns ==
    /\ work.step = "relevance"
    /\ \E items \in Some(RelevanceItem) :
         IF ValidRelevance(items) THEN Goes("claims") ELSE work' = Idle
    /\ UNCHANGED <<vaultVars, case, expired, checked>>

Cited(claims) == [n \in DOMAIN claims |-> claims[n].evidence]

\* Mutant: the claims are saved before they are validated.
ClaimsReturnEarly ==
    /\ work.step = "claims"
    /\ \E claims \in Some(ClaimUnit) :
         Ends(IF ValidClaims(claims)
              THEN [case EXCEPT !.state = "MANDATE_APPROVED", !.claims = Cited(claims),
                                !.mandate = [claims |-> DOMAIN claims, artifacts |-> Consented]]
              ELSE [case EXCEPT !.claims = Cited(claims)])
    /\ UNCHANGED <<vaultVars, expired, checked>>

\* Claims and mandate are saved together, or the method raises.
ClaimsReturn ==
    /\ work.step = "claims"
    /\ \E claims \in Some(ClaimUnit) :
         Ends(IF ValidClaims(claims)
              THEN [case EXCEPT !.state = "MANDATE_APPROVED", !.claims = Cited(claims),
                                !.mandate = [claims |-> DOMAIN claims, artifacts |-> Consented]]
              ELSE case)
    /\ UNCHANGED <<vaultVars, expired, checked>>

\* A remote call raises, an answer cannot be parsed, the artifact is already
\* quarantined, an envelope does not decode, or the process dies: nothing is
\* saved.
MethodRaises ==
    /\ work # Idle
    /\ work' = Idle
    /\ reader' = NoReading
    /\ UNCHANGED <<versions, objects, seeders, faults, case, expired, checked>>

\* The consent lasts an hour, which may end within a method.
ConsentExpires ==
    /\ case.consent # << >> /\ ~expired
    /\ expired' = TRUE
    /\ UNCHANGED <<vaultVars, case, work, checked>>

-----------------------------------------------------------------------------
Method ==
    \/ NoticeBegins \/ NoticeReturns \/ Consent \/ MandateBegins
    \/ ReadBegins \/ ReadGoesOn \/ ReadVerifies \/ ReadQuarantines
    \/ AskRelevance \/ RelevanceReturns \/ ClaimsReturn
    \/ MethodRaises \/ ConsentExpires

Next == (Method \/ (VaultStep /\ UNCHANGED caseVars)) /\ Watch

Spec == Init /\ [][Next]_vars

\* A seeding script that runs goes on or fails; methods need not.
FairSpec ==
    Spec /\ \A s \in Seeders : WF_vars(SeedStep(s) /\ UNCHANGED caseVars /\ Watch)

-----------------------------------------------------------------------------
(* Properties; VerifiedIsFixture and ReadIsAtomic of EvidenceVault too.    *)

\* Nothing is shown to the model that this very mandate did not verify, nor
\* anything quarantined, whatever was verified, repaired or retried before.
ShownIsVerified ==
    work.step \in {"relevance", "claims"} =>
        Consented \subseteq checked \ case.quarantined

\* Whatever the model answers, a mandated case has claims, each claim cites
\* consented and unquarantined artifacts only, and the mandate approves exactly
\* these claims and artifacts, so submit finds the claims it approved.
ClaimsAreGrounded ==
    case.state = "MANDATE_APPROVED" =>
        /\ case.claims # << >>
        /\ \A n \in DOMAIN case.claims :
             case.claims[n] # {} /\ case.claims[n] \subseteq Consented \ case.quarantined
        /\ case.mandate = [claims |-> DOMAIN case.claims, artifacts |-> Consented]

\* A method that fails, at whichever of its steps, leaves the case as it was,
\* but for one more quarantined artifact; and only an artifact that could not be
\* read at some moment of the reading is quarantined.
NothingHalfDone ==
    [][case'.state = case.state /\ case' # case =>
         \E f \in Consented \ case.quarantined :
            /\ case' = [case EXCEPT !.quarantined = @ \cup {f}]
            /\ reader.artifact = f /\ FALSE \in seen]_vars

AllReadable == Readable = Artifacts

\* An operator who seeds again when the vault cannot be read.
OperatorReseeds ==
    WF_vars(/\ ~AllReadable
            /\ \E s \in Seeders : SeedingBegins(s)
            /\ UNCHANGED caseVars
            /\ Watch)

\* Runs that race for the first key leave artifacts that cannot be read, and so
\* do runs that fail, damage, and a new release of the fixtures; but seeding
\* again repairs everything in the end, and the repair lasts, for later runs
\* reuse the latest key (seed_evidence_vault.py ensure_demo_key).
SeedingHeals == OperatorReseeds => <>[]AllReadable

=============================================================================

----------------------------- MODULE IntakeProofs -----------------------------
(***************************************************************************)
(* Theorems of Intake, for any artifacts, releases and seeding runs, any   *)
(* number of faults, and answers of any bounded length: the types, what a  *)
(* reading that verifies means, what is shown to the model, and what the   *)
(* model can put into a mandate.                                           *)
(***************************************************************************)
EXTENDS Intake, TLAPS

-----------------------------------------------------------------------------
(* Data.                                                                   *)

LEMMA SomeIsSeq ==
    ASSUME NEW S, NEW q \in Some(S)
    PROVE  q \in Seq(S) /\ DOMAIN q = 1 .. Len(q) /\ Len(q) \in 0 .. MaxItems
<1>1. PICK n \in 0 .. MaxItems : q \in [1 .. n -> S]
  BY DEF Some
<1>2. n \in Nat /\ q \in Seq(S)
  BY <1>1, IntakeAssumption
<1>3. Len(q) = n
  BY <1>1, <1>2
<1> QED
  BY <1>1, <1>2, <1>3

LEMMA NothingIsSome == \A S : << >> \in Some(S)
<1>1. TAKE S
<1>2. << >> \in [1 .. 0 -> S]
  OBVIOUS
<1> QED
  BY <1>2, IntakeAssumption DEF Some

LEMMA IdleTyped == Idle \in Work /\ Idle.step = "idle"
BY IntakeAssumption DEF Idle, Work, Steps

LEMMA GoesTyped ==
    ASSUME NEW step \in Steps, Goes(step)
    PROVE  work' \in Work /\ work' = [step |-> step, next |-> 1]
BY IntakeAssumption DEF Goes, Idle, Work, Steps

-----------------------------------------------------------------------------
(* Types.                                                                  *)

LEMMA ArtifactsInOrder == \A n \in 1 .. Len(Order) : Order[n] \in Artifacts
BY DEF Artifacts

LEMMA SealedTyped ==
    ASSUME NEW f \in Artifacts, NEW r \in Releases, NEW key \in Nat
    PROVE  Sealed(f, r, key) \in Envelope
BY DEF Sealed, Envelope, Fixtures, Flaws

LEMMA IdleSeederTyped == IdleSeeder \in Seeder
BY OrderAssumption DEF IdleSeeder, Seeder

LEMMA InitTyped == Init => TypeOK
<1> SUFFICES ASSUME Init PROVE TypeOK
  OBVIOUS
<1>1. versions \in Nat /\ objects \in [Artifacts -> Envelope \cup {None}]
  BY SealedTyped DEF Init, VaultInit
<1>2. VaultTypeOK
  BY <1>1, IdleSeederTyped, VaultFaultsAssumption
  DEF Init, VaultInit, VaultTypeOK, NoReading, Reader
<1>3. case \in CaseDoc /\ IsInjective(case.consent)
  BY NothingIsSome DEF Init, NewCase, CaseDoc, Claims, IsInjective
<1> QED
  BY <1>2, <1>3, IdleTyped DEF Init, TypeOK

\* What a step may change, but for the history.
VaultShape ==
    /\ versions \in Nat
    /\ objects \in [Artifacts -> Envelope \cup {None}]
    /\ seeders \in [Seeders -> Seeder]
    /\ reader \in Reader
    /\ faults \in 0 .. MaxFaults

LEMMA WatchTyped == ASSUME VaultTypeOK, Watch PROVE seen' \subseteq BOOLEAN
<1>1. CASE Reading
  <2>1. seen' = seen \cup {reader.artifact \in Readable'}
    BY <1>1 DEF Watch
  <2>2. (reader.artifact \in Readable') \in BOOLEAN
    OBVIOUS
  <2> QED
    BY <2>1, <2>2, Zenon DEF VaultTypeOK
<1>2. CASE ~Reading /\ reader' # reader
  <2>1. seen' = {reader'.artifact \in Readable'}
    BY <1>2 DEF Watch
  <2>2. (reader'.artifact \in Readable') \in BOOLEAN
    OBVIOUS
  <2> QED
    BY <2>1, <2>2, Zenon
<1>3. CASE ~Reading /\ reader' = reader
  BY <1>3 DEF Watch, VaultTypeOK
<1> QED
  BY <1>1, <1>2, <1>3

LEMMA FaultTyped == ASSUME VaultTypeOK, Fault PROVE faults' \in 0 .. MaxFaults
BY VaultFaultsAssumption DEF VaultTypeOK, Fault

LEMMA SeedStepTyped ==
    ASSUME VaultTypeOK, NEW s \in Seeders, SeedingBegins(s) \/ SeedStep(s) \/ SeedingFails(s)
    PROVE  VaultShape'
<1>1. CASE SeedingBegins(s)
  BY <1>1, ZenonT(60) DEF SeedingBegins, VaultTypeOK, VaultShape, Seeder
<1>2. CASE AddKeyVersion(s)
  <2>1. versions + 1 \in Nat /\ seeders[s] \in Seeder
    BY DEF VaultTypeOK
  <2>2. [seeders[s] EXCEPT !.stage = "uploading", !.key = versions + 1] \in Seeder
    BY <2>1 DEF Seeder
  <2>3. seeders' = [seeders EXCEPT ![s] = [seeders[s] EXCEPT !.stage = "uploading",
                                                             !.key = versions + 1]]
    BY <1>2, <2>1 DEF AddKeyVersion, VaultTypeOK, Seeder
  <2>4. seeders' \in [Seeders -> Seeder]
    BY <2>2, <2>3 DEF VaultTypeOK
  <2> QED
    BY <1>2, <2>1, <2>4 DEF AddKeyVersion, VaultTypeOK, VaultShape
<1>3. CASE Upload(s)
  <2>1. seeders[s] \in Seeder /\ seeders[s].next \in 1 .. Len(Order) /\ seeders[s].key \in Nat
    BY DEF VaultTypeOK, Seeder
  <2>2. Sealed(Order[seeders[s].next], Current, seeders[s].key) \in Envelope
    BY <2>1, ArtifactsInOrder, ReleasesAssumption, SealedTyped
  <2>3. objects' \in [Artifacts -> Envelope \cup {None}]
    BY <1>3, <2>2 DEF Upload, VaultTypeOK
  <2>4. Len(Order) \in Nat
    BY OrderAssumption
  <2>5. ASSUME seeders[s].next # Len(Order)
        PROVE  NextUpload(seeders[s]) \in Seeder
    BY <2>1, <2>4, <2>5 DEF Seeder, NextUpload
  <2>6. seeders' \in [Seeders -> Seeder]
    BY <1>3, <2>5, IdleSeederTyped DEF Upload, VaultTypeOK, NextUpload
  <2> QED
    BY <1>3, <2>3, <2>6 DEF Upload, VaultTypeOK, VaultShape
<1>4. CASE SeedingFails(s)
  BY <1>4, FaultTyped, IdleSeederTyped DEF SeedingFails, VaultTypeOK, VaultShape
<1> QED
  BY <1>1, <1>2, <1>3, <1>4 DEF SeedStep

LEMMA DamageTyped ==
    ASSUME VaultTypeOK, NEW f \in Artifacts, Damage(f)
    PROVE  VaultShape'
<1>1. objects[f] \in Envelope
  BY DEF Damage, VaultTypeOK
<1>2. objects' \in [Artifacts -> Envelope \cup {None}]
  <2>1. ASSUME NEW flaw \in Flaws \ {"none"}, objects' = [objects EXCEPT ![f].flaw = flaw]
        PROVE  objects' \in [Artifacts -> Envelope \cup {None}]
    BY <1>1, <2>1 DEF VaultTypeOK, Envelope
  <2>2. ASSUME NEW g \in Artifacts, objects' = [objects EXCEPT ![f] = objects[g]]
        PROVE  objects' \in [Artifacts -> Envelope \cup {None}]
    BY <2>2 DEF VaultTypeOK
  <2>3. ASSUME NEW g \in Artifacts, objects[g] # None,
               objects' = [objects EXCEPT ![f].sealed = objects[g].sealed,
                                          ![f].key = objects[g].key]
        PROVE  objects' \in [Artifacts -> Envelope \cup {None}]
    <3>1. objects[g] \in Envelope
      BY <2>3 DEF VaultTypeOK
    <3>2. objects' = [objects EXCEPT ![f] = [@ EXCEPT !.sealed = objects[g].sealed,
                                                      !.key = objects[g].key]]
      BY <1>1, <2>3 DEF VaultTypeOK, Envelope
    <3>3. [objects[f] EXCEPT !.sealed = objects[g].sealed, !.key = objects[g].key] \in Envelope
      BY <1>1, <3>1 DEF Envelope
    <3> QED
      BY <3>2, <3>3 DEF VaultTypeOK
  <2> QED
    BY <2>1, <2>2, <2>3 DEF Damage
<1> QED
  BY <1>2, FaultTyped DEF Damage, VaultTypeOK, VaultShape

LEMMA ReadTyped ==
    ASSUME VaultTypeOK, (\E f \in Artifacts : FetchEnvelope(f)) \/ ReadKey
    PROVE  VaultShape'
<1>1. ASSUME NEW f \in Artifacts, FetchEnvelope(f)
      PROVE  VaultShape'
  <2>1. Verify(objects[f], f) \in Results
    BY DEF Verify, Results
  <2>2. reader' \in Reader
    BY <1>1, <2>1 DEF FetchEnvelope, VaultTypeOK, Reader, Results
  <2> QED
    BY <1>1, <2>2 DEF FetchEnvelope, VaultTypeOK, VaultShape
<1>2. CASE ReadKey
  <2>1. Decrypt(reader.envelope, versions) \in Results
    BY DEF Decrypt, Results
  <2> QED
    BY <1>2, <2>1 DEF ReadKey, VaultTypeOK, VaultShape, Reader
<1> QED
  BY <1>1, <1>2

\* The case as the code knows it, and a method's progress.
CaseShape ==
    /\ case \in CaseDoc
    /\ IsInjective(case.consent)
    /\ work \in Work
    /\ expired \in BOOLEAN
    /\ checked \subseteq Artifacts

LEMMA ConsentTyped ==
    ASSUME case \in CaseDoc
    PROVE  /\ case.consent \in Seq(Artifacts)
           /\ DOMAIN case.consent = 1 .. Len(case.consent)
           /\ Len(case.consent) \in 0 .. MaxItems
           /\ Consented = {case.consent[n] : n \in DOMAIN case.consent}
           /\ Consented \subseteq Artifacts
<1>1. case.consent \in Some(Artifacts)
  BY DEF CaseDoc
<1>2. /\ case.consent \in Seq(Artifacts) /\ DOMAIN case.consent = 1 .. Len(case.consent)
      /\ Len(case.consent) \in 0 .. MaxItems
  BY <1>1, SomeIsSeq
<1> QED
  BY <1>2 DEF Consented, ToSet

LEMMA TurnTyped ==
    ASSUME CaseShape, Verifying
    PROVE  Turn \in Consented /\ Turn \in Artifacts /\ work.next + 1 \in 1 .. MaxItems + 1
<1>1. work.next \in Nat /\ work.next \in DOMAIN case.consent /\ work.next <= MaxItems
  BY ConsentTyped, IntakeAssumption DEF CaseShape, Verifying, Work
<1> QED
  BY <1>1, ConsentTyped, IntakeAssumption DEF CaseShape, Turn

\* A method that starts or ends.
LEMMA EndsTyped ==
    ASSUME CaseShape, NEW doc, doc \in CaseDoc, IsInjective(doc.consent), Ends(doc),
           UNCHANGED <<expired, checked>>
    PROVE  CaseShape'
BY IdleTyped DEF CaseShape, Ends

LEMMA CitedTyped ==
    ASSUME NEW claims \in Some(ClaimUnit)
    PROVE  /\ Cited(claims) \in Claims
           /\ DOMAIN Cited(claims) = DOMAIN claims
           /\ DOMAIN claims \subseteq 1 .. MaxItems
           /\ claims # << >> => Cited(claims) # << >>
<1>1. PICK n \in 0 .. MaxItems : claims \in [1 .. n -> ClaimUnit]
  BY DEF Some
<1>2. Cited(claims) \in [1 .. n -> SUBSET Ids]
  BY <1>1 DEF Cited, ClaimUnit
<1>3. Cited(claims) \in Claims
  BY <1>2 DEF Claims, Some
<1>4. DOMAIN claims = 1 .. n /\ DOMAIN Cited(claims) = 1 .. n /\ 1 .. n \subseteq 1 .. MaxItems
  BY <1>1, <1>2, IntakeAssumption
<1>5. ASSUME claims # << >> PROVE 1 \in DOMAIN claims
  BY <1>1, <1>5, SomeIsSeq
<1>6. claims # << >> => Cited(claims) # << >>
  BY <1>4, <1>5
<1> QED
  BY <1>3, <1>4, <1>6

LEMMA MethodTyped ==
    ASSUME TypeOK, Method
    PROVE  CaseShape'
<1> USE DEF TypeOK
<1>0. CaseShape
  BY DEF CaseShape
<1>1. CASE NoticeBegins \/ AskRelevance
  <2>1. work' \in Work
    BY <1>1, GoesTyped DEF NoticeBegins, AskRelevance, Steps
  <2> QED
    BY <1>0, <1>1, <2>1 DEF NoticeBegins, AskRelevance, CaseShape
<1>2. CASE MandateBegins
  <2>1. work' \in Work
    BY <1>2, GoesTyped DEF MandateBegins, Steps
  <2> QED
    BY <1>0, <1>2, <2>1 DEF MandateBegins, CaseShape
<1>3. CASE NoticeReturns
  <2>1. [case EXCEPT !.state = "PARSED"] \in CaseDoc
    BY DEF CaseDoc
  <2>2. [case EXCEPT !.state = "PARSED"].consent = case.consent
    BY DEF CaseDoc
  <2>3. PICK extracted \in Extractions :
          Ends(IF ValidNotice(extracted) THEN [case EXCEPT !.state = "PARSED"] ELSE case)
    BY <1>3 DEF NoticeReturns
  <2> QED
    BY <1>0, <1>3, <2>1, <2>2, <2>3, EndsTyped DEF NoticeReturns
<1>4. CASE Consent
  <2>1. PICK ids \in Some(Ids), chosen \in Some(Artifacts) :
          /\ Distinct(chosen, ids)
          /\ Ends([case EXCEPT !.state = "CONSENTED", !.consent = chosen])
    BY <1>4 DEF Consent
  <2> DEFINE doc == [case EXCEPT !.state = "CONSENTED", !.consent = chosen]
  <2>2. doc \in CaseDoc /\ doc.consent = chosen
    BY DEF CaseDoc
  <2>3. IsInjective(chosen)
    BY <2>1 DEF Distinct
  <2> QED
    BY <1>0, <1>4, <2>1, <2>2, <2>3, EndsTyped DEF Consent
<1>5. CASE ReadBegins \/ ReadGoesOn
  BY <1>0, <1>5 DEF ReadBegins, ReadGoesOn, caseVars, CaseShape
<1>6. CASE ReadVerifies
  <2>1. Turn \in Artifacts /\ work.next + 1 \in 1 .. MaxItems + 1
    BY <1>0, <1>6, TurnTyped DEF ReadVerifies, Took
  <2> QED
    BY <1>0, <1>6, <2>1 DEF ReadVerifies, CaseShape, Work
<1>7. CASE ReadQuarantines
  <2> DEFINE doc == [case EXCEPT !.quarantined = @ \cup {Turn}]
  <2>1. Turn \in Artifacts
    BY <1>0, <1>7, TurnTyped DEF ReadQuarantines, Took
  <2>2. doc \in CaseDoc /\ doc.consent = case.consent
    BY <2>1 DEF CaseDoc
  <2> QED
    BY <1>0, <1>7, <2>2, EndsTyped DEF ReadQuarantines
<1>8. CASE RelevanceReturns
  <2>1. work' \in Work
    BY <1>8, GoesTyped, IdleTyped DEF RelevanceReturns, Steps
  <2> QED
    BY <1>0, <1>8, <2>1 DEF RelevanceReturns, CaseShape
<1>9. CASE ClaimsReturn
  <2>1. PICK claims \in Some(ClaimUnit) :
          Ends(IF ValidClaims(claims)
               THEN [case EXCEPT !.state = "MANDATE_APPROVED", !.claims = Cited(claims),
                                 !.mandate = [claims |-> DOMAIN claims, artifacts |-> Consented]]
               ELSE case)
    BY <1>9 DEF ClaimsReturn
  <2> DEFINE mandate == [claims |-> DOMAIN claims, artifacts |-> Consented]
             doc == [case EXCEPT !.state = "MANDATE_APPROVED", !.claims = Cited(claims),
                                 !.mandate = mandate]
  <2>2. mandate \in Mandate
    BY CitedTyped, ConsentTyped DEF Mandate
  <2>3. Cited(claims) \in Claims
    BY CitedTyped
  <2> HIDE DEF mandate
  <2>4. doc \in CaseDoc /\ doc.consent = case.consent
    BY <2>2, <2>3 DEF CaseDoc
  <2> QED
    BY <1>0, <1>9, <2>1, <2>4, EndsTyped DEF ClaimsReturn, mandate
<1>10. CASE MethodRaises
  BY <1>0, <1>10, IdleTyped DEF MethodRaises, CaseShape
<1>11. CASE ConsentExpires
  BY <1>0, <1>11 DEF ConsentExpires, CaseShape
<1> QED
  BY <1>1, <1>2, <1>3, <1>4, <1>5, <1>6, <1>7, <1>8, <1>9, <1>10, <1>11 DEF Method

\* What a method's step does to the vault: nothing, or the reading goes on.
LEMMA MethodOnVault ==
    ASSUME TypeOK, Method
    PROVE  /\ UNCHANGED <<versions, objects, seeders, faults>>
           /\ \/ UNCHANGED reader
              \/ reader' = NoReading
              \/ reader.artifact = None /\ \E f \in Artifacts : FetchEnvelope(f)
              \/ ReadKey
<1>1. CASE ReadBegins
  <2>1. Turn \in Artifacts
    BY <1>1, TurnTyped DEF ReadBegins, TypeOK, CaseShape
  <2> QED
    BY <1>1, <2>1 DEF ReadBegins, FetchEnvelope
<1>2. CASE ReadGoesOn
  BY <1>2 DEF ReadGoesOn, ReadKey
<1>3. CASE ReadVerifies \/ ReadQuarantines
  BY <1>3 DEF ReadVerifies, ReadQuarantines, Took
<1>4. CASE MethodRaises
  BY <1>4 DEF MethodRaises
<1>5. CASE \/ NoticeBegins \/ NoticeReturns \/ Consent \/ MandateBegins
           \/ AskRelevance \/ RelevanceReturns \/ ClaimsReturn \/ ConsentExpires
  BY <1>5 DEF NoticeBegins, NoticeReturns, Consent, MandateBegins, AskRelevance,
              RelevanceReturns, ClaimsReturn, ConsentExpires, vaultVars
<1> QED
  BY <1>1, <1>2, <1>3, <1>4, <1>5 DEF Method

LEMMA NextTyped == TypeOK /\ [Next]_vars => TypeOK'
<1> SUFFICES ASSUME TypeOK, [Next]_vars PROVE TypeOK'
  OBVIOUS
<1>1. CASE Method /\ Watch
  <2>1. reader' \in Reader
    <3>1. NoReading \in Reader
      BY DEF NoReading, Reader
    <3> QED
      BY <1>1, <3>1, MethodOnVault, ReadTyped DEF TypeOK, VaultTypeOK, VaultShape
  <2>2. VaultTypeOK'
    BY <1>1, <2>1, MethodOnVault, WatchTyped DEF TypeOK, VaultTypeOK
  <2> QED
    BY <1>1, <2>2, MethodTyped DEF TypeOK, CaseShape
<1>2. CASE VaultStep /\ UNCHANGED caseVars /\ Watch
  <2>1. VaultShape'
    BY <1>2, SeedStepTyped, DamageTyped DEF VaultStep, TypeOK
  <2>2. seen' \subseteq BOOLEAN
    BY <1>2, WatchTyped DEF TypeOK
  <2> QED
    BY <1>2, <2>1, <2>2 DEF TypeOK, VaultTypeOK, VaultShape, caseVars
<1>3. CASE UNCHANGED vars
  BY <1>3 DEF vars, vaultVars, caseVars, TypeOK, VaultTypeOK
<1> QED
  BY <1>1, <1>2, <1>3 DEF Next

\* The vault, the case and the work of a method keep their types.
THEOREM TypeCorrect == Spec => []TypeOK
BY InitTyped, NextTyped, PTL DEF Spec

-----------------------------------------------------------------------------
(* A reading.                                                              *)

\* No key is used that was not there: a seeding run reads or adds a version
\* before it seals, and versions are never taken away.
KeysExist ==
    /\ \A f \in Artifacts : objects[f] # None => objects[f].key <= versions
    /\ \A s \in Seeders : seeders[s].key <= versions
    /\ reader.envelope # None => reader.envelope.key <= versions

\* Between its two calls a reader holds an envelope that was checked; whether
\* the latest key opens it is an answer the artifact gave in between.
InBetween ==
    Reading =>
        /\ reader.envelope # None
        /\ Verify(reader.envelope, reader.artifact) = "verified"
        /\ IF Decrypt(reader.envelope, versions) = "verified" THEN TRUE \in seen
                                                              ELSE FALSE \in seen

NoArtifactNoResult == reader.artifact = None => reader = NoReading

ReadingInv == KeysExist /\ InBetween /\ NoArtifactNoResult /\ VerifiedIsFixture /\ ReadIsAtomic

LEMMA InitReading == Init => ReadingInv
<1> SUFFICES ASSUME Init PROVE ReadingInv
  OBVIOUS
<1>1. reader = NoReading /\ NoReading.artifact = None /\ NoReading.result = None
      /\ NoReading.envelope = None
  BY DEF Init, VaultInit, NoReading
<1>2. \A f \in Artifacts : objects[f] # None => objects[f].key <= versions
  BY DEF Init, VaultInit, Sealed
<1>3. \A s \in Seeders : seeders[s].key = 0 /\ 0 <= versions
  BY DEF Init, VaultInit, IdleSeeder
<1>4. None # "verified"
  BY VaultNoneAssumption DEF Results
<1> QED
  BY <1>1, <1>2, <1>3, <1>4
  DEF ReadingInv, KeysExist, InBetween, NoArtifactNoResult, VerifiedIsFixture, ReadIsAtomic,
      Reading

LEMMA KeysKeptSeeding ==
    ASSUME TypeOK, KeysExist, VaultStep
    PROVE  KeysExist' /\ versions' >= versions /\ reader' = reader
<1> USE DEF TypeOK, VaultTypeOK, KeysExist
<1>1. ASSUME NEW f \in Artifacts, Damage(f)
      PROVE  KeysExist' /\ versions' = versions /\ reader' = reader
  <2>1. objects[f] \in Envelope /\ UNCHANGED <<versions, seeders, reader>>
    BY <1>1 DEF Damage
  <2>2. ASSUME NEW flaw \in Flaws, objects' = [objects EXCEPT ![f].flaw = flaw]
        PROVE  KeysExist'
    <3>1. \A g \in Artifacts : objects'[g] # None => objects[g] # None /\ objects'[g].key = objects[g].key
      BY <2>1, <2>2, <1>1 DEF Envelope, Damage
    <3> QED
      BY <2>1, <3>1
  <2>3. ASSUME NEW g \in Artifacts, objects' = [objects EXCEPT ![f] = objects[g]]
        PROVE  KeysExist'
    BY <2>1, <2>3
  <2>4. ASSUME NEW g \in Artifacts, objects[g] # None,
               objects' = [objects EXCEPT ![f].sealed = objects[g].sealed,
                                          ![f].key = objects[g].key]
        PROVE  KeysExist'
    <3>1. objects'[f].key = objects[g].key
      BY <2>1, <2>4 DEF Envelope
    <3>2. \A h \in Artifacts : h # f => objects'[h] = objects[h]
      BY <2>4
    <3> QED
      BY <2>1, <2>4, <3>1, <3>2
  <2> QED
    BY <1>1, <2>1, <2>2, <2>3, <2>4 DEF Damage
<1>2. ASSUME NEW s \in Seeders, SeedingBegins(s)
      PROVE  KeysExist' /\ versions' = versions /\ reader' = reader
  <2>1. seeders'[s].key = versions /\ \A t \in Seeders : t # s => seeders'[t] = seeders[t]
    BY <1>2 DEF SeedingBegins, Seeder
  <2> QED
    BY <1>2, <2>1 DEF SeedingBegins
<1>3. ASSUME NEW s \in Seeders, AddKeyVersion(s)
      PROVE  KeysExist' /\ versions' = versions + 1 /\ reader' = reader
  <2>1. seeders'[s].key = versions + 1 /\ \A t \in Seeders : t # s => seeders'[t] = seeders[t]
    BY <1>3 DEF AddKeyVersion, Seeder
  <2>2. \A f \in Artifacts : objects[f] # None => objects[f].key \in Nat
    BY DEF Envelope
  <2>3. reader.envelope # None => reader.envelope.key \in Nat
    BY DEF Reader, Envelope
  <2>4. \A t \in Seeders : seeders[t].key \in Nat
    BY DEF Seeder
  <2> QED
    BY <1>3, <2>1, <2>2, <2>3, <2>4 DEF AddKeyVersion
<1>4. ASSUME NEW s \in Seeders, Upload(s)
      PROVE  KeysExist' /\ versions' = versions /\ reader' = reader
  <2>1. NextUpload(seeders[s]).key <= versions
    BY DEF NextUpload, IdleSeeder, Seeder
  <2>2. \A t \in Seeders : seeders'[t].key <= versions
    BY <1>4, <2>1 DEF Upload
  <2>3. \A f \in Artifacts : objects'[f] = objects[f] \/ objects'[f].key = seeders[s].key
    BY <1>4 DEF Upload, Sealed
  <2> QED
    BY <1>4, <2>2, <2>3 DEF Upload
<1>5. ASSUME NEW s \in Seeders, SeedingFails(s)
      PROVE  KeysExist' /\ versions' = versions /\ reader' = reader
  BY <1>5 DEF SeedingFails, IdleSeeder
<1> QED
  BY <1>1, <1>2, <1>3, <1>4, <1>5 DEF VaultStep, SeedStep

LEMMA KeysKeptReading ==
    ASSUME TypeOK, KeysExist, Method
    PROVE  KeysExist'
<1>1. UNCHANGED <<versions, objects, seeders>>
  BY MethodOnVault
<1>2. ASSUME NEW f \in Artifacts, FetchEnvelope(f)
      PROVE  reader'.envelope # None => reader'.envelope.key <= versions
  BY <1>2 DEF FetchEnvelope, KeysExist
<1>3. ReadKey => reader'.envelope = reader.envelope
  BY DEF ReadKey, TypeOK, VaultTypeOK, Reader
<1>4. NoReading.envelope = None
  BY DEF NoReading
<1> QED
  BY <1>1, <1>2, <1>3, <1>4, MethodOnVault DEF KeysExist

\* Membership of a truth value, in a form the provers take apart.
LEMMA Truth ==
    ASSUME NEW P \in BOOLEAN, NEW S
    PROVE  (P \in S) <=> IF P THEN TRUE \in S ELSE FALSE \in S
<1>1. CASE P
  <2>1. P = TRUE
    BY <1>1
  <2> QED
    BY <1>1, <2>1
<1>2. CASE ~P
  <2>1. P = FALSE
    BY <1>2
  <2> QED
    BY <1>2, <2>1
<1> QED
  BY <1>1, <1>2

Answered == reader.result # None =>
                IF reader.result = "verified" THEN TRUE \in seen ELSE FALSE \in seen

LEMMA AnsweredIsAtomic == Answered <=> ReadIsAtomic
<1>1. (reader.result = "verified") \in BOOLEAN
  OBVIOUS
<1> QED
  BY <1>1, Truth DEF Answered, ReadIsAtomic

\* What the history has of a reading that is under way.
LEMMA WatchReading ==
    ASSUME TypeOK, Watch, Reading
    PROVE  /\ seen \subseteq seen'
           /\ reader.artifact \notin Readable' => FALSE \in seen'
<1>1. seen' = seen \cup {reader.artifact \in Readable'}
  BY DEF Watch
<1>2. (reader.artifact \in Readable') \in BOOLEAN
  OBVIOUS
<1>3. ASSUME reader.artifact \notin Readable' PROVE (reader.artifact \in Readable') = FALSE
  BY <1>3
<1> QED
  BY <1>1, <1>2, <1>3, Zenon

\* And of one that begins.
LEMMA WatchFetch ==
    ASSUME Watch, ~Reading, reader' # reader
    PROVE  IF reader'.artifact \in Readable' THEN TRUE \in seen' ELSE FALSE \in seen'
<1>1. seen' = {reader'.artifact \in Readable'}
  BY DEF Watch
<1>2. (reader'.artifact \in Readable') \in BOOLEAN
  OBVIOUS
<1>3. (reader'.artifact \in Readable') \in seen'
  BY <1>1
<1> QED
  BY <1>2, <1>3, Truth

\* Nothing of the reading changes, while the vault may: an envelope of an old
\* key version is opened by none of the later ones, and neither is the object
\* that has taken its place when the version is added.
LEMMA InBetweenKept ==
    ASSUME TypeOK, ReadingInv, VaultStep, Watch
    PROVE  InBetween'
<1>0. reader' = reader /\ Reading' = Reading
  <2>1. reader' = reader
    BY KeysKeptSeeding DEF ReadingInv
  <2> QED
    BY <2>1 DEF Reading
<1> SUFFICES ASSUME Reading PROVE InBetween'
  BY <1>0, Zenon DEF InBetween
<1>1. reader' = reader /\ seen \subseteq seen'
  BY <1>0, WatchReading
<1>2. reader.artifact \in Artifacts /\ reader.envelope \in Envelope
  BY DEF Reading, ReadingInv, InBetween, TypeOK, VaultTypeOK, Reader
<1>3. CASE versions' = versions
  <2>1. Decrypt(reader.envelope, versions)' = Decrypt(reader.envelope, versions)
    BY <1>1, <1>3 DEF Decrypt
  <2>2. Verify(reader.envelope, reader.artifact)' = Verify(reader.envelope, reader.artifact)
    BY <1>1 DEF Verify
  <2> QED
    BY <1>1, <2>1, <2>2 DEF ReadingInv, InBetween
<1>4. CASE versions' # versions
  <2>1. PICK s \in Seeders : AddKeyVersion(s)
    BY <1>4 DEF VaultStep, SeedStep, Damage, SeedingBegins, Upload, SeedingFails
  <2>2. versions' = versions + 1 /\ objects' = objects /\ versions \in Nat
    BY <2>1 DEF AddKeyVersion, TypeOK, VaultTypeOK
  <2>3. reader.envelope.key \in Nat /\ reader.envelope.key # versions'
    BY <1>2, <2>2 DEF ReadingInv, InBetween, KeysExist, Envelope
  <2>4. Decrypt(reader.envelope, versions') # "verified"
    BY <2>3 DEF Decrypt
  <2>5. reader.artifact \notin Readable'
    <3>1. CASE objects[reader.artifact] = None
      BY <1>2, <2>2, <3>1 DEF Readable, Verify
    <3>2. CASE objects[reader.artifact] # None
      <4>1. objects[reader.artifact] \in Envelope
        BY <1>2, <3>2 DEF TypeOK, VaultTypeOK
      <4>2. objects[reader.artifact].key # versions'
        BY <1>2, <2>2, <3>2, <4>1 DEF ReadingInv, KeysExist, Envelope
      <4> QED
        BY <2>2, <4>2 DEF Readable, Decrypt
    <3> QED
      BY <3>1, <3>2
  <2>6. FALSE \in seen'
    BY <2>5, WatchReading
  <2> QED
    BY <1>1, <2>4, <2>6 DEF ReadingInv, InBetween, Reading, Verify
<1> QED
  BY <1>3, <1>4

ReadLaw == InBetween /\ NoArtifactNoResult /\ VerifiedIsFixture /\ Answered

LEMMA NoneIsNothing == None \notin Artifacts /\ None \notin Results /\ None # "verified"
BY VaultNoneAssumption DEF Results

\* A reading begins: what Verify refuses is not readable now.
LEMMA FetchReads ==
    ASSUME TypeOK, Watch, NEW f \in Artifacts, FetchEnvelope(f), reader.artifact = None
    PROVE  ReadLaw'
<1>1. ~Reading /\ UNCHANGED <<versions, objects>> /\ reader'.artifact = f /\ reader' # reader
  BY NoneIsNothing DEF FetchEnvelope, Reading
<1>2. IF f \in Readable' THEN TRUE \in seen' ELSE FALSE \in seen'
  BY <1>1, WatchFetch
<1>3. f \in Readable' <=> /\ Verify(objects[f], f) = "verified"
                        /\ Decrypt(objects[f], versions) = "verified"
  BY <1>1 DEF Readable, Verify, Decrypt
<1>4. CASE Verify(objects[f], f) = "verified"
  <2>1. reader' = [artifact |-> f, envelope |-> objects[f], result |-> None]
    BY <1>4 DEF FetchEnvelope
  <2>2. objects[f] # None
    BY <1>4 DEF Verify
  <2>3. Verify(objects[f], f)' = "verified"
    BY <1>1, <1>4 DEF Verify
  <2>4. /\ Verify(reader.envelope, reader.artifact)' = "verified"
        /\ Decrypt(reader.envelope, versions)' = Decrypt(objects[f], versions)
    BY <1>1, <1>4, <2>1 DEF Verify, Decrypt
  <2> QED
    BY <1>2, <1>3, <1>4, <2>1, <2>2, <2>4, NoneIsNothing
    DEF ReadLaw, InBetween, NoArtifactNoResult, VerifiedIsFixture, Answered
<1>5. CASE Verify(objects[f], f) # "verified"
  <2>1. /\ reader'.result = Verify(objects[f], f) /\ reader'.result # None
        /\ reader'.result # "verified" /\ reader'.artifact = f
    BY <1>5, NoneIsNothing DEF FetchEnvelope, Verify, Results
  <2>2. FALSE \in seen'
    BY <1>2, <1>3, <1>5
  <2>3. ~Reading'
    BY <2>1 DEF Reading
  <2> QED
    BY <2>1, <2>2, <2>3, NoneIsNothing
    DEF ReadLaw, InBetween, NoArtifactNoResult, VerifiedIsFixture, Answered
<1> QED
  BY <1>4, <1>5

\* A reading ends: the AAD ties what was sealed to what was checked.
LEMMA ReadKeyReads ==
    ASSUME TypeOK, ReadingInv, Watch, ReadKey
    PROVE  ReadLaw'
<1> DEFINE e == reader.envelope
<1>1. Reading /\ reader \in Reader /\ e \in Envelope /\ reader.artifact \in Artifacts
  BY DEF ReadKey, Reading, ReadingInv, InBetween, TypeOK, VaultTypeOK, Reader
<1>2. /\ reader'.artifact = reader.artifact /\ reader'.envelope = e
      /\ reader'.result = Decrypt(e, versions)
  BY <1>1 DEF ReadKey, Reader
<1>3. Decrypt(e, versions) \in Results /\ Decrypt(e, versions) # None
  BY NoneIsNothing DEF Decrypt, Results
<1>4. ~Reading'
  BY <1>2, <1>3 DEF Reading
<1>5. Answered'
  BY <1>1, <1>2, WatchReading DEF ReadingInv, InBetween, Answered
<1>6. VerifiedIsFixture'
  <2>1. SUFFICES ASSUME Decrypt(e, versions) = "verified"
                 PROVE  e.sealed = <<reader.artifact, Current>>
    BY <1>2 DEF VerifiedIsFixture
  <2>2. e.sealed = e.public
    BY <2>1 DEF Decrypt
  <2>3. Verify(e, reader.artifact) = "verified"
    BY <1>1 DEF ReadingInv, InBetween
  <2> QED
    BY <2>2, <2>3 DEF Verify
<1>7. NoArtifactNoResult'
  BY <1>1, <1>2, NoneIsNothing DEF NoArtifactNoResult
<1> QED
  BY <1>4, <1>5, <1>6, <1>7 DEF ReadLaw, InBetween

\* Whatever else happens, a reading that is over stays as it is.
LEMMA ReadLawKept ==
    ASSUME TypeOK, ReadingInv, Watch, reader' = reader, InBetween'
    PROVE  ReadLaw'
<1>1. Answered
  BY AnsweredIsAtomic DEF ReadingInv
<1>2. CASE Reading
  BY <1>2, NoneIsNothing
  DEF Reading, ReadingInv, NoArtifactNoResult, VerifiedIsFixture, Answered, ReadLaw
<1>3. CASE ~Reading
  <2>1. seen' = seen
    BY <1>3 DEF Watch
  <2> QED
    BY <1>1, <2>1 DEF ReadingInv, NoArtifactNoResult, VerifiedIsFixture, Answered, ReadLaw
<1> QED
  BY <1>2, <1>3

LEMMA NextReading == TypeOK /\ ReadingInv /\ [Next]_vars => ReadingInv'
<1> SUFFICES ASSUME TypeOK, ReadingInv, [Next]_vars PROVE ReadingInv'
  OBVIOUS
<1>1. CASE Method /\ Watch
  <2>1. KeysExist'
    BY <1>1, KeysKeptReading DEF ReadingInv
  <2>2. CASE reader' = reader
    <3>1. UNCHANGED <<versions, reader>> /\ (Reading => seen \subseteq seen')
      BY <1>1, <2>2, MethodOnVault, WatchReading
    <3>2. InBetween'
      <4>1. /\ Decrypt(reader.envelope, versions)' = Decrypt(reader.envelope, versions)
            /\ Verify(reader.envelope, reader.artifact)' = Verify(reader.envelope, reader.artifact)
            /\ Reading' = Reading
        BY <3>1 DEF Decrypt, Verify, Reading
      <4> QED
        BY <3>1, <4>1 DEF ReadingInv, InBetween
    <3>3. ReadLaw'
      BY <1>1, <2>2, <3>2, ReadLawKept
    <3> QED
      BY <2>1, <3>3, AnsweredIsAtomic, PTL DEF ReadingInv, ReadLaw
  <2>3. CASE reader' = NoReading
    BY <2>1, <2>3, NoneIsNothing
    DEF NoReading, Reading, ReadingInv, InBetween, NoArtifactNoResult, VerifiedIsFixture,
        ReadIsAtomic
  <2>4. CASE reader.artifact = None /\ \E f \in Artifacts : FetchEnvelope(f)
    <3>1. ReadLaw'
      BY <1>1, <2>4, FetchReads
    <3> QED
      BY <2>1, <3>1, AnsweredIsAtomic, PTL DEF ReadingInv, ReadLaw
  <2>5. CASE ReadKey
    <3>1. ReadLaw'
      BY <1>1, <2>5, ReadKeyReads
    <3> QED
      BY <2>1, <3>1, AnsweredIsAtomic, PTL DEF ReadingInv, ReadLaw
  <2> QED
    BY <1>1, <2>2, <2>3, <2>4, <2>5, MethodOnVault
<1>2. CASE VaultStep /\ UNCHANGED caseVars /\ Watch
  <2>1. KeysExist' /\ reader' = reader
    BY <1>2, KeysKeptSeeding DEF ReadingInv
  <2>2. InBetween'
    BY <1>2, InBetweenKept
  <2>3. ReadLaw'
    BY <1>2, <2>1, <2>2, ReadLawKept
  <2> QED
    BY <2>1, <2>3, AnsweredIsAtomic, PTL DEF ReadingInv, ReadLaw
<1>3. CASE UNCHANGED vars
  BY <1>3 DEF vars, vaultVars, ReadingInv, KeysExist, InBetween, NoArtifactNoResult,
              VerifiedIsFixture, ReadIsAtomic, Reading, Verify, Decrypt
<1> QED
  BY <1>1, <1>2, <1>3 DEF Next

LEMMA ReadingHolds == Spec => []ReadingInv
BY InitReading, NextReading, TypeCorrect, PTL DEF Spec

\* What a reading verifies is the fixture of this release, though only the
\* declared hash is compared (vault.py _verify_envelope, _decrypt_envelope).
THEOREM OnlyFixturesVerify == Spec => []VerifiedIsFixture
BY ReadingHolds, PTL DEF ReadingInv

\* A reading in two calls gives an answer the vault had at one moment in
\* between, whatever is seeded or damaged meanwhile (vault.py read_verified).
THEOREM ReadsAreAtomic == Spec => []ReadIsAtomic
BY ReadingHolds, PTL DEF ReadingInv

-----------------------------------------------------------------------------
(* The case.                                                               *)

\* A reading is about the artifact whose turn it is.
ReadsItsTurn ==
    reader.artifact # None =>
        Verifying /\ reader.artifact = Turn /\ Turn \notin case.quarantined

\* Those before it are verified.
BeforeTurn ==
    work.step = "verify" =>
        \A n \in DOMAIN case.consent :
            n < work.next => case.consent[n] \in checked \ case.quarantined

WorkFits ==
    work.step # "idle" =>
        case.state = IF work.step = "notice" THEN "NOTICE_RECEIVED" ELSE "CONSENTED"

IntakeInv == ReadsItsTurn /\ BeforeTurn /\ WorkFits /\ ShownIsVerified /\ ClaimsAreGrounded

LEMMA InitIntake == Init => IntakeInv
BY IdleTyped DEF Init, VaultInit, NoReading, NewCase, IntakeInv, ReadsItsTurn, BeforeTurn,
                 WorkFits, ShownIsVerified, ClaimsAreGrounded

\* A method that ends leaves nothing to be kept but what the mandate says.
LEMMA EndsIntake ==
    ASSUME work' = Idle, reader'.artifact = None, ClaimsAreGrounded'
    PROVE  IntakeInv'
BY IdleTyped DEF IntakeInv, ReadsItsTurn, BeforeTurn, WorkFits, ShownIsVerified

\* No reading is under way but in the verification of a mandate.
LEMMA NoReadingElsewhere ==
    ASSUME IntakeInv, ~Verifying
    PROVE  reader.artifact = None
BY DEF IntakeInv, ReadsItsTurn

LEMMA SameIntake ==
    ASSUME IntakeInv, UNCHANGED <<case, work, checked, reader>>
    PROVE  IntakeInv'
BY DEF IntakeInv, ReadsItsTurn, Verifying, Turn, BeforeTurn, WorkFits, ShownIsVerified,
       Consented, ClaimsAreGrounded

\* A method begins or goes on, and the case is as it was.
LEMMA GoesIntake ==
    ASSUME TypeOK, IntakeInv, NEW step \in Steps, Goes(step), ~Verifying,
           UNCHANGED <<case, reader>>,
           case.state = IF step = "notice" THEN "NOTICE_RECEIVED" ELSE "CONSENTED",
           step \in {"relevance", "claims"} => Consented \subseteq checked' \ case.quarantined
    PROVE  IntakeInv'
<1>1. work' = [step |-> step, next |-> 1]
  BY GoesTyped
<1>2. reader.artifact = None
  BY NoReadingElsewhere
<1>3. \A n \in DOMAIN case.consent : ~(n < 1)
  BY ConsentTyped DEF TypeOK
<1> QED
  BY <1>1, <1>2, <1>3 DEF IntakeInv, ReadsItsTurn, BeforeTurn, WorkFits, ShownIsVerified,
                    Consented, ClaimsAreGrounded

\* The artifact whose turn it is has been verified, and so have all before it.
LEMMA ReadVerifiesIntake ==
    ASSUME TypeOK, ReadingInv, IntakeInv, ReadVerifies
    PROVE  IntakeInv'
<1>1. /\ Verifying /\ reader.result = "verified" /\ reader' = NoReading
      /\ checked' = checked \cup {Turn} /\ case' = case
  BY DEF ReadVerifies, Took
<1>2. reader.artifact # None
  BY <1>1, NoneIsNothing DEF ReadingInv, NoArtifactNoResult, NoReading
<1>3. Turn \notin case.quarantined
  BY <1>2 DEF IntakeInv, ReadsItsTurn
<1>4. work.step = "verify" /\ work'.step = "verify" /\ work'.next = work.next + 1
  BY <1>1 DEF ReadVerifies, Verifying, TypeOK, Work
<1>5. work.next \in Nat /\ \A n \in DOMAIN case.consent : n \in Nat
  BY ConsentTyped DEF TypeOK, Work
<1>6. \A n \in DOMAIN case.consent : n < work.next + 1 => n < work.next \/ n = work.next
  BY <1>5
<1>7. BeforeTurn'
  BY <1>1, <1>3, <1>4, <1>6 DEF IntakeInv, BeforeTurn, Turn
<1>8. ReadsItsTurn'
  BY <1>1 DEF ReadsItsTurn, NoReading
<1>9. WorkFits' /\ ShownIsVerified' /\ ClaimsAreGrounded'
  BY <1>1, <1>4 DEF IntakeInv, WorkFits, ShownIsVerified, ClaimsAreGrounded, Consented
<1> QED
  BY <1>7, <1>8, <1>9 DEF IntakeInv

\* After the last of them, all of the consent is.
LEMMA AskRelevanceIntake ==
    ASSUME TypeOK, IntakeInv, AskRelevance
    PROVE  IntakeInv'
<1>1. /\ work.step = "verify" /\ work.next > Len(case.consent) /\ Goes("relevance")
      /\ UNCHANGED <<case, reader, checked>>
  BY DEF AskRelevance, vaultVars
<1>2. work.next \in Nat /\ Len(case.consent) \in Nat
  BY ConsentTyped, IntakeAssumption DEF TypeOK, Work
<1>3. ~Verifying
  BY <1>1, <1>2 DEF Verifying
<1>4. \A n \in DOMAIN case.consent : n < work.next
  BY <1>1, <1>2, ConsentTyped DEF TypeOK
<1>5. Consented \subseteq checked' \ case.quarantined
  BY <1>1, <1>4, ConsentTyped DEF IntakeInv, BeforeTurn, TypeOK
<1>6. case.state = "CONSENTED"
  BY <1>1 DEF IntakeInv, WorkFits
<1> QED
  BY <1>1, <1>3, <1>5, <1>6, GoesIntake DEF Steps

\* Whatever the model answers.
LEMMA ClaimsReturnIntake ==
    ASSUME TypeOK, IntakeInv, ClaimsReturn
    PROVE  IntakeInv' /\ (case' # case => case'.state # case.state)
<1>1. work.step = "claims" /\ work' = Idle /\ UNCHANGED <<reader, checked>>
  BY DEF ClaimsReturn, Ends, vaultVars
<1>2. case.state = "CONSENTED" /\ Consented \subseteq checked \ case.quarantined
  BY <1>1 DEF IntakeInv, WorkFits, ShownIsVerified
<1>3. reader'.artifact = None
  BY <1>1, NoReadingElsewhere DEF Verifying
<1>4. PICK claims \in Some(ClaimUnit) :
        case' = IF ValidClaims(claims)
                THEN [case EXCEPT !.state = "MANDATE_APPROVED", !.claims = Cited(claims),
                                  !.mandate = [claims |-> DOMAIN claims, artifacts |-> Consented]]
                ELSE case
  BY DEF ClaimsReturn, Ends
<1>5. CASE ~ValidClaims(claims)
  <2>1. case' = case
    BY <1>4, <1>5
  <2>2. ClaimsAreGrounded'
    BY <2>1 DEF IntakeInv, ClaimsAreGrounded, Consented
  <2>3. IntakeInv'
    BY <1>1, <1>3, <2>2, EndsIntake
  <2> QED
    BY <2>1, <2>3
<1>6. CASE ValidClaims(claims)
  <2>1. /\ case'.state = "MANDATE_APPROVED" /\ case'.claims = Cited(claims)
        /\ case'.mandate = [claims |-> DOMAIN claims, artifacts |-> Consented]
        /\ case'.consent = case.consent /\ case'.quarantined = case.quarantined
    BY <1>4, <1>6 DEF TypeOK, CaseDoc
  <2>2. Cited(claims) # << >> /\ DOMAIN Cited(claims) = DOMAIN claims
    BY <1>6, CitedTyped DEF ValidClaims
  <2>3. \A n \in DOMAIN claims :
          Cited(claims)[n] # {} /\ Cited(claims)[n] \subseteq Consented \ case.quarantined
    BY <1>2, <1>6 DEF ValidClaims, Cited
  <2>4. Consented' = Consented
    BY <2>1 DEF Consented
  <2>5. ClaimsAreGrounded'
    BY <2>1, <2>2, <2>3, <2>4 DEF ClaimsAreGrounded
  <2>6. IntakeInv'
    BY <1>1, <1>3, <2>5, EndsIntake
  <2> QED
    BY <1>2, <2>1, <2>6
<1> QED
  BY <1>5, <1>6

\* The methods that end without a claim.
LEMMA OthersEndIntake ==
    ASSUME TypeOK, IntakeInv, NoticeReturns \/ Consent \/ ReadQuarantines \/ MethodRaises
    PROVE  IntakeInv'
<1>1. work' = Idle
  BY DEF NoticeReturns, Consent, ReadQuarantines, MethodRaises, Ends
<1>2. reader'.artifact = None
  <2>1. CASE NoticeReturns \/ Consent
    <3>1. ~Verifying /\ reader' = reader
      BY <2>1, IdleTyped DEF NoticeReturns, Consent, Verifying, vaultVars
    <3> QED
      BY <3>1, NoReadingElsewhere
  <2>2. CASE ReadQuarantines \/ MethodRaises
    BY <2>2 DEF ReadQuarantines, MethodRaises, Took, NoReading
  <2> QED
    BY <2>1, <2>2
<1>3. case' = case \/ case'.state # "MANDATE_APPROVED"
  <2>1. CASE NoticeReturns
    BY <2>1 DEF NoticeReturns, Ends, TypeOK, CaseDoc
  <2>2. CASE Consent
    BY <2>2 DEF Consent, Ends, TypeOK, CaseDoc
  <2>3. CASE ReadQuarantines
    <3>1. case.state = "CONSENTED"
      BY <2>3 DEF ReadQuarantines, Took, Verifying, IntakeInv, WorkFits
    <3> QED
      BY <2>3, <3>1 DEF ReadQuarantines, Ends, TypeOK, CaseDoc
  <2>4. CASE MethodRaises
    BY <2>4 DEF MethodRaises
  <2> QED
    BY <2>1, <2>2, <2>3, <2>4
<1>4. ClaimsAreGrounded'
  BY <1>3 DEF IntakeInv, ClaimsAreGrounded, Consented
<1> QED
  BY <1>1, <1>2, <1>4, EndsIntake

LEMMA NextIntake == TypeOK /\ ReadingInv /\ IntakeInv /\ [Next]_vars => IntakeInv'
<1> SUFFICES ASSUME TypeOK, ReadingInv, IntakeInv, [Next]_vars PROVE IntakeInv'
  OBVIOUS
<1>1. CASE NoticeBegins
  <2>1. ~Verifying /\ Goes("notice") /\ UNCHANGED <<case, reader>> /\ case.state = "NOTICE_RECEIVED"
    BY <1>1, IdleTyped DEF NoticeBegins, Verifying, vaultVars
  <2> QED
    BY <2>1, GoesIntake DEF Steps
<1>2. CASE MandateBegins
  <2>1. ~Verifying /\ Goes("verify") /\ UNCHANGED <<case, reader>> /\ case.state = "CONSENTED"
    BY <1>2, IdleTyped DEF MandateBegins, Verifying, vaultVars
  <2> QED
    BY <2>1, GoesIntake DEF Steps
<1>3. CASE NoticeReturns \/ Consent \/ ReadQuarantines \/ MethodRaises
  BY <1>3, OthersEndIntake
<1>4. CASE ReadBegins
  <2>1. reader'.artifact = Turn /\ Turn \notin case.quarantined /\ Verifying
        /\ UNCHANGED <<case, work, checked>>
    BY <1>4 DEF ReadBegins, FetchEnvelope, caseVars
  <2> QED
    BY <2>1 DEF IntakeInv, ReadsItsTurn, Verifying, Turn, BeforeTurn, WorkFits,
                ShownIsVerified, Consented, ClaimsAreGrounded
<1>5. CASE ReadGoesOn
  <2>1. reader'.artifact = reader.artifact /\ UNCHANGED <<case, work, checked>>
    BY <1>5 DEF ReadGoesOn, ReadKey, caseVars, TypeOK, VaultTypeOK, Reader
  <2> QED
    BY <2>1 DEF IntakeInv, ReadsItsTurn, Verifying, Turn, BeforeTurn, WorkFits,
                ShownIsVerified, Consented, ClaimsAreGrounded
<1>6. CASE ReadVerifies
  BY <1>6, ReadVerifiesIntake
<1>7. CASE AskRelevance
  BY <1>7, AskRelevanceIntake
<1>8. CASE RelevanceReturns
  <2>1. /\ work.step = "relevance" /\ (Goes("claims") \/ work' = Idle)
        /\ UNCHANGED <<case, reader, checked>>
    BY <1>8 DEF RelevanceReturns, vaultVars
  <2>2. /\ ~Verifying /\ case.state = "CONSENTED"
        /\ Consented \subseteq checked' \ case.quarantined
    BY <2>1 DEF Verifying, IntakeInv, WorkFits, ShownIsVerified
  <2>3. CASE Goes("claims")
    BY <2>1, <2>2, <2>3, GoesIntake DEF Steps
  <2>4. CASE work' = Idle
    <3>1. reader'.artifact = None
      BY <2>1, <2>2, NoReadingElsewhere
    <3>2. ClaimsAreGrounded'
      BY <2>1 DEF IntakeInv, ClaimsAreGrounded, Consented
    <3> QED
      BY <2>4, <3>1, <3>2, EndsIntake
  <2> QED
    BY <2>1, <2>3, <2>4
<1>9. CASE ClaimsReturn
  BY <1>9, ClaimsReturnIntake
<1>10. CASE ConsentExpires
  BY <1>10, SameIntake DEF ConsentExpires, vaultVars
<1>11. CASE VaultStep /\ UNCHANGED caseVars
  BY <1>11, KeysKeptSeeding, SameIntake DEF ReadingInv, caseVars
<1>12. CASE UNCHANGED vars
  BY <1>12, SameIntake DEF vars, vaultVars, caseVars
<1> QED
  BY <1>1, <1>2, <1>3, <1>4, <1>5, <1>6, <1>7, <1>8, <1>9, <1>10, <1>11, <1>12
  DEF Next, Method

LEMMA IntakeHolds == Spec => []IntakeInv
BY InitIntake, NextIntake, TypeCorrect, ReadingHolds, PTL DEF Spec

\* The model is shown what this mandate verified, and nothing quarantined
\* (main.py mandate, verify_vault_artifact).
THEOREM OnlyVerifiedIsShown == Spec => []ShownIsVerified
BY IntakeHolds, PTL DEF IntakeInv

\* However the model answers, a mandate approves claims that cite only what
\* the user consented to (main.py validate_claims, mandate).
THEOREM MandatesAreGrounded == Spec => []ClaimsAreGrounded
BY IntakeHolds, PTL DEF IntakeInv

\* A step that changes the case but not its state is a quarantine, and of an
\* artifact that could not be read.
LEMMA NothingHalfDoneStep ==
    ASSUME TypeOK, ReadingInv, IntakeInv, [Next]_vars,
           case'.state = case.state, case' # case
    PROVE  \E f \in Consented \ case.quarantined :
              /\ case' = [case EXCEPT !.quarantined = @ \cup {f}]
              /\ reader.artifact = f /\ FALSE \in seen
<1>1. CASE ReadQuarantines
  <2>1. /\ Verifying /\ reader.result = "integrity"
        /\ case' = [case EXCEPT !.quarantined = @ \cup {Turn}]
    BY <1>1 DEF ReadQuarantines, Took, Ends
  <2>2. reader.result # None /\ reader.artifact # None
    BY <2>1, VaultNoneAssumption DEF Results, ReadingInv, NoArtifactNoResult, NoReading
  <2>3. reader.artifact = Turn /\ Turn \in Consented \ case.quarantined
    BY <2>1, <2>2, TurnTyped DEF IntakeInv, ReadsItsTurn, TypeOK, CaseShape
  <2>4. Answered
    BY AnsweredIsAtomic DEF ReadingInv
  <2>5. FALSE \in seen
    BY <2>1, <2>2, <2>4 DEF Answered
  <2> QED
    BY <2>1, <2>3, <2>5
<1>2. CASE ClaimsReturn
  BY <1>2, ClaimsReturnIntake
<1>3. CASE NoticeReturns
  <2>1. case.state = "NOTICE_RECEIVED"
    BY <1>3 DEF NoticeReturns, IntakeInv, WorkFits
  <2> QED
    BY <1>3, <2>1 DEF NoticeReturns, Ends, TypeOK, CaseDoc
<1>4. CASE Consent
  BY <1>4 DEF Consent, Ends, TypeOK, CaseDoc
<1>5. CASE \/ NoticeBegins \/ MandateBegins \/ ReadBegins \/ ReadGoesOn \/ ReadVerifies
           \/ AskRelevance \/ RelevanceReturns \/ MethodRaises \/ ConsentExpires
           \/ UNCHANGED caseVars \/ UNCHANGED vars
  BY <1>5 DEF NoticeBegins, MandateBegins, ReadBegins, ReadGoesOn, ReadVerifies, AskRelevance,
              RelevanceReturns, MethodRaises, ConsentExpires, vars, caseVars
<1> QED
  BY <1>1, <1>2, <1>3, <1>4, <1>5 DEF Next, Method

\* A method that fails leaves the case as it was, but for the artifact it could
\* not read (main.py quarantine_artifact, mandate, notice).
THEOREM FailuresChangeNothing == Spec => NothingHalfDone
<1>1. TypeOK /\ ReadingInv /\ IntakeInv /\ [Next]_vars =>
        [case'.state = case.state /\ case' # case =>
           \E f \in Consented \ case.quarantined :
              /\ case' = [case EXCEPT !.quarantined = @ \cup {f}]
              /\ reader.artifact = f /\ FALSE \in seen]_vars
  BY NothingHalfDoneStep
<1> QED
  BY <1>1, TypeCorrect, ReadingHolds, IntakeHolds, PTL DEF Spec, NothingHalfDone

=============================================================================

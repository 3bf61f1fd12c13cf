----------------------------- MODULE EvidenceVault -----------------------------
(***************************************************************************)
(* The evidence vault (apps/appealos/app/vault.py) and the script that     *)
(* seeds it (scripts/seed_evidence_vault.py): envelopes in Cloud Storage,  *)
(* versions of one AES key in Secret Manager.  Two seeding runs may race   *)
(* for the first key version, a run may fail between any two remote calls, *)
(* objects are damaged or mixed up, and a reader takes the envelope and    *)
(* the key at two different moments.  (Intake has the reader at work.)     *)
(***************************************************************************)
EXTENDS Naturals, Sequences

CONSTANTS
    Order,     \* the artifacts, in the order the script uploads them
    Releases,  \* releases of the code, which differ in the evidence fixtures
    Current,   \* the release the service runs
    Seeders,   \* runs of the script that may overlap
    None,      \* no object, no artifact
    MaxFaults  \* bounds damage and failed remote calls

Artifacts == {Order[n] : n \in 1 .. Len(Order)}

ASSUME OrderAssumption == Order \in Seq(Artifacts) /\ Order # << >>
ASSUME ReleasesAssumption == Current \in Releases
ASSUME VaultFaultsAssumption == MaxFaults \in Nat

VARIABLES
    versions,  \* versions of the key; each version is a new random key
    objects,   \* the bucket: one object per artifact
    seeders,   \* runs of the script
    reader,    \* one read_verified
    seen,      \* history: was its artifact readable, at the moments in between
    faults

vaultVars == <<versions, objects, seeders, reader, seen, faults>>

\* The plaintext of an artifact in a release.  Its hash tells it from every
\* other, and so does the AAD, which holds artifact id and hash.
Fixtures == Artifacts \X Releases

\* What damage the checks meet: in the JSON text, a public field that is
\* compared, or the ciphertext; in nonce or tag; in a base64 field, which then
\* does not decode.  (Nothing reads the fields that are not compared.)
Flaws == {"none", "public", "tag", "encoding"}

\* "public" is what the plain fields say, "sealed" what was encrypted.
Envelope == [public : Fixtures, sealed : Fixtures, key : Nat, flaw : Flaws]

\* A key version is read before anything is sealed, so 0 stands for none yet.
Seeder == [stage : {"idle", "adding", "uploading"}, key : Nat, next : 1 .. Len(Order)]
IdleSeeder == [stage |-> "idle", key |-> 0, next |-> 1]

\* Verified, quarantined by the service (EvidenceIntegrityError), or any other
\* exception: a 500 that changes nothing.
Results == {"verified", "integrity", "error"}
Reader == [artifact : Artifacts \cup {None}, envelope : Envelope \cup {None},
           result : Results \cup {None}]
NoReading == [artifact |-> None, envelope |-> None, result |-> None]

ASSUME VaultNoneAssumption == None \notin Artifacts \cup Results

\* upload_artifact: hash, AAD and ciphertext all come from the one fixture.
Sealed(f, r, key) ==
    [public |-> <<f, r>>, sealed |-> <<f, r>>, key |-> key, flaw |-> "none"]

VaultTypeOK ==
    /\ versions \in Nat
    /\ objects \in [Artifacts -> Envelope \cup {None}]
    /\ seeders \in [Seeders -> Seeder]
    /\ reader \in Reader
    /\ seen \subseteq BOOLEAN
    /\ faults \in 0 .. MaxFaults

\* Nothing was ever seeded, or the script of some release was run once.
VaultInit ==
    /\ \/ versions = 0 /\ objects = [f \in Artifacts |-> None]
       \/ /\ versions = 1
          /\ \E r \in Releases : objects = [f \in Artifacts |-> Sealed(f, r, 1)]
    /\ seeders = [s \in Seeders |-> IdleSeeder]
    /\ reader = NoReading
    /\ seen = {}
    /\ faults = 0

-----------------------------------------------------------------------------
(* Reading.                                                                *)

\* Mutant: the public fields are not compared with the fixture.
VerifyLoosely(e, f) ==
    CASE e = None \/ e.flaw = "public"  -> "integrity"
      [] e.public[1] # f                -> "integrity"
      [] e.flaw = "encoding"            -> "error"
      [] OTHER                          -> "verified"

\* fetch_envelope and _verify_envelope.
Verify(e, f) ==
    CASE e = None                       -> "integrity"
      [] e.flaw = "public"              -> "integrity"
      [] e.public # <<f, Current>>      -> "integrity"
      [] e.flaw = "encoding"            -> "error"
      [] OTHER                          -> "verified"

\* Decryption authenticates the key, the tag and the AAD; the plaintext is not
\* hashed again.
Decrypt(e, key) ==
    IF e.key = key /\ e.flaw # "tag" /\ e.sealed = e.public
    THEN "verified" ELSE "integrity"

\* The artifacts one look at the whole vault would find readable.
Readable == {f \in Artifacts : Verify(objects[f], f) = "verified"
                                  /\ Decrypt(objects[f], versions) = "verified"}

Reading == reader.artifact # None /\ reader.result = None

\* The envelope is downloaded and checked.
FetchEnvelope(f) ==
    LET checked == Verify(objects[f], f)
    IN  /\ ~Reading
        /\ reader' = IF checked = "verified"
                     THEN [artifact |-> f, envelope |-> objects[f], result |-> None]
                     ELSE [artifact |-> f, envelope |-> None, result |-> checked]
        /\ UNCHANGED <<versions, objects, seeders, faults>>

\* Mutant: the key is read once, when the process starts.
ReadKeyCached ==
    /\ Reading
    /\ reader' = [reader EXCEPT !.result = Decrypt(reader.envelope, 1)]
    /\ UNCHANGED <<versions, objects, seeders, faults>>

\* The latest key version is read and the envelope decrypted.
ReadKey ==
    /\ Reading
    /\ reader' = [reader EXCEPT !.result = Decrypt(reader.envelope, versions)]
    /\ UNCHANGED <<versions, objects, seeders, faults>>

-----------------------------------------------------------------------------
(* Seeding.                                                                *)

\* ensure_demo_key: the latest version is reused; if there is none, one is
\* about to be added.
SeedingBegins(s) ==
    /\ seeders[s].stage = "idle"
    /\ seeders' = [seeders EXCEPT
                      ![s].stage = IF versions = 0 THEN "adding" ELSE "uploading",
                      ![s].key = versions]
    /\ UNCHANGED <<versions, objects, reader, faults>>

\* Nobody looks again whether another run was faster.
AddKeyVersion(s) ==
    /\ seeders[s].stage = "adding"
    /\ versions' = versions + 1
    /\ seeders' = [seeders EXCEPT ![s].stage = "uploading", ![s].key = versions + 1]
    /\ UNCHANGED <<objects, reader, faults>>

\* The run ends with the last artifact.
NextUpload(run) ==
    IF run.next = Len(Order) THEN IdleSeeder ELSE [run EXCEPT !.next = @ + 1]

\* Mutant: an artifact that is already there is left alone.
UploadMissing(s) ==
    LET f == Order[seeders[s].next]
    IN  /\ seeders[s].stage = "uploading"
        /\ objects' = IF objects[f] # None THEN objects
                      ELSE [objects EXCEPT ![f] = Sealed(f, Current, seeders[s].key)]
        /\ seeders' = [seeders EXCEPT ![s] = NextUpload(seeders[s])]
        /\ UNCHANGED <<versions, reader, faults>>

\* One artifact after the other.
Upload(s) ==
    LET f == Order[seeders[s].next]
    IN  /\ seeders[s].stage = "uploading"
        /\ objects' = [objects EXCEPT ![f] = Sealed(f, Current, seeders[s].key)]
        /\ seeders' = [seeders EXCEPT ![s] = NextUpload(seeders[s])]
        /\ UNCHANGED <<versions, reader, faults>>

Fault == faults < MaxFaults /\ faults' = faults + 1

\* A remote call raises: the script stops where it is.
SeedingFails(s) ==
    /\ Fault
    /\ seeders[s].stage # "idle"
    /\ seeders' = [seeders EXCEPT ![s] = IdleSeeder]
    /\ UNCHANGED <<versions, objects, reader>>

\* An object is damaged, replaced by a copy of another or lost, or gets the
\* ciphertext of another.
Damage(f) ==
    /\ Fault
    /\ objects[f] # None
    /\ \/ \E flaw \in Flaws \ {"none"} : objects' = [objects EXCEPT ![f].flaw = flaw]
       \/ \E g \in Artifacts : objects' = [objects EXCEPT ![f] = objects[g]]
       \/ \E g \in Artifacts :
            /\ objects[g] # None
            /\ objects' = [objects EXCEPT ![f].sealed = objects[g].sealed,
                                          ![f].key = objects[g].key]
    /\ UNCHANGED <<versions, seeders, reader>>

-----------------------------------------------------------------------------
SeedStep(s) == AddKeyVersion(s) \/ Upload(s)

\* The history covers a reading from its download to its result.
Watch ==
    seen' = IF Reading THEN seen \cup {reader.artifact \in Readable'}
            ELSE IF reader' # reader THEN {reader'.artifact \in Readable'} ELSE seen

\* What happens to the vault while it is read.
VaultStep ==
    \/ \E f \in Artifacts : Damage(f)
    \/ \E s \in Seeders : SeedingBegins(s) \/ SeedStep(s) \/ SeedingFails(s)

-----------------------------------------------------------------------------
(* Properties.                                                             *)

\* What read_verified returns is the current fixture of the artifact it was
\* asked for, though the plaintext is never hashed: objects mixed up, sealed by
\* another release or under another key do not pass.
VerifiedIsFixture ==
    reader.result = "verified" => reader.envelope.sealed = <<reader.artifact, Current>>

\* A reading takes the envelope and the key at two moments, while seeding runs
\* add keys and replace envelopes.  Still it verifies only an artifact that was
\* readable at some moment in between, and fails only on one that was not: no
\* artifact is quarantined that was readable all along (AppealWorkflow looks at
\* the vault in one step for that).
ReadIsAtomic ==
    reader.result # None => (reader.result = "verified") \in seen

=============================================================================

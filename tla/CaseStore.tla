------------------------------ MODULE CaseStore ------------------------------
(***************************************************************************)
(* One case in Firestore (apps/appealos/app/store.py) and its hash-chained *)
(* timeline (domain.py record, verify_timeline).                           *)
(*                                                                         *)
(* AppealWorkflow saves a case in one step.  Here a save is what the code  *)
(* does: the snapshot document is set, then the events are committed in a  *)
(* batch, and the process may fail in between.  Writers are serialized by  *)
(* the workflow lock; readers (GET /demo/case, verify-timeline) are not.   *)
(***************************************************************************)
EXTENDS Integers, FiniteSets

CONSTANTS
    MaxVersion,   \* bounds the number of events recorded
    MaxFailures,  \* bounds the number of saves that fail
    None          \* no snapshot, no previous event

ASSUME BoundsAssumption == MaxVersion \in Nat /\ MaxFailures \in Nat
ASSUME NoneAssumption == None \notin 0 .. MaxVersion

VARIABLES
    snapshot,  \* the case document: its version; None before the first save
    events,    \* the documents of the events subcollection
    writer,    \* the method that holds the workflow lock
    reader,    \* a GET of the case
    failures   \* saves that failed so far

vars == <<snapshot, events, writer, reader, failures>>

-----------------------------------------------------------------------------
(* Events.  A hash identifies its event; a version recorded again after a  *)
(* failure gives another event, so version and failures name it.           *)

Hashes == (1 .. MaxVersion) \X (0 .. MaxFailures)
Event == [hash : Hashes, version : 1 .. MaxVersion, previous : Hashes \cup {None}]

Latest(timeline) == CHOOSE e \in timeline : \A f \in timeline : f.version <= e.version
HeadHash(timeline) == IF timeline = {} THEN None ELSE Latest(timeline).hash
Before(timeline, e) == {f \in timeline : f.version < e.version}

\* verify_timeline over the events ordered by version: each one names the hash
\* of the one before it.
Verified(timeline) ==
    /\ \A e, f \in timeline : e.version = f.version => e = f
    /\ \A e \in timeline : e.previous = HeadHash(Before(timeline, e))

\* The case in memory.  "notice" is deadlineSourceText: the text the user sent,
\* or the synthetic default.
Notices == {"synthetic", "user"}
Draft == [version : 0 .. MaxVersion, timeline : SUBSET Event, notice : Notices]
NewCase == [version |-> 0, timeline |-> {}, notice |-> "synthetic"]

\* Mutant: the save counts one version more.
ToPersistableBumped(case) == case.version + 1

\* to_persistable has no deadlineSourceText, so from_persistable takes the
\* default; the timeline is read from the subcollection.
ToPersistable(case) == case.version
FromPersistable(version, timeline) ==
    [version |-> version, timeline |-> timeline, notice |-> "synthetic"]

Load == IF snapshot = None THEN NewCase ELSE FromPersistable(snapshot, events)

\* Mutant: the version is not advanced.
RecordedSameVersion(case) ==
    [case EXCEPT !.timeline = @ \cup {[hash |-> <<case.version + 1, failures>>,
                                       version |-> case.version + 1,
                                       previous |-> HeadHash(case.timeline)]}]

\* record: the next version, chained to the last event of the timeline.
Recorded(case) ==
    [case EXCEPT !.version = @ + 1,
                 !.timeline = @ \cup {[hash |-> <<case.version + 1, failures>>,
                                       version |-> case.version + 1,
                                       previous |-> HeadHash(case.timeline)]}]

Idle == [stage |-> "idle", case |-> NewCase]
Away == [stage |-> "away", version |-> 0, timeline |-> {}]

TypeOK ==
    /\ snapshot \in 0 .. MaxVersion \cup {None}
    /\ events \subseteq Event
    /\ writer \in [stage : {"idle", "saving", "snapshotSet"}, case : Draft]
    /\ reader \in [stage : {"away", "snapshotRead", "answered"},
                   version : 0 .. MaxVersion, timeline : SUBSET Event]
    /\ failures \in 0 .. MaxFailures

Init ==
    /\ snapshot = None
    /\ events = {}
    /\ writer = Idle
    /\ reader = Away
    /\ failures = 0

-----------------------------------------------------------------------------
(* A mutating method: load, record one event or two, save.                 *)

\* The second event of a case is that of the notice, which keeps its text.
Work ==
    /\ writer.stage = "idle"
    /\ \E n \in {1, 2} :
         LET loaded == Load
             case == IF loaded.version = 1 THEN [loaded EXCEPT !.notice = "user"] ELSE loaded
         IN  /\ loaded.version + n <= MaxVersion
             /\ loaded.version < 2 => n = 1
             /\ writer' = [stage |-> "saving",
                           case |-> IF n = 1 THEN Recorded(case) ELSE Recorded(Recorded(case))]
    /\ UNCHANGED <<snapshot, events, reader, failures>>

SetSnapshot ==
    /\ writer.stage = "saving"
    /\ snapshot' = ToPersistable(writer.case)
    /\ writer' = [writer EXCEPT !.stage = "snapshotSet"]
    /\ UNCHANGED <<events, reader, failures>>

\* Mutant: only the last event is written.
CommitLastEvent ==
    /\ writer.stage = "snapshotSet"
    /\ events' = events \cup {Latest(writer.case.timeline)}
    /\ writer' = Idle
    /\ UNCHANGED <<snapshot, reader, failures>>

\* Every event of the timeline is written again, under its own id.
CommitEvents ==
    /\ writer.stage = "snapshotSet"
    /\ events' = events \cup writer.case.timeline
    /\ writer' = Idle
    /\ UNCHANGED <<snapshot, reader, failures>>

\* The process dies, or a call to Firestore raises, before a write is done.
SaveFails ==
    /\ writer.stage # "idle"
    /\ failures < MaxFailures
    /\ failures' = failures + 1
    /\ writer' = Idle
    /\ UNCHANGED <<snapshot, events, reader>>

-----------------------------------------------------------------------------
(* A GET reads the snapshot and then the events, without the lock.         *)

ReadSnapshot ==
    /\ reader.stage = "away"
    /\ snapshot # None
    /\ reader' = [Away EXCEPT !.stage = "snapshotRead", !.version = snapshot]
    /\ UNCHANGED <<snapshot, events, writer, failures>>

ReadEvents ==
    /\ reader.stage = "snapshotRead"
    /\ reader' = [reader EXCEPT !.stage = "answered", !.timeline = events]
    /\ UNCHANGED <<snapshot, events, writer, failures>>

ReaderLeaves ==
    /\ reader.stage = "answered"
    /\ reader' = Away
    /\ UNCHANGED <<snapshot, events, writer, failures>>

Next ==
    \/ Work \/ SetSnapshot \/ CommitEvents \/ SaveFails
    \/ ReadSnapshot \/ ReadEvents \/ ReaderLeaves

Spec == Init /\ [][Next]_vars

-----------------------------------------------------------------------------
(* Properties.                                                             *)

\* The stored timeline verifies at every moment, and so does the one of any
\* answer, though answers are read without the lock and saves fail half-way:
\* a save that failed never makes the chain look tampered with.
ChainVerifies ==
    /\ Verified(events)
    /\ reader.stage = "answered" => Verified(reader.timeline)

Versions(timeline) == {e.version : e \in timeline}
Missing == IF snapshot = None THEN {} ELSE (1 .. snapshot) \ Versions(events)

\* Between saves, the events missing from the timeline are those of saves that
\* failed, two at most for each.
GapsAreFailures ==
    writer.stage # "snapshotSet" => Cardinality(Missing) <= 2 * failures

\* "one complete, hash-chained Agent action timeline" (README.md:70): between
\* saves the timeline holds an event for every version of the case.
TimelineComplete == writer.stage = "idle" => Missing = {}

\* "Full round-trip representation used by durable stores." (domain.py:384):
\* a case loaded after its notice was saved has the text of that notice.
NoticeSurvives == snapshot # None /\ snapshot >= 2 => Load.notice = "user"

=============================================================================

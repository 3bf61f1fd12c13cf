---------------------------- MODULE CaseStoreProofs ----------------------------
(***************************************************************************)
(* The stored timeline always verifies, and what is missing from it is     *)
(* accounted for by failed saves, for any number of versions and failures. *)
(*                                                                         *)
(* Neither is inductive.  A save writes the snapshot and the events apart, *)
(* so the invariant says what the writer holds meanwhile: a timeline that  *)
(* verifies, extends the stored one by two events at most, and has no gap  *)
(* the stored one had not.                                                 *)
(***************************************************************************)
EXTENDS CaseStore, FiniteSetTheorems, TLAPS

\* The version of the stored snapshot, which no stored event exceeds.
Version == IF snapshot = None THEN 0 ELSE snapshot

\* A timeline has an event none is later than, unless it has none: without it
\* Latest would choose nothing.
HasHead(timeline) ==
    timeline # {} => \E e \in timeline : \A f \in timeline : f.version <= e.version

\* A timeline that verifies and ends at the version of its case, or before.
Chained(timeline, version) ==
    /\ Verified(timeline)
    /\ HasHead(timeline)
    /\ \A e \in timeline : e.version <= version

\* The versions up to this one for which the timeline holds no event.
Gaps(timeline, version) == (1 .. version) \ Versions(timeline)

\* What the writer is about to store, until it is stored.
WriterAhead ==
    LET case == writer.case
    IN  /\ Chained(case.timeline, case.version)
        /\ events \subseteq case.timeline
        /\ Versions(case.timeline) \ Versions(events) \subseteq {case.version - 1, case.version}
        /\ Cardinality(Gaps(case.timeline, case.version)) <= 2 * failures
        /\ writer.stage = "snapshotSet" => snapshot = case.version

StoreInv ==
    /\ TypeOK
    /\ Chained(events, Version)
    /\ writer.stage # "idle" => WriterAhead
    /\ reader.stage = "answered" => Verified(reader.timeline)
    /\ GapsAreFailures

-----------------------------------------------------------------------------
(* Timelines.                                                              *)

LEMMA EmptyTimeline ==
    /\ Chained({}, 0)
    /\ Gaps({}, 0) = {} /\ Cardinality(Gaps({}, 0)) = 0
<1>1. 1 .. 0 = {}
  OBVIOUS
<1> QED
  BY <1>1, FS_EmptySet DEF Chained, Verified, HasHead, Gaps

LEMMA AddedElement ==
    ASSUME NEW S, IsFiniteSet(S), NEW x
    PROVE  IsFiniteSet(S \cup {x}) /\ Cardinality(S \cup {x}) <= Cardinality(S) + 1
<1>1. Cardinality(S) \in Nat
  BY FS_CardinalityType
<1>2. /\ IsFiniteSet(S \cup {x})
      /\ \/ Cardinality(S \cup {x}) = Cardinality(S)
         \/ Cardinality(S \cup {x}) = Cardinality(S) + 1
  BY FS_AddElement
<1> QED
  BY <1>1, <1>2

LEMMA HeadTyped ==
    ASSUME NEW timeline, timeline \subseteq Event, HasHead(timeline)
    PROVE  HeadHash(timeline) \in Hashes \cup {None}
<1>1. CASE timeline = {}
  BY <1>1 DEF HeadHash
<1>2. CASE timeline # {}
  <2>1. \E e \in timeline : \A f \in timeline : f.version <= e.version
    BY <1>2 DEF HasHead
  <2>2. Latest(timeline) \in timeline
    BY <2>1 DEF Latest
  <2> QED
    BY <1>2, <2>2 DEF HeadHash, Event
<1> QED
  BY <1>1, <1>2

\* An event of the next version, chained to the head of the timeline, leaves
\* a timeline that verifies: nothing before it changes (domain.py record).
LEMMA ExtendedTimeline ==
    ASSUME NEW timeline, timeline \subseteq Event, NEW version \in 0 .. MaxVersion,
           version < MaxVersion, Chained(timeline, version),
           NEW event \in Event, event.version = version + 1,
           event.previous = HeadHash(timeline)
    PROVE  /\ Chained(timeline \cup {event}, version + 1)
           /\ Versions(timeline \cup {event}) = Versions(timeline) \cup {version + 1}
           /\ Gaps(timeline \cup {event}, version + 1) = Gaps(timeline, version)
<1> DEFINE longer == timeline \cup {event}
<1>1. \A e \in timeline : e.version \in Nat /\ e.version <= version
  BY BoundsAssumption DEF Chained, Event
<1>2. \A e \in timeline : Before(longer, e) = Before(timeline, e)
  BY <1>1 DEF Before
<1>3. Before(longer, event) = timeline
  BY <1>1 DEF Before
<1>4. Verified(longer)
  <2>1. \A e, f \in longer : e.version = f.version => e = f
    BY <1>1 DEF Verified, Chained
  <2>2. ASSUME NEW e \in longer PROVE e.previous = HeadHash(Before(longer, e))
    <3>1. CASE e \in timeline
      BY <1>2, <3>1 DEF Verified, Chained
    <3>2. CASE e = event
      BY <1>3, <3>2
    <3> QED
      BY <3>1, <3>2
  <2> QED
    BY <2>1, <2>2 DEF Verified
<1>5. \A e \in longer : e.version <= event.version
  BY <1>1
<1>6. HasHead(longer)
  BY <1>5 DEF HasHead
<1>7. Versions(longer) = Versions(timeline) \cup {version + 1}
  BY DEF Versions
<1>8. version + 1 \notin Versions(timeline)
  BY <1>1 DEF Versions
<1>9. 1 .. (version + 1) = (1 .. version) \cup {version + 1}
  OBVIOUS
<1>10. Gaps(longer, version + 1) = Gaps(timeline, version)
  <2>1. version + 1 \notin 1 .. version
    OBVIOUS
  <2> QED
    BY <1>7, <1>9, <2>1 DEF Gaps
<1> QED
  BY <1>4, <1>5, <1>6, <1>7, <1>10 DEF Chained

LEMMA RecordedChains ==
    ASSUME TypeOK, NEW case \in Draft, case.version < MaxVersion,
           Chained(case.timeline, case.version)
    PROVE  LET r == Recorded(case)
           IN  /\ r \in Draft /\ r.version = case.version + 1
               /\ Chained(r.timeline, r.version)
               /\ case.timeline \subseteq r.timeline
               /\ Versions(r.timeline) = Versions(case.timeline) \cup {r.version}
               /\ Gaps(r.timeline, r.version) = Gaps(case.timeline, case.version)
<1> DEFINE event == [hash |-> <<case.version + 1, failures>>,
                     version |-> case.version + 1,
                     previous |-> HeadHash(case.timeline)]
<1>1. case.version \in 0 .. MaxVersion /\ case.timeline \subseteq Event
  BY DEF Draft
<1>2. event \in Event
  <2>1. HeadHash(case.timeline) \in Hashes \cup {None}
    BY <1>1, HeadTyped DEF Chained
  <2>2. case.version + 1 \in 1 .. MaxVersion /\ failures \in 0 .. MaxFailures
    BY <1>1, BoundsAssumption DEF TypeOK
  <2>3. <<case.version + 1, failures>> \in Hashes
    BY <2>2 DEF Hashes
  <2> QED
    BY <2>1, <2>2, <2>3 DEF Event
<1>3. event.version = case.version + 1 /\ event.previous = HeadHash(case.timeline)
  OBVIOUS
<1>4. Recorded(case) = [case EXCEPT !.version = case.version + 1,
                                    !.timeline = case.timeline \cup {event}]
  BY DEF Recorded
<1> HIDE DEF event
<1>5. /\ Recorded(case) \in Draft
      /\ Recorded(case).version = case.version + 1
      /\ Recorded(case).timeline = case.timeline \cup {event}
  <2>1. case.version + 1 \in 0 .. MaxVersion
    BY <1>1, BoundsAssumption
  <2>2. case.timeline \cup {event} \in SUBSET Event
    BY <1>1, <1>2
  <2> QED
    BY <1>4, <2>1, <2>2 DEF Draft
<1>6. /\ Chained(case.timeline \cup {event}, case.version + 1)
      /\ Versions(case.timeline \cup {event}) = Versions(case.timeline) \cup {case.version + 1}
      /\ Gaps(case.timeline \cup {event}, case.version + 1) = Gaps(case.timeline, case.version)
  BY <1>1, <1>2, <1>3, ExtendedTimeline
<1> QED
  BY <1>5, <1>6

-----------------------------------------------------------------------------
(* The initial state and the steps.                                        *)

LEMMA InitStore == Init => StoreInv
<1> SUFFICES ASSUME Init PROVE StoreInv
  OBVIOUS
<1>1. TypeOK
  BY BoundsAssumption DEF Init, TypeOK, Idle, NewCase, Away, Draft, Notices
<1>2. Missing = {} /\ failures = 0 /\ Cardinality(Missing) = 0
  BY FS_EmptySet DEF Init, Missing
<1>3. GapsAreFailures
  BY <1>2 DEF GapsAreFailures
<1>4. Chained(events, Version)
  BY EmptyTimeline DEF Init, Version
<1> QED
  BY <1>1, <1>3, <1>4 DEF Init, StoreInv, Idle, Away

\* The gaps of what is stored, when no save is between its two writes.
LEMMA MissingAreGaps ==
    TypeOK => /\ Missing = Gaps(events, Version)
              /\ Version \in 0 .. MaxVersion
<1>1. 1 .. 0 = {}
  OBVIOUS
<1> QED
  BY <1>1, BoundsAssumption, NoneAssumption DEF Missing, Gaps, Version, TypeOK

\* What a method loads, with the text of its notice or the default.
LEMMA LoadedCase ==
    ASSUME StoreInv, NEW n \in Notices
    PROVE  LET loaded == [Load EXCEPT !.notice = n]
           IN  /\ Load \in Draft /\ loaded \in Draft
               /\ Load.version = Version /\ loaded.version = Version
               /\ loaded.timeline = events /\ Load.timeline = events
<1>1. Version \in 0 .. MaxVersion /\ events \in SUBSET Event
  BY MissingAreGaps DEF StoreInv, TypeOK
<1>2. Load = [version |-> Version, timeline |-> events, notice |-> "synthetic"]
  <2>1. CASE snapshot = None
    <3>1. Version = 0
      BY <2>1 DEF Version
    <3>2. events = {}
      <4>1. \A e \in events : e.version <= 0 /\ e.version \in 1 .. MaxVersion
        BY <3>1 DEF StoreInv, Chained, TypeOK, Event
      <4> QED
        BY <4>1, BoundsAssumption
    <3> QED
      BY <2>1, <3>1, <3>2 DEF Load, NewCase
  <2>2. CASE snapshot # None
    BY <2>2 DEF Load, FromPersistable, Version
  <2> QED
    BY <2>1, <2>2
<1> QED
  BY <1>1, <1>2 DEF Draft, Notices

LEMMA WorkStep == StoreInv /\ Work => StoreInv'
<1> SUFFICES ASSUME StoreInv, Work PROVE StoreInv'
  OBVIOUS
<1>1. PICK case \in Draft : /\ case.version = Version /\ case.timeline = events
                           /\ \E n \in {1, 2} :
                                /\ Version + n <= MaxVersion
                                /\ writer' = [stage |-> "saving",
                                              case |-> IF n = 1 THEN Recorded(case)
                                                       ELSE Recorded(Recorded(case))]
  <2>1. "user" \in Notices
    BY DEF Notices
  <2> QED
    BY <2>1, LoadedCase DEF Work
<1>2. /\ Version \in 0 .. MaxVersion /\ Chained(events, Version)
      /\ Missing = Gaps(events, Version) /\ TypeOK
  BY MissingAreGaps DEF StoreInv
<1>3. PICK longer \in Draft :
        /\ writer' = [stage |-> "saving", case |-> longer]
        /\ Chained(longer.timeline, longer.version)
        /\ events \subseteq longer.timeline
        /\ Versions(longer.timeline) \ Versions(events) \subseteq {longer.version - 1, longer.version}
        /\ Gaps(longer.timeline, longer.version) = Missing
  <2>1. CASE /\ Version + 1 <= MaxVersion
             /\ writer' = [stage |-> "saving", case |-> Recorded(case)]
    <3>1. PICK one \in Draft :
            /\ one = Recorded(case) /\ one.version = Version + 1
            /\ Chained(one.timeline, one.version)
            /\ events \subseteq one.timeline
            /\ Versions(one.timeline) = Versions(events) \cup {one.version}
            /\ Gaps(one.timeline, one.version) = Missing
      BY <1>1, <1>2, <2>1, BoundsAssumption, RecordedChains
    <3> QED
      BY <2>1, <3>1
  <2>2. CASE /\ Version + 2 <= MaxVersion
             /\ writer' = [stage |-> "saving", case |-> Recorded(Recorded(case))]
    <3>1. PICK one \in Draft :
            /\ one = Recorded(case) /\ one.version = Version + 1
            /\ Chained(one.timeline, one.version)
            /\ events \subseteq one.timeline
            /\ Versions(one.timeline) = Versions(events) \cup {one.version}
            /\ Gaps(one.timeline, one.version) = Missing
      BY <1>1, <1>2, <2>2, BoundsAssumption, RecordedChains
    <3>2. PICK two \in Draft :
            /\ two = Recorded(one) /\ two.version = Version + 2
            /\ Chained(two.timeline, two.version)
            /\ one.timeline \subseteq two.timeline
            /\ Versions(two.timeline) = Versions(one.timeline) \cup {two.version}
            /\ Gaps(two.timeline, two.version) = Missing
      BY <1>2, <2>2, <3>1, BoundsAssumption, RecordedChains
    <3> QED
      BY <1>2, <2>2, <3>1, <3>2, BoundsAssumption
  <2> QED
    BY <1>1, <2>1, <2>2
<1>4. UNCHANGED <<snapshot, events, reader, failures>> /\ writer.stage = "idle"
  BY DEF Work
<1>5. writer'.stage = "saving" /\ writer'.case = longer
  BY <1>3
<1>6. TypeOK'
  BY <1>2, <1>3, <1>4 DEF TypeOK
<1>7. Cardinality(Missing) <= 2 * failures /\ Missing' = Missing
  BY <1>4 DEF StoreInv, GapsAreFailures, Missing
<1>8. WriterAhead'
  BY <1>3, <1>4, <1>5, <1>7 DEF WriterAhead, Versions, Chained, Verified, HasHead, Gaps
<1>9. Chained(events, Version)' /\ GapsAreFailures'
  BY <1>2, <1>4, <1>7 DEF Chained, Version, GapsAreFailures
<1> QED
  BY <1>4, <1>6, <1>8, <1>9 DEF StoreInv

LEMMA SetSnapshotStep == StoreInv /\ SetSnapshot => StoreInv'
<1> SUFFICES ASSUME StoreInv, SetSnapshot PROVE StoreInv'
  OBVIOUS
<1>1. PICK case \in Draft : writer.case = case /\ writer = [stage |-> "saving", case |-> case]
  BY DEF StoreInv, TypeOK, SetSnapshot
<1>2. /\ snapshot' = case.version
      /\ writer' = [stage |-> "snapshotSet", case |-> case]
      /\ UNCHANGED <<events, reader, failures>>
  BY <1>1 DEF SetSnapshot, ToPersistable
<1>3. TypeOK'
  BY <1>2 DEF StoreInv, TypeOK, Draft
<1>4. WriterAhead
  BY <1>1 DEF StoreInv
<1>5. WriterAhead'
  BY <1>1, <1>2, <1>4 DEF WriterAhead
<1>6. case.version # None
  BY NoneAssumption DEF Draft
<1>7. Version' = case.version
  BY <1>2, <1>6 DEF Version
<1>8. Chained(events', Version')
  BY <1>1, <1>2, <1>4, <1>7 DEF WriterAhead, Chained, StoreInv
<1> QED
  BY <1>2, <1>3, <1>5, <1>8 DEF StoreInv, GapsAreFailures

LEMMA CommitEventsStep == StoreInv /\ CommitEvents => StoreInv'
<1> SUFFICES ASSUME StoreInv, CommitEvents PROVE StoreInv'
  OBVIOUS
<1>1. PICK case \in Draft : writer.case = case
  BY DEF StoreInv, TypeOK
<1>2. WriterAhead /\ snapshot = case.version /\ TypeOK
  BY <1>1 DEF StoreInv, CommitEvents, WriterAhead
<1>3. /\ events' = case.timeline /\ writer' = Idle
      /\ UNCHANGED <<snapshot, reader, failures>>
  BY <1>1, <1>2 DEF CommitEvents, WriterAhead
<1>4. TypeOK'
  BY <1>1, <1>2, <1>3, BoundsAssumption DEF TypeOK, Draft, Idle, NewCase, Notices
<1>5. Version' = case.version
  BY <1>2, <1>3, NoneAssumption DEF Version, Draft
<1>6. Missing' = Gaps(case.timeline, case.version)
  BY <1>3, <1>4, <1>5, MissingAreGaps, NoneAssumption, <1>2 DEF Missing, Gaps, Draft
<1>7. GapsAreFailures'
  BY <1>1, <1>2, <1>3, <1>6 DEF WriterAhead, GapsAreFailures
<1>8. Chained(events', Version')
  BY <1>1, <1>2, <1>3, <1>5 DEF WriterAhead
<1> QED
  BY <1>3, <1>4, <1>7, <1>8 DEF StoreInv, Idle

\* A save that fails after its snapshot leaves its own events missing, two at
\* most; before it, nothing has changed.
LEMMA SaveFailsStep == StoreInv /\ SaveFails => StoreInv'
<1> SUFFICES ASSUME StoreInv, SaveFails PROVE StoreInv'
  OBVIOUS
<1>1. /\ writer' = Idle /\ failures' = failures + 1 /\ failures' \in 0 .. MaxFailures
      /\ UNCHANGED <<snapshot, events, reader>> /\ failures \in Nat
      /\ writer.stage \in {"saving", "snapshotSet"}
  BY BoundsAssumption DEF SaveFails, StoreInv, TypeOK
<1>2. TypeOK'
  BY <1>1, BoundsAssumption DEF StoreInv, TypeOK, Draft, Idle, NewCase, Notices
<1>3. Missing' = Missing /\ Version' = Version
  BY <1>1 DEF Missing, Version
<1>4. Cardinality(Missing) <= 2 * failures + 2
  <2>1. CASE writer.stage = "saving"
    <3>1. Cardinality(Missing) <= 2 * failures
      BY <2>1 DEF StoreInv, GapsAreFailures
    <3>2. IsFiniteSet(Missing)
      <4>1. IsFiniteSet(1 .. Version)
        BY MissingAreGaps, FS_Interval, BoundsAssumption DEF StoreInv
      <4> QED
        BY <4>1, MissingAreGaps, FS_Subset DEF StoreInv, Gaps
    <3> QED
      BY <1>1, <3>1, <3>2, FS_CardinalityType
  <2>2. CASE writer.stage = "snapshotSet"
    <3>1. PICK case \in Draft : writer.case = case
      BY DEF StoreInv, TypeOK
    <3>2. PICK gaps : gaps = Gaps(case.timeline, case.version)
      OBVIOUS
    <3>3. /\ snapshot = case.version /\ Cardinality(gaps) <= 2 * failures
          /\ Versions(case.timeline) \ Versions(events) \subseteq {case.version - 1, case.version}
      BY <2>2, <3>1, <3>2 DEF StoreInv, WriterAhead
    <3>4. Missing \subseteq (gaps \cup {case.version - 1}) \cup {case.version}
      BY <3>2, <3>3, NoneAssumption DEF Missing, Gaps, Draft
    <3>5. IsFiniteSet(gaps)
      <4>1. IsFiniteSet(1 .. case.version)
        BY FS_Interval, BoundsAssumption DEF Draft
      <4> QED
        BY <3>2, <4>1, FS_Subset DEF Gaps
    <3>6. /\ IsFiniteSet(gaps \cup {case.version - 1})
          /\ Cardinality(gaps \cup {case.version - 1}) <= Cardinality(gaps) + 1
      BY <3>5, AddedElement
    <3>7. /\ IsFiniteSet((gaps \cup {case.version - 1}) \cup {case.version})
          /\ Cardinality((gaps \cup {case.version - 1}) \cup {case.version})
               <= Cardinality(gaps \cup {case.version - 1}) + 1
      BY <3>6, AddedElement
    <3>8. Cardinality(Missing) <= Cardinality((gaps \cup {case.version - 1}) \cup {case.version})
      BY <3>4, <3>7, FS_Subset
    <3>9. /\ Cardinality(gaps) \in Nat /\ Cardinality(Missing) \in Nat
          /\ Cardinality(gaps \cup {case.version - 1}) \in Nat
          /\ Cardinality((gaps \cup {case.version - 1}) \cup {case.version}) \in Nat
      BY <3>4, <3>5, <3>6, <3>7, FS_Subset, FS_CardinalityType
    <3> QED
      BY <1>1, <3>3, <3>6, <3>7, <3>8, <3>9
  <2> QED
    BY <1>1, <2>1, <2>2
<1>5. GapsAreFailures'
  BY <1>1, <1>3, <1>4 DEF GapsAreFailures
<1>6. Chained(events', Version')
  BY <1>1, <1>3 DEF StoreInv
<1> QED
  BY <1>1, <1>2, <1>5, <1>6 DEF StoreInv, Idle

\* A reader takes what is stored when it reads the events, which verifies.
LEMMA ReaderSteps ==
    StoreInv /\ (ReadSnapshot \/ ReadEvents \/ ReaderLeaves \/ UNCHANGED vars) => StoreInv'
<1> SUFFICES ASSUME StoreInv, ReadSnapshot \/ ReadEvents \/ ReaderLeaves \/ UNCHANGED vars
             PROVE  StoreInv'
  OBVIOUS
<1>1. UNCHANGED <<snapshot, events, writer, failures>>
  BY DEF ReadSnapshot, ReadEvents, ReaderLeaves, vars
<1>2. PICK r \in [stage : {"away", "snapshotRead", "answered"},
                   version : 0 .. MaxVersion, timeline : SUBSET Event] : r = reader
  BY DEF StoreInv, TypeOK
<1>3. /\ reader' \in [stage : {"away", "snapshotRead", "answered"},
                      version : 0 .. MaxVersion, timeline : SUBSET Event]
      /\ reader'.stage = "answered" => reader'.timeline = events \/ reader' = r
  <2>1. CASE ReadSnapshot
    <3>1. reader' = [stage |-> "snapshotRead", version |-> snapshot, timeline |-> {}]
      BY <2>1 DEF ReadSnapshot, Away
    <3> QED
      BY <2>1, <3>1 DEF ReadSnapshot, StoreInv, TypeOK
  <2>2. CASE ReadEvents
    <3>1. reader' = [stage |-> "answered", version |-> r.version, timeline |-> events]
      BY <1>2, <2>2 DEF ReadEvents
    <3> QED
      BY <3>1 DEF StoreInv, TypeOK
  <2>3. CASE ReaderLeaves
    BY <2>3, BoundsAssumption DEF ReaderLeaves, Away
  <2>4. CASE UNCHANGED vars
    BY <1>2, <2>4 DEF vars
  <2> QED
    BY <2>1, <2>2, <2>3, <2>4
<1>4. TypeOK'
  BY <1>1, <1>3 DEF StoreInv, TypeOK
<1>5. reader'.stage = "answered" => Verified(reader'.timeline)
  BY <1>2, <1>3 DEF StoreInv, Chained
<1>6. Version' = Version /\ (WriterAhead => WriterAhead') /\ (GapsAreFailures => GapsAreFailures')
  BY <1>1 DEF Version, WriterAhead, GapsAreFailures, Missing
<1> QED
  BY <1>1, <1>4, <1>5, <1>6 DEF StoreInv

LEMMA NextStore == StoreInv /\ [Next]_vars => StoreInv'
BY WorkStep, SetSnapshotStep, CommitEventsStep, SaveFailsStep, ReaderSteps DEF Next

-----------------------------------------------------------------------------
(* Theorems.                                                               *)

\* The inductive invariant holds in every state (store.py save, load).
THEOREM StoreInvariant == Spec => []StoreInv
BY InitStore, NextStore, PTL DEF Spec

\* The case store keeps its types (store.py).
THEOREM TypeCorrect == Spec => []TypeOK
<1>1. StoreInv => TypeOK
  BY DEF StoreInv
<1> QED
  BY <1>1, StoreInvariant, PTL

\* The stored timeline verifies at every moment, and so does every answer,
\* whatever save fails between its two writes (domain.py verify_timeline).
THEOREM TimelineVerifies == Spec => []ChainVerifies
<1>1. StoreInv => ChainVerifies
  BY DEF StoreInv, ChainVerifies, Chained
<1> QED
  BY <1>1, StoreInvariant, PTL

\* Only failed saves leave gaps, two events at most for each (store.py save).
THEOREM GapsAccountedFor == Spec => []GapsAreFailures
<1>1. StoreInv => GapsAreFailures
  BY DEF StoreInv
<1> QED
  BY <1>1, StoreInvariant, PTL

=============================================================================

----------------------- MODULE ArtifactPublish_proofs -----------------------
(***************************************************************************)
(* Theorems of ArtifactPublish: what customers find behind the pointers,   *)
(* and what a successful run has established, for any packages, digests,   *)
(* releases and number of runs cut short.                                  *)
(***************************************************************************)
EXTENDS ArtifactPublish, TLAPS

\* The manifest a run makes for the i-th kind.
Made(i) == Manifest(Order[i], run.release, stamp)

\* The desktop packages a run works with are verified.
Selected == run.step # "idle" => Named("desktop", run.release) \subseteq verified

\* Every package is in the store, or still to be put there.
Stored ==
  /\ run.step = "assets" => Named("v4", run.release) \subseteq objects \union run.todo
  /\ run.step \in {"preserving", "pointing"} => Named("v4", run.release) \subseteq objects

\* The manifests preserved so far; all three once the pointers move.
Kept ==
  /\ run.step \in {"idle", "selected", "prepared", "assets"} => run.count = 0
  /\ run.step = "preserving" => \A i \in 1 .. run.count : Made(i) \in immutable
  /\ run.step = "pointing" => \A i \in 1 .. 3 : Made(i) \in immutable

\* The pointers moved so far.
Moved ==
  run.step = "pointing" =>
    \A i \in 1 .. run.count : Describes(latest[Order[i]], Order[i], run.release)

SyncInv ==
  /\ TypeOK /\ Selected /\ Stored /\ Kept /\ Moved
  /\ LatestIsComplete /\ LatestIsPreserved /\ OnlyVerifiedPackages
  /\ SuccessMeansPublished

-----------------------------------------------------------------------------
(* Releases and manifests. *)

LEMMA OrderKinds ==
  /\ \A i \in 1 .. 3 : Order[i] \in Kinds
  /\ \A kind \in Kinds : \E i \in 1 .. 3 : Order[i] = kind
  /\ \A i, j \in 1 .. 3 : Order[i] = Order[j] => i = j
BY DEF Order, Kinds

LEMMA NamedFacts ==
  ASSUME NEW release \in Releases, NEW kind \in Kinds
  PROVE  /\ Named(kind, release) \subseteq Named("v4", release)
         /\ Named(kind, release) \subseteq Objects
         /\ Named("desktop", release) \subseteq Desktop \X Digests
         /\ \A object \in Named(kind, release) :
              object[1] \in Desktop => object \in Named("desktop", release)
         /\ Components(kind, release) \in Tags \union {NoTag}
BY DEF Named, Objects, Releases, Assets, Kinds, Components

LEMMA MadeFacts ==
  ASSUME TypeOK, NEW i \in 1 .. 3
  PROVE  /\ Made(i) \in Manifests /\ Made(i) # NoManifest
         /\ Made(i).kind = Order[i]
         /\ Made(i).objects = Named(Order[i], run.release)
         /\ Made(i).kind = "desktop" => Made(i).objects \subseteq Desktop \X Digests
         /\ Describes(Made(i), Order[i], run.release)
<1>1. run.release \in Releases /\ Order[i] \in Kinds
  BY OrderKinds DEF TypeOK
<1>2. Made(i) \in Manifests
  BY <1>1, NamedFacts DEF Made, Manifest, Manifests, TypeOK
<1> QED
  BY <1>1, <1>2, NamedFacts, ArtifactAssumption DEF Made, Manifest, Describes

-----------------------------------------------------------------------------
LEMMA IdleTyped ==
  ASSUME upstream \in Releases
  PROVE  /\ Idle \in [step : Steps, release : Releases, todo : SUBSET Objects,
                      count : 0 .. 3]
         /\ Idle.step = "idle" /\ Idle.release = upstream
         /\ Idle.todo = {} /\ Idle.count = 0
BY DEF Idle, Steps

LEMMA InitSync == Init => SyncInv
<1> SUFFICES ASSUME Init PROVE SyncInv
  OBVIOUS
<1>1. TypeOK
  BY IdleTyped, ArtifactAssumption DEF Init, TypeOK
<1>2. Selected /\ Stored /\ Kept /\ Moved /\ SuccessMeansPublished
  BY IdleTyped DEF Init, Selected, Stored, Kept, Moved, SuccessMeansPublished
<1>3. LatestIsComplete /\ LatestIsPreserved /\ OnlyVerifiedPackages
  BY DEF Init, LatestIsComplete, LatestIsPreserved, OnlyVerifiedPackages
<1> QED
  BY <1>1, <1>2, <1>3 DEF SyncInv

\* Steps that touch neither the store nor what is offered: what they must
\* show of the run they leave.
LEMMA RunChanges ==
  ASSUME SyncInv, UNCHANGED <<store, changes, losses>>,
         upstream' \in Releases, verified' \in SUBSET (Desktop \X Digests),
         verified \subseteq verified', stamp' \in Nat, faults' \in Nat,
         run' \in [step : Steps, release : Releases, todo : SUBSET Objects,
                   count : 0 .. 3],
         Selected', Stored', Kept', Moved', SuccessMeansPublished'
  PROVE  SyncInv'
<1>1. TypeOK'
  BY DEF SyncInv, TypeOK, store
<1>2. LatestIsComplete' /\ LatestIsPreserved' /\ OnlyVerifiedPackages'
  BY DEF SyncInv, LatestIsComplete, LatestIsPreserved, OnlyVerifiedPackages, store
<1> QED
  BY <1>1, <1>2 DEF SyncInv

\* A run that is over has nothing left to show.
LEMMA EndsRun ==
  ASSUME SyncInv, run' = Idle, faults' \in Nat,
         UNCHANGED <<upstream, verified, store, stamp, changes, losses>>
  PROVE  SyncInv'
<1>1. upstream \in Releases /\ TypeOK
  BY DEF SyncInv, TypeOK
<1>2. Selected' /\ Stored' /\ Kept' /\ Moved' /\ SuccessMeansPublished'
  BY <1>1, IdleTyped DEF Selected, Stored, Kept, Moved, SuccessMeansPublished
<1> QED
  BY <1>1, <1>2, IdleTyped, RunChanges DEF TypeOK

LEMMA UpstreamSync == SyncInv /\ Upstream => SyncInv'
<1> SUFFICES ASSUME SyncInv, Upstream PROVE SyncInv'
  OBVIOUS
<1>1. TypeOK
  BY DEF SyncInv
<1>2. upstream' \in Releases
  BY <1>1 DEF Upstream, TypeOK, Releases
<1>3. TypeOK'
  BY <1>1, <1>2 DEF Upstream, TypeOK, store
<1>4. Selected' /\ Stored' /\ Kept' /\ Moved' /\ SuccessMeansPublished'
  BY DEF SyncInv, Upstream, store, Selected, Stored, Kept, Moved, Made,
         SuccessMeansPublished
<1>5. LatestIsComplete' /\ LatestIsPreserved' /\ OnlyVerifiedPackages'
  BY DEF SyncInv, Upstream, store, LatestIsComplete, LatestIsPreserved,
         OnlyVerifiedPackages
<1> QED
  BY <1>3, <1>4, <1>5 DEF SyncInv

LEMMA LoseSync == SyncInv /\ Lose => SyncInv'
<1> SUFFICES ASSUME SyncInv, Lose PROVE SyncInv'
  OBVIOUS
<1>1. TypeOK
  BY DEF SyncInv
<1>2. TypeOK'
  BY <1>1 DEF Lose, TypeOK
<1>3. Selected' /\ Stored' /\ Kept' /\ Moved' /\ SuccessMeansPublished'
  BY DEF SyncInv, Lose, Selected, Stored, Kept, Moved, SuccessMeansPublished
<1>4. objects \union lost \subseteq objects' \union lost'
  BY DEF Lose
<1>5. LatestIsComplete' /\ LatestIsPreserved' /\ OnlyVerifiedPackages'
  BY <1>4 DEF SyncInv, Lose, LatestIsComplete, LatestIsPreserved,
              OnlyVerifiedPackages
<1> QED
  BY <1>2, <1>3, <1>5 DEF SyncInv

LEMMA SelectSync == SyncInv /\ Select => SyncInv'
<1> SUFFICES ASSUME SyncInv, Select PROVE SyncInv'
  OBVIOUS
<1>1. TypeOK /\ upstream \in Releases
  BY DEF SyncInv, TypeOK
<1>2. Named("desktop", upstream) \subseteq Desktop \X Digests
  BY <1>1, NamedFacts DEF Kinds
<1>3. /\ run' \in [step : Steps, release : Releases, todo : SUBSET Objects,
                   count : 0 .. 3]
      /\ run'.step = "selected" /\ run'.release = upstream /\ run'.count = 0
  BY <1>1, IdleTyped DEF Select, Steps
<1>4. Selected' /\ Stored' /\ Kept' /\ Moved' /\ SuccessMeansPublished'
  BY <1>1, <1>2, <1>3
     DEF Select, Selected, Stored, Kept, Moved, SuccessMeansPublished, TypeOK, Named
<1> QED
  BY <1>1, <1>2, <1>3, <1>4, RunChanges DEF Select, TypeOK

\* A step of the run that changes only where it is.
LEMMA DownloadSync == SyncInv /\ Download => SyncInv'
<1> SUFFICES ASSUME SyncInv, Download PROVE SyncInv'
  OBVIOUS
<1>1. TypeOK
  BY DEF SyncInv
<1>2. /\ run' \in [step : Steps, release : Releases, todo : SUBSET Objects,
                   count : 0 .. 3]
      /\ run'.step = "prepared" /\ run'.release = run.release
  BY <1>1 DEF Download, TypeOK, Steps, Releases
<1>3. Selected' /\ Stored' /\ Kept' /\ Moved' /\ SuccessMeansPublished'
  BY <1>2 DEF SyncInv, Download, Selected, Stored, Kept, Moved, Named,
              SuccessMeansPublished
<1> QED
  BY <1>1, <1>2, <1>3, RunChanges DEF Download, TypeOK

LEMMA NoChangeSync == SyncInv /\ NoChange => SyncInv'
<1> SUFFICES ASSUME SyncInv, NoChange PROVE SyncInv'
  OBVIOUS
<1>1. TypeOK
  BY DEF SyncInv
<1>2. /\ run' \in [step : Steps, release : Releases, todo : SUBSET Objects,
                   count : 0 .. 3]
      /\ run'.step = "done" /\ run'.release = run.release
  BY <1>1 DEF NoChange, TypeOK, Steps
<1>3. Selected' /\ Stored' /\ Kept' /\ Moved'
  BY <1>2 DEF SyncInv, NoChange, Selected, Stored, Kept, Moved, Named
<1>4. SuccessMeansPublished'
  BY <1>2 DEF NoChange, Unchanged, Describes, Named, Components, store,
              SuccessMeansPublished
<1> QED
  BY <1>1, <1>2, <1>3, <1>4, RunChanges DEF NoChange, TypeOK

LEMMA PublishSync == SyncInv /\ Publish => SyncInv'
<1> SUFFICES ASSUME SyncInv, Publish PROVE SyncInv'
  OBVIOUS
<1>1. TypeOK
  BY DEF SyncInv
<1>2. /\ run' \in [step : Steps, release : Releases, todo : SUBSET Objects,
                   count : 0 .. 3]
      /\ run'.step = "assets" /\ run'.release = run.release
      /\ run'.todo = Named("v4", run.release)
  BY <1>1, NamedFacts DEF Publish, TypeOK, Steps, Kinds
<1>3. Selected' /\ Stored' /\ Kept' /\ Moved' /\ SuccessMeansPublished'
  BY <1>2 DEF SyncInv, Publish, Selected, Stored, Kept, Moved, Named,
              SuccessMeansPublished
<1>4. stamp' \in Nat /\ faults' \in Nat
  BY <1>1 DEF Publish, TypeOK
<1> QED
  BY <1>1, <1>2, <1>3, <1>4, RunChanges DEF Publish, TypeOK

LEMMA PutAssetSync == SyncInv /\ PutAsset => SyncInv'
<1> SUFFICES ASSUME SyncInv, PutAsset PROVE SyncInv'
  OBVIOUS
<1>1. PICK object \in run.todo :
        /\ objects' = objects \union {object} /\ lost' = lost \ {object}
        /\ run' = [run EXCEPT !.todo = @ \ {object}]
  BY DEF PutAsset
<1>2. TypeOK
  BY DEF SyncInv
<1>3. /\ run' \in [step : Steps, release : Releases, todo : SUBSET Objects,
                   count : 0 .. 3]
      /\ run'.step = "assets" /\ run'.release = run.release
      /\ run'.todo = run.todo \ {object}
  BY <1>1, <1>2 DEF PutAsset, TypeOK
<1>4. TypeOK'
  BY <1>1, <1>2, <1>3 DEF PutAsset, TypeOK
<1>5. Selected' /\ Stored' /\ Kept' /\ Moved' /\ SuccessMeansPublished'
  BY <1>1, <1>3 DEF SyncInv, PutAsset, Selected, Stored, Kept, Moved, Named,
                    SuccessMeansPublished
<1>6. objects \union lost \subseteq objects' \union lost'
  BY <1>1
<1>7. LatestIsComplete' /\ LatestIsPreserved' /\ OnlyVerifiedPackages'
  BY <1>6 DEF SyncInv, PutAsset, LatestIsComplete, LatestIsPreserved,
              OnlyVerifiedPackages
<1> QED
  BY <1>4, <1>5, <1>7 DEF SyncInv

LEMMA AssetsPublishedSync == SyncInv /\ AssetsPublished => SyncInv'
<1> SUFFICES ASSUME SyncInv, AssetsPublished PROVE SyncInv'
  OBVIOUS
<1>1. TypeOK
  BY DEF SyncInv
<1>2. /\ run' \in [step : Steps, release : Releases, todo : SUBSET Objects,
                   count : 0 .. 3]
      /\ run'.step = "preserving" /\ run'.release = run.release
  BY <1>1 DEF AssetsPublished, TypeOK, Steps
<1>3. run.count = 0 /\ run'.count = 0
  BY <1>1 DEF SyncInv, AssetsPublished, Kept, TypeOK
<1>4. Selected' /\ Stored' /\ Kept' /\ Moved' /\ SuccessMeansPublished'
  BY <1>2, <1>3 DEF SyncInv, AssetsPublished, Selected, Stored, Kept, Moved,
                    Named, SuccessMeansPublished, store
<1> QED
  BY <1>1, <1>2, <1>4, RunChanges DEF AssetsPublished, TypeOK

LEMMA PreserveSync == SyncInv /\ Preserve => SyncInv'
<1> SUFFICES ASSUME SyncInv, Preserve PROVE SyncInv'
  OBVIOUS
<1>1. TypeOK /\ run.count + 1 \in 1 .. 3 /\ run.count \in 0 .. 2
  BY DEF SyncInv, TypeOK, Preserve
<1>2. Current = Made(run.count + 1)
  BY DEF Current, Made
<1>3. /\ run' \in [step : Steps, release : Releases, todo : SUBSET Objects,
                   count : 0 .. 3]
      /\ run'.step = "preserving" /\ run'.release = run.release
      /\ run'.count = run.count + 1
  BY <1>1 DEF Preserve, TypeOK
<1>4. immutable' = immutable \union {Made(run.count + 1)}
  BY <1>2 DEF Preserve
<1>5. TypeOK'
  BY <1>1, <1>3, <1>4, MadeFacts DEF Preserve, TypeOK
<1>6. Kept'
  <2>1. \A i \in 1 .. run.count : Made(i) \in immutable
    BY DEF SyncInv, Preserve, Kept
  <2>2. \A i \in 1 .. run.count + 1 : Made(i) \in immutable'
    BY <1>1, <1>4, <2>1
  <2>3. \A i \in 1 .. run'.count : Made(i)' = Made(i)
    BY <1>3 DEF Made, Manifest, Named, Components, Preserve
  <2> QED
    BY <1>3, <2>2, <2>3 DEF Kept
<1>7. Selected' /\ Stored' /\ Moved' /\ SuccessMeansPublished'
  BY <1>3 DEF SyncInv, Preserve, Selected, Stored, Moved, Named,
              SuccessMeansPublished
<1>8. LatestIsComplete' /\ LatestIsPreserved' /\ OnlyVerifiedPackages'
  BY <1>4 DEF SyncInv, Preserve, LatestIsComplete, LatestIsPreserved,
              OnlyVerifiedPackages
<1> QED
  BY <1>5, <1>6, <1>7, <1>8 DEF SyncInv

LEMMA PreservedSync == SyncInv /\ Preserved => SyncInv'
<1> SUFFICES ASSUME SyncInv, Preserved PROVE SyncInv'
  OBVIOUS
<1>1. TypeOK
  BY DEF SyncInv
<1>2. /\ run' \in [step : Steps, release : Releases, todo : SUBSET Objects,
                   count : 0 .. 3]
      /\ run'.step = "pointing" /\ run'.release = run.release
      /\ run'.count = 0
  <2>1. run \in [step : Steps, release : Releases, todo : SUBSET Objects,
                 count : 0 .. 3]
    BY <1>1 DEF TypeOK
  <2>2. run' = [run EXCEPT !.step = "pointing", !.count = 0]
    BY DEF Preserved
  <2>3. "pointing" \in Steps /\ 0 \in 0 .. 3
    BY DEF Steps
  <2> QED
    BY <2>1, <2>2, <2>3
<1>3. \A i \in 1 .. 3 : Made(i) \in immutable /\ Made(i)' = Made(i)
  <2>1. \A i \in 1 .. 3 : Made(i) \in immutable
    BY DEF SyncInv, Preserved, Kept
  <2>2. \A i \in 1 .. 3 : Made(i)' = Made(i)
    BY <1>2 DEF Preserved, Made, Manifest, Named, Components
  <2> QED
    BY <2>1, <2>2
<1>4. Kept'
  BY <1>2, <1>3 DEF Preserved, Kept, store
<1>5. Selected' /\ Stored' /\ Moved' /\ SuccessMeansPublished'
  BY <1>2 DEF SyncInv, Preserved, Selected, Stored, Moved, Named,
              SuccessMeansPublished, store
<1> QED
  BY <1>1, <1>2, <1>4, <1>5, RunChanges DEF Preserved, TypeOK

LEMMA PointSync == SyncInv /\ Point => SyncInv'
<1> SUFFICES ASSUME SyncInv, Point PROVE SyncInv'
  OBVIOUS
<1> DEFINE n == run.count + 1
           kind == Order[n]
<1>1. /\ TypeOK /\ n \in 1 .. 3 /\ run.count \in 0 .. 2 /\ kind \in Kinds
      /\ run.step = "pointing" /\ run.release \in Releases
  BY OrderKinds DEF SyncInv, TypeOK, Point
<1>2. Current = Made(n)
  BY DEF Current, Made
<1>3. /\ run' \in [step : Steps, release : Releases, todo : SUBSET Objects,
                   count : 0 .. 3]
      /\ run'.step = "pointing" /\ run'.release = run.release
      /\ run'.count = n
  BY <1>1 DEF Point, TypeOK
<1>4. /\ latest' \in [Kinds -> Manifests \union {NoManifest}]
      /\ latest'[kind] = Made(n)
      /\ \A other \in Kinds \ {kind} : latest'[other] = latest[other]
  BY <1>1, <1>2, MadeFacts DEF Point, TypeOK
<1>5. Made(n) \in immutable /\ Named("v4", run.release) \subseteq objects
  BY <1>1 DEF SyncInv, Kept, Stored
<1>6. TypeOK'
  <2>1. \A k \in Kinds : latest'[k] # NoManifest => latest'[k].kind = k
    BY <1>1, <1>4, MadeFacts DEF TypeOK
  <2> QED
    BY <1>1, <1>3, <1>4, <2>1 DEF Point, TypeOK
<1>7. Moved'
  <2>1. Describes(latest'[kind], kind, run.release)
    BY <1>1, <1>4, MadeFacts
  <2>2. ASSUME NEW i \in 1 .. run.count
        PROVE  Describes(latest'[Order[i]], Order[i], run.release)
    <3>1. i \in 1 .. 3 /\ i # n /\ Order[i] \in Kinds \ {kind}
      BY <1>1, OrderKinds
    <3> QED
      BY <1>1, <1>4, <3>1 DEF SyncInv, Moved
  <2>3. \A i \in 1 .. n : Describes(latest'[Order[i]], Order[i], run.release)
    BY <1>1, <2>1, <2>2
  <2> QED
    BY <1>3, <2>3 DEF Moved, Describes, Named, Components
<1>8. Selected' /\ Stored' /\ Kept' /\ SuccessMeansPublished'
  BY <1>1, <1>3 DEF SyncInv, Point, Selected, Stored, Kept, Made, Manifest,
                    Named, Components, SuccessMeansPublished
<1>9. LatestIsComplete'
  BY <1>1, <1>4, <1>5, MadeFacts, NamedFacts DEF SyncInv, Point, LatestIsComplete
<1>10. LatestIsPreserved'
  BY <1>4, <1>5 DEF SyncInv, Point, LatestIsPreserved
<1>11. OnlyVerifiedPackages'
  <2>1. \A object \in Made(n).objects : object[1] \in Desktop => object \in verified
    BY <1>1, MadeFacts, NamedFacts DEF SyncInv, Selected
  <2> QED
    BY <1>4, <2>1 DEF SyncInv, Point, OnlyVerifiedPackages
<1> QED
  BY <1>6, <1>7, <1>8, <1>9, <1>10, <1>11 DEF SyncInv

LEMMA PointedSync == SyncInv /\ Pointed => SyncInv'
<1> SUFFICES ASSUME SyncInv, Pointed PROVE SyncInv'
  OBVIOUS
<1>1. TypeOK /\ run.step = "pointing" /\ run.count = 3
  BY DEF SyncInv, Pointed
<1>2. /\ run' \in [step : Steps, release : Releases, todo : SUBSET Objects,
                   count : 0 .. 3]
      /\ run'.step = "done" /\ run'.release = run.release
  BY <1>1 DEF Pointed, TypeOK, Steps
<1>3. \A kind \in Kinds : Describes(latest[kind], kind, run.release)
  BY <1>1, OrderKinds DEF SyncInv, Moved
<1>4. SuccessMeansPublished'
  BY <1>1, <1>2, <1>3
     DEF SyncInv, Stored, Pointed, store, Describes, Named, Components,
         SuccessMeansPublished
<1>5. Selected' /\ Stored' /\ Kept' /\ Moved'
  BY <1>1, <1>2 DEF SyncInv, Pointed, Selected, Stored, Kept, Moved, Named
<1> QED
  BY <1>1, <1>2, <1>4, <1>5, RunChanges DEF Pointed, TypeOK

-----------------------------------------------------------------------------
(* The invariant, and the theorems. *)

LEMMA StepSync == SyncInv /\ [Next]_vars => SyncInv'
<1> SUFFICES ASSUME SyncInv, [Next]_vars PROVE SyncInv'
  OBVIOUS
<1>1. ASSUME Mismatch \/ Finish \/ Stop PROVE SyncInv'
  BY <1>1, EndsRun DEF Mismatch, Finish, Stop, SyncInv, TypeOK
<1>2. ASSUME RunStep PROVE SyncInv'
  BY <1>1, <1>2, SelectSync, DownloadSync, NoChangeSync, PublishSync,
     PutAssetSync, AssetsPublishedSync, PreserveSync, PreservedSync,
     PointSync, PointedSync DEF RunStep
<1>3. CASE UNCHANGED vars
  <2>1. TypeOK' /\ Selected' /\ Stored' /\ Kept' /\ Moved'
    BY <1>3 DEF SyncInv, vars, store, TypeOK, Selected, Stored, Kept, Moved, Made
  <2>2. /\ LatestIsComplete' /\ LatestIsPreserved' /\ OnlyVerifiedPackages'
        /\ SuccessMeansPublished'
    BY <1>3 DEF SyncInv, vars, store, LatestIsComplete, LatestIsPreserved,
                OnlyVerifiedPackages, SuccessMeansPublished
  <2> QED
    BY <2>1, <2>2 DEF SyncInv
<1> QED
  BY <1>1, <1>2, <1>3, UpstreamSync, LoseSync DEF Next

LEMMA Synchronised == Spec => []SyncInv
<1> QED
  BY InitSync, StepSync, PTL DEF Spec

\* Every variable keeps its type: a pointer always holds a manifest of its
\* own kind (publish, validate_manifest).
THEOREM TypeCorrect == Spec => []TypeOK
<1>1. SyncInv => TypeOK
  BY DEF SyncInv
<1> QED
  BY <1>1, Synchronised, PTL

\* Customers find every package that a pointer names: publish moves no
\* pointer before every package has been read back.
THEOREM Complete == Spec => []LatestIsComplete
<1>1. SyncInv => LatestIsComplete
  BY DEF SyncInv
<1> QED
  BY <1>1, Synchronised, PTL

\* What a pointer shows is kept under its own digest: publish preserves all
\* three manifests first.
THEOREM Preservation == Spec => []LatestIsPreserved
<1>1. SyncInv => LatestIsPreserved
  BY DEF SyncInv
<1> QED
  BY <1>1, Synchronised, PTL

\* No pointer names a desktop package whose signature was not checked:
\* download_asset compares the digest of what it got.
THEOREM Verified == Spec => []OnlyVerifiedPackages
<1>1. SyncInv => OnlyVerifiedPackages
  BY DEF SyncInv
<1> QED
  BY <1>1, Synchronised, PTL

\* A successful run leaves all three pointers on its release and every
\* package in the store, whether it published or found nothing to do.
THEOREM Success == Spec => []SuccessMeansPublished
<1>1. SyncInv => SuccessMeansPublished
  BY DEF SyncInv
<1> QED
  BY <1>1, Synchronised, PTL
=============================================================================

-------------------------- MODULE ArtifactPublish --------------------------
(***************************************************************************)
(* The daily synchronisation of the customers' installation packages:      *)
(* tools/codex-artifacts/sync_codex_artifacts.py, as the workflow          *)
(* sync-codex-upstream-artifacts.yml runs it, one run at a time.           *)
(*                                                                         *)
(* A run copies packages to content addressed objects, keeps a manifest of *)
(* each kind under its own digest and then moves three pointers, one after *)
(* the other.  It may end anywhere: by an exception, a cancelled job or a  *)
(* timeout; nothing is undone.  Upstream may change at any moment, and an  *)
(* object may disappear from the store between two runs.                   *)
(***************************************************************************)
EXTENDS Naturals

CONSTANTS
  Cli,          \* packages of the GitHub release
  Desktop,      \* desktop packages, at a fixed URL that serves the newest
  Digests,      \* contents a package may have
  Tags,         \* names of releases, part of the component metadata
  NoTag,        \* the component metadata of the desktop manifest
  NoManifest,   \* a pointer that was never written
  MaxChanges,   \* bound: changes upstream
  MaxFaults,    \* bound: runs that end early and failing reads
  MaxLosses     \* bound: objects that disappear

Assets == Cli \union Desktop

Kinds == {"v3", "v4", "desktop"}

\* The key of an object holds its name and its digest.
Objects == Assets \X Digests

\* What the full and the desktop manifests hold.
Manifests ==
  [kind : Kinds, objects : SUBSET Objects, tag : Tags \union {NoTag}, fetched : Nat]

ASSUME ArtifactAssumption ==
  /\ Cli \intersect Desktop = {}
  /\ NoTag \notin Tags
  /\ NoManifest \notin Manifests
  /\ MaxChanges \in Nat /\ MaxFaults \in Nat /\ MaxLosses \in Nat

VARIABLES
  upstream,     \* what the publishers offer now
  verified,     \* desktop packages whose signature the native jobs checked
  objects,      \* content addressed packages of the store
  lost,         \* packages that disappeared and were not published again
  immutable,    \* manifests kept under their own digest
  latest,       \* the three pointers customers read
  run,          \* the run of the synchroniser
  stamp,        \* publications begun: fetched_at
  changes, faults, losses

store == <<objects, lost, immutable, latest>>
vars == <<upstream, verified, store, run, stamp, changes, faults, losses>>

\* The order in which publish goes through the manifests.
Order == <<"v3", "v4", "desktop">>

Releases == [digest : [Assets -> Digests], tag : Tags]

\* Bug: the desktop manifest is a copy of the full one.
NamedByFull(kind, release) == {<<a, release.digest[a]>> : a \in Assets}

\* The objects that a manifest of this kind names.
Named(kind, release) ==
  {<<a, release.digest[a]>> :
     a \in IF kind = "desktop" THEN Desktop ELSE Assets}

\* The component metadata: the desktop manifest drops that of the CLI.
Components(kind, release) == IF kind = "desktop" THEN NoTag ELSE release.tag

Manifest(kind, release, time) ==
  [kind |-> kind, objects |-> Named(kind, release),
   tag |-> Components(kind, release), fetched |-> time]

\* Same snapshot and same components: fetched_at does not count.
Describes(manifest, kind, release) ==
  /\ manifest # NoManifest
  /\ manifest.objects = Named(kind, release)
  /\ manifest.tag = Components(kind, release)

Idle == [step |-> "idle", release |-> upstream, todo |-> {}, count |-> 0]

\* Nothing is published yet.
Init ==
  /\ upstream \in Releases
  /\ verified = {}
  /\ objects = {} /\ lost = {} /\ immutable = {}
  /\ latest = [kind \in Kinds |-> NoManifest]
  /\ run = Idle
  /\ stamp = 0 /\ changes = 0 /\ faults = 0 /\ losses = 0

-----------------------------------------------------------------------------
(* The environment. *)

\* A publisher offers another package, or another release.
Upstream ==
  /\ changes < MaxChanges
  /\ changes' = changes + 1
  /\ \/ \E a \in Assets, d \in Digests :
          upstream' = [upstream EXCEPT !.digest[a] = d]
     \/ \E tag \in Tags : upstream' = [upstream EXCEPT !.tag = tag]
  /\ UNCHANGED <<verified, store, run, stamp, faults, losses>>

\* An object disappears from the store while nothing runs.
Lose ==
  /\ run.step = "idle" /\ losses < MaxLosses
  /\ losses' = losses + 1
  /\ \E object \in objects :
       objects' = objects \ {object} /\ lost' = lost \union {object}
  /\ UNCHANGED <<upstream, verified, immutable, latest, run, stamp, changes,
                 faults>>

-----------------------------------------------------------------------------
(* A run. *)

\* The native jobs check the signatures of the desktop packages of today, and
\* select_assets takes their digests and those of the release.  The two are
\* one step: what changes in between makes the download fail.
Select ==
  /\ run.step = "idle"
  /\ verified' = verified \union Named("desktop", upstream)
  /\ run' = [Idle EXCEPT !.step = "selected"]
  /\ UNCHANGED <<upstream, store, stamp, changes, faults, losses>>

\* The packages of a release never change; the desktop URLs serve the newest.
Fetched ==
  [a \in Assets |-> IF a \in Cli THEN run.release.digest[a]
                                 ELSE upstream.digest[a]]

\* Bug: the digest that the native jobs verified is not compared.
DownloadUnchecked ==
  /\ run.step = "selected"
  /\ run' = [run EXCEPT !.step = "prepared", !.release.digest = Fetched]
  /\ UNCHANGED <<upstream, verified, store, stamp, changes, faults, losses>>

\* Every package is downloaded, compared with its digest and validated, and
\* the three manifests are built, before anything is written.
Download ==
  /\ run.step = "selected"
  /\ Fetched = run.release.digest
  /\ run' = [run EXCEPT !.step = "prepared", !.release.digest = Fetched]
  /\ UNCHANGED <<upstream, verified, store, stamp, changes, faults, losses>>

\* A package is not the one that was verified: the run ends.
Mismatch ==
  /\ run.step = "selected"
  /\ Fetched # run.release.digest
  /\ run' = Idle
  /\ UNCHANGED <<upstream, verified, store, stamp, changes, faults, losses>>

\* Bug: only the digests of the packages are compared.
UnchangedSnapshot ==
  \A kind \in Kinds :
    latest[kind] # NoManifest /\ latest[kind].objects = Named(kind, run.release)

\* Bug: only the newest full manifest is compared.
UnchangedFull == Describes(latest["v4"], "v4", run.release)

\* All three pointers already describe the release.
Unchanged == \A kind \in Kinds : Describes(latest[kind], kind, run.release)

\* Nothing to do: every object is there too.
NoChange ==
  /\ run.step = "prepared"
  /\ Unchanged /\ Named("v4", run.release) \subseteq objects
  /\ run' = [run EXCEPT !.step = "done"]
  /\ UNCHANGED <<upstream, verified, store, stamp, changes, faults, losses>>

\* Something differs, or a pointer or an object could not be read.
Publish ==
  /\ run.step = "prepared"
  /\ \/ ~(Unchanged /\ Named("v4", run.release) \subseteq objects)
        /\ faults' = faults
     \/ faults < MaxFaults /\ faults' = faults + 1
  /\ stamp' = stamp + 1
  /\ run' = [run EXCEPT !.step = "assets", !.todo = Named("v4", run.release)]
  /\ UNCHANGED <<upstream, verified, store, changes, losses>>

\* A package that the public site does not serve exactly is uploaded, and
\* read back.
PutAsset ==
  /\ run.step = "assets"
  /\ \E object \in run.todo :
       /\ objects' = objects \union {object} /\ lost' = lost \ {object}
       /\ run' = [run EXCEPT !.todo = @ \ {object}]
  /\ UNCHANGED <<upstream, verified, immutable, latest, stamp, changes,
                 faults, losses>>

\* Bug: the manifests do not wait for the packages.
AssetsPublishedEarly ==
  /\ run.step = "assets"
  /\ run' = [run EXCEPT !.step = "preserving", !.todo = {}]
  /\ UNCHANGED <<upstream, verified, store, stamp, changes, faults, losses>>

AssetsPublished ==
  /\ run.step = "assets" /\ run.todo = {}
  /\ run' = [run EXCEPT !.step = "preserving"]
  /\ UNCHANGED <<upstream, verified, store, stamp, changes, faults, losses>>

Current == Manifest(Order[run.count + 1], run.release, stamp)

\* A manifest is kept under its own digest, and read back.
Preserve ==
  /\ run.step = "preserving" /\ run.count < 3
  /\ immutable' = immutable \union {Current}
  /\ run' = [run EXCEPT !.count = @ + 1]
  /\ UNCHANGED <<upstream, verified, objects, lost, latest, stamp, changes,
                 faults, losses>>

Preserved ==
  /\ run.step = "preserving" /\ run.count = 3
  /\ run' = [run EXCEPT !.step = "pointing", !.count = 0]
  /\ UNCHANGED <<upstream, verified, store, stamp, changes, faults, losses>>

\* A pointer is replaced, and read back.
Point ==
  /\ run.step = "pointing" /\ run.count < 3
  /\ latest' = [latest EXCEPT ![Order[run.count + 1]] = Current]
  /\ run' = [run EXCEPT !.count = @ + 1]
  /\ UNCHANGED <<upstream, verified, objects, lost, immutable, stamp, changes,
                 faults, losses>>

Pointed ==
  /\ run.step = "pointing" /\ run.count = 3
  /\ run' = [run EXCEPT !.step = "done"]
  /\ UNCHANGED <<upstream, verified, store, stamp, changes, faults, losses>>

\* The process ends with success.
Finish ==
  /\ run.step = "done"
  /\ run' = Idle
  /\ UNCHANGED <<upstream, verified, store, stamp, changes, faults, losses>>

\* The run ends here: an upload or a read-back fails, a package, a manifest or
\* one that is already published is invalid, the job is cancelled or its time
\* is up.
Stop ==
  /\ run.step \notin {"idle", "done"} /\ faults < MaxFaults
  /\ faults' = faults + 1
  /\ run' = Idle
  /\ UNCHANGED <<upstream, verified, store, stamp, changes, losses>>

RunStep ==
  \/ Select \/ Download \/ Mismatch \/ NoChange \/ Publish
  \/ PutAsset \/ AssetsPublished \/ Preserve \/ Preserved \/ Point \/ Pointed
  \/ Finish

Next == Upstream \/ Lose \/ RunStep \/ Stop

Spec == Init /\ [][Next]_vars

\* The workflow is scheduled every day and each of its steps has a timeout.
FairSpec == Spec /\ WF_vars(RunStep)

-----------------------------------------------------------------------------
(* Correctness. *)

Steps == {"idle", "selected", "prepared", "assets", "preserving", "pointing",
          "done"}

\* Every variable has its type; a pointer holds a manifest of its own kind,
\* and a desktop manifest names desktop packages only (validate_manifest).
TypeOK ==
  /\ upstream \in Releases
  /\ verified \subseteq Desktop \X Digests
  /\ objects \subseteq Objects /\ lost \subseteq Objects
  /\ immutable \subseteq Manifests
  /\ latest \in [Kinds -> Manifests \union {NoManifest}]
  /\ \A kind \in Kinds : latest[kind] # NoManifest => latest[kind].kind = kind
  /\ \A manifest \in immutable :
       manifest.kind = "desktop" => manifest.objects \subseteq Desktop \X Digests
  /\ run \in [step : Steps, release : Releases, todo : SUBSET Objects,
              count : 0 .. 3]
  /\ stamp \in Nat /\ changes \in Nat /\ faults \in Nat /\ losses \in Nat

\* A customer who reads any of the three pointers, at any moment of any run
\* or after a run that stopped, finds every package it names (the comment
\* above the pointers: customers never observe a manifest that references
\* unavailable objects), unless the store lost it afterwards.
LatestIsComplete ==
  \A kind \in Kinds :
    latest[kind] # NoManifest => latest[kind].objects \subseteq objects \union lost

\* What a pointer shows can be found again under its own digest once the
\* pointer moves on: each manifest is preserved before any pointer changes.
LatestIsPreserved ==
  \A kind \in Kinds : latest[kind] # NoManifest => latest[kind] \in immutable

\* Desktop packages come from a URL that always serves the newest; customers
\* are only offered packages whose signature a native job has checked.
OnlyVerifiedPackages ==
  \A kind \in Kinds : latest[kind] # NoManifest =>
    \A object \in latest[kind].objects : object[1] \in Desktop => object \in verified

\* A run that reports success, having published or having found nothing to
\* do, leaves all three pointers on the release it selected, its component
\* metadata included, and every package in the store; whatever runs before
\* it left half done or the store lost.
SuccessMeansPublished ==
  run.step = "done" =>
    /\ \A kind \in Kinds : Describes(latest[kind], kind, run.release)
    /\ Named("v4", run.release) \subseteq objects

\* Once upstream is quiet and runs are no longer cut short, the pointers and
\* the store reach the newest release and stay there: no half published
\* state is taken for unchanged.
CatchesUp ==
  <>[](/\ \A kind \in Kinds : Describes(latest[kind], kind, upstream)
       /\ Named("v4", upstream) \subseteq objects)
=============================================================================

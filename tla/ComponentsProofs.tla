--------------------------- MODULE ComponentsProofs ---------------------------
(* The properties of Components, for every value of its constants: each    *)
(* follows from the theorem of its component, once the part that moves is  *)
(* seen to move as that component's specification says.                    *)
EXTENDS Components, PartsProofs

(* The composition.                                                        *)

(* The component that moves is chosen once.                                *)
LEMMA PartStays == [PartsNext]_allVars => part' = part
  BY DEF PartsNext, allVars, QueueMoves, CatalogMoves, LearnerMoves, MonitoringMoves,
     ArchiveMoves, PlaybackMoves, ReleaseMoves, DatasetsMoves, RecordingMoves,
     JournalMoves, ManualMoves

(* The catalog moves as its own specification says.                        *)
LEMMA CatalogRuns == part = "catalog" /\ PartsSpec => Catalog!Spec
<1>1. part = "catalog" /\ PartsInit => Catalog!Init
  BY DEF PartsInit
<1>2. part = "catalog" /\ [PartsNext]_allVars => [Catalog!Next]_Catalog!vars
  BY DEF PartsNext, allVars, QueueMoves, CatalogMoves, LearnerMoves, MonitoringMoves,
     ArchiveMoves, PlaybackMoves, ReleaseMoves, DatasetsMoves, RecordingMoves,
     JournalMoves, ManualMoves, catalog, Catalog!vars, Catalog!store, Catalog!projection
<1>3. part = "catalog" /\ [PartsNext]_allVars => (part = "catalog")'
  BY PartStays
<1> QED
  BY <1>1, <1>2, <1>3, PTL DEF PartsSpec, Catalog!Spec

(* A fact that is not in the catalog is with a worker or a queue that will *)
(* bring it there.                                                         *)
THEOREM FactsAlwaysHaveAnOwner == PartsSpec => []FactsHaveAnOwner
<1>1. part = "catalog" /\ PartsSpec => Catalog!Spec
  BY CatalogRuns
<1>2. ~(part = "catalog") /\ [PartsNext]_allVars => (~(part = "catalog"))'
  BY PartStays
<1>3. Catalog!Spec => []Catalog!FactsHaveAnOwner
  BY PartsAssumption, Catalog!FactsStayOwned
<1> QED
  BY <1>1, <1>2, <1>3, PTL DEF PartsSpec, FactsHaveAnOwner

(* The catalog only grows, and holds nothing but the facts of its sources, *)
(* also while another part moves.                                          *)
THEOREM CatalogGrows == PartsSpec => CatalogOnlyGrows
<1>1. PartsInit => Catalog!Init
  BY DEF PartsInit
<1>2. [PartsNext]_allVars => [Catalog!Next]_Catalog!vars
  BY DEF PartsNext, allVars, QueueMoves, CatalogMoves, LearnerMoves, MonitoringMoves,
     ArchiveMoves, PlaybackMoves, ReleaseMoves, DatasetsMoves, RecordingMoves,
     JournalMoves, ManualMoves, catalog, Catalog!vars, Catalog!store, Catalog!projection
<1>3. PartsSpec => Catalog!Spec
  BY <1>1, <1>2, PTL DEF PartsSpec, Catalog!Spec
<1>4. Catalog!Spec => Catalog!CatalogOnlyGrows
  BY PartsAssumption, Catalog!CatalogImplementsRecord
<1> QED
  BY <1>3, <1>4 DEF CatalogOnlyGrows

(* The learner moves as its own specification says.                        *)
LEMMA LearnerRuns == part = "learner" /\ PartsSpec => Learner!Spec
<1>1. part = "learner" /\ PartsInit => Learner!Init
  BY DEF PartsInit
<1>2. part = "learner" /\ [PartsNext]_allVars => [Learner!Next]_Learner!vars
  BY DEF PartsNext, allVars, QueueMoves, CatalogMoves, LearnerMoves, MonitoringMoves,
     ArchiveMoves, PlaybackMoves, ReleaseMoves, DatasetsMoves, RecordingMoves,
     JournalMoves, ManualMoves, supervision, Learner!vars, Learner!run, Learner!stores,
     Learner!supervisor, Learner!process
<1>3. part = "learner" /\ [PartsNext]_allVars => (part = "learner")'
  BY PartStays
<1> QED
  BY <1>1, <1>2, <1>3, PTL DEF PartsSpec, Learner!Spec

(* While a learner lives its Run is given no verdict but a failure.        *)
THEOREM VerdictsAwaitLearner == PartsSpec => VerdictAfterLearner
<1>1. part = "learner" /\ PartsSpec => Learner!Spec
  BY LearnerRuns
<1>2. ~(part = "learner") /\ [PartsNext]_allVars => (~(part = "learner"))'
  BY PartStays
<1>3. Learner!Spec => [][Learner!RecordsOfTheGone]_Learner!vars
  BY PartsAssumption, Learner!VerdictsFollowLearner DEF Learner!VerdictAfterLearner
<1>4. [Learner!RecordsOfTheGone]_Learner!vars
      => [part = "learner" => Learner!RecordsOfTheGone]_allVars
  BY DEF Learner!RecordsOfTheGone, Learner!vars, Learner!stores
<1>5. ~(part = "learner") => [part = "learner" => Learner!RecordsOfTheGone]_allVars
  OBVIOUS
<1> QED
  BY <1>1, <1>2, <1>3, <1>4, <1>5, PTL DEF PartsSpec, VerdictAfterLearner

(* The monitoring moves as its own specification says.                     *)
LEMMA MonitoringRuns == part = "monitoring" /\ PartsSpec => Monitoring!Spec
<1>1. part = "monitoring" /\ PartsInit => Monitoring!Init
  BY DEF PartsInit
<1>2. part = "monitoring" /\ [PartsNext]_allVars => [Monitoring!Next]_Monitoring!vars
  BY DEF PartsNext, allVars, QueueMoves, CatalogMoves, LearnerMoves, MonitoringMoves,
     ArchiveMoves, PlaybackMoves, ReleaseMoves, DatasetsMoves, RecordingMoves,
     JournalMoves, ManualMoves, monitoring, Monitoring!vars, Monitoring!store,
     Monitoring!host
<1>3. part = "monitoring" /\ [PartsNext]_allVars => (part = "monitoring")'
  BY PartStays
<1> QED
  BY <1>1, <1>2, <1>3, PTL DEF PartsSpec, Monitoring!Spec

(* Worker processes stay within the CPUs, and a Checkpoint has one         *)
(* execution at a time.                                                    *)
THEOREM WorkersStayBounded == PartsSpec => []WorkersAreBounded
<1>1. part = "monitoring" /\ PartsSpec => Monitoring!Spec
  BY MonitoringRuns
<1>2. ~(part = "monitoring") /\ [PartsNext]_allVars => (~(part = "monitoring"))'
  BY PartStays
<1>3. Monitoring!Spec => [](Monitoring!TypeOK /\ Monitoring!WorkersAreBounded
      /\ Monitoring!VerdictsAreDurable)
  BY PartsAssumption, MonitoringIsSafe
<1> QED
  BY <1>1, <1>2, <1>3, PTL DEF PartsSpec, WorkersAreBounded

(* A verdict rests on a result and on episodes that are stored.            *)
THEOREM VerdictsStayDurable == PartsSpec => []VerdictsAreDurable
<1>1. part = "monitoring" /\ PartsSpec => Monitoring!Spec
  BY MonitoringRuns
<1>2. ~(part = "monitoring") /\ [PartsNext]_allVars => (~(part = "monitoring"))'
  BY PartStays
<1>3. Monitoring!Spec => [](Monitoring!TypeOK /\ Monitoring!WorkersAreBounded
      /\ Monitoring!VerdictsAreDurable)
  BY PartsAssumption, MonitoringIsSafe
<1> QED
  BY <1>1, <1>2, <1>3, PTL DEF PartsSpec, VerdictsAreDurable

(* The archive moves as its own specification says.                        *)
LEMMA ArchiveRuns == part = "archive" /\ PartsSpec => Archive!Spec
<1>1. part = "archive" /\ PartsInit => Archive!Init
  BY DEF PartsInit
<1>2. part = "archive" /\ [PartsNext]_allVars => [Archive!Next]_Archive!vars
  BY DEF PartsNext, allVars, QueueMoves, CatalogMoves, LearnerMoves, MonitoringMoves,
     ArchiveMoves, PlaybackMoves, ReleaseMoves, DatasetsMoves, RecordingMoves,
     JournalMoves, ManualMoves, archive, Archive!vars, Archive!directory,
     Archive!bucket, Archive!supervisor
<1>3. part = "archive" /\ [PartsNext]_allVars => (part = "archive")'
  BY PartStays
<1> QED
  BY <1>1, <1>2, <1>3, PTL DEF PartsSpec, Archive!Spec

(* What latest.json names can be restored, unless a late request of an     *)
(* Attempt that lost its lease has overrun the store.                      *)
THEOREM ArchiveStaysRestorable == PartsSpec => []LatestIsRestorable
<1>1. part = "archive" /\ PartsSpec => Archive!Spec
  BY ArchiveRuns
<1>2. ~(part = "archive") /\ [PartsNext]_allVars => (~(part = "archive"))'
  BY PartStays
<1>3. Archive!Spec => [](Archive!TypeOK /\ Archive!LatestIsRestorable)
  BY PartsAssumption, ArchiveIsRestorable
<1> QED
  BY <1>1, <1>2, <1>3, PTL DEF PartsSpec, LatestIsRestorable

(* The playback moves as its own specification says.                       *)
LEMMA PlaybackRuns == part = "playback" /\ PartsSpec => Playback!Spec
<1>1. part = "playback" /\ PartsInit => Playback!Init
  BY DEF PartsInit
<1>2. part = "playback" /\ [PartsNext]_allVars => [Playback!Next]_Playback!vars
  BY DEF PartsNext, allVars, QueueMoves, CatalogMoves, LearnerMoves, MonitoringMoves,
     ArchiveMoves, PlaybackMoves, ReleaseMoves, DatasetsMoves, RecordingMoves,
     JournalMoves, ManualMoves, playback, Playback!vars, Playback!session,
     Playback!threads
<1>3. part = "playback" /\ [PartsNext]_allVars => (part = "playback")'
  BY PartStays
<1> QED
  BY <1>1, <1>2, <1>3, PTL DEF PartsSpec, Playback!Spec

(* An answered read is about the session it was asked of, whatever was     *)
(* loaded, imported or stopped meanwhile.                                  *)
THEOREM ReadsStayInTheirSession == PartsSpec => []ReadsSeeOneSession
<1>1. part = "playback" /\ PartsSpec => Playback!Spec
  BY PlaybackRuns
<1>2. ~(part = "playback") /\ [PartsNext]_allVars => (~(part = "playback"))'
  BY PartStays
<1>3. Playback!Spec => [](Playback!TypeOK /\ Playback!ReadsSeeOneSession
      /\ Playback!NoRunnerIsLeft)
  BY PartsAssumption, SessionsAreKept
<1> QED
  BY <1>1, <1>2, <1>3, PTL DEF PartsSpec, ReadsSeeOneSession

(* When no load and no import is under way, the runner of the session is   *)
(* the only one open.                                                      *)
THEOREM RunnersAreClosed == PartsSpec => []NoRunnerIsLeft
<1>1. part = "playback" /\ PartsSpec => Playback!Spec
  BY PlaybackRuns
<1>2. ~(part = "playback") /\ [PartsNext]_allVars => (~(part = "playback"))'
  BY PartStays
<1>3. Playback!Spec => [](Playback!TypeOK /\ Playback!ReadsSeeOneSession
      /\ Playback!NoRunnerIsLeft)
  BY PartsAssumption, SessionsAreKept
<1> QED
  BY <1>1, <1>2, <1>3, PTL DEF PartsSpec, NoRunnerIsLeft

(* The release moves as its own specification says.                        *)
LEMMA ReleaseRuns == part = "release" /\ PartsSpec => Release!Spec
<1>1. part = "release" /\ PartsInit => Release!Init
  BY DEF PartsInit
<1>2. part = "release" /\ [PartsNext]_allVars => [Release!Next]_Release!vars
  BY DEF PartsNext, allVars, QueueMoves, CatalogMoves, LearnerMoves, MonitoringMoves,
     ArchiveMoves, PlaybackMoves, ReleaseMoves, DatasetsMoves, RecordingMoves,
     JournalMoves, ManualMoves, release, Release!vars, Release!queue, Release!files,
     Release!handler, Release!youtube, Release!hub, Release!bounds
<1>3. part = "release" /\ [PartsNext]_allVars => (part = "release")'
  BY PartStays
<1> QED
  BY <1>1, <1>2, <1>3, PTL DEF PartsSpec, Release!Spec

(* A request makes one video and one commit, whatever dies, is lost,       *)
(* retried, resolved or canceled.                                          *)
THEOREM PublicationIsSingle == PartsSpec => []PublishedOnce
<1>1. part = "release" /\ PartsSpec => Release!Spec
  BY ReleaseRuns
<1>2. ~(part = "release") /\ [PartsNext]_allVars => (~(part = "release"))'
  BY PartStays
<1>3. Release!Spec => [](Release!TypeOK /\ Release!PublishedOnce /\ Release!PublicIsComplete)
  BY PartsAssumption, ReleaseIsSafe
<1> QED
  BY <1>1, <1>2, <1>3, PTL DEF PartsSpec, PublishedOnce

(* Nothing of a request is public before it is complete and was checked.   *)
THEOREM PublicationIsWhole == PartsSpec => []PublicIsComplete
<1>1. part = "release" /\ PartsSpec => Release!Spec
  BY ReleaseRuns
<1>2. ~(part = "release") /\ [PartsNext]_allVars => (~(part = "release"))'
  BY PartStays
<1>3. Release!Spec => [](Release!TypeOK /\ Release!PublishedOnce /\ Release!PublicIsComplete)
  BY PartsAssumption, ReleaseIsSafe
<1> QED
  BY <1>1, <1>2, <1>3, PTL DEF PartsSpec, PublicIsComplete

(* The datasets moves as its own specification says.                       *)
LEMMA DatasetsRuns == part = "datasets" /\ PartsSpec => Datasets!Spec
<1>1. part = "datasets" /\ PartsInit => Datasets!Init
  BY DEF PartsInit
<1>2. part = "datasets" /\ [PartsNext]_allVars => [Datasets!Next]_Datasets!vars
  BY DEF PartsNext, allVars, QueueMoves, CatalogMoves, LearnerMoves, MonitoringMoves,
     ArchiveMoves, PlaybackMoves, ReleaseMoves, DatasetsMoves, RecordingMoves,
     JournalMoves, ManualMoves, datasets, Datasets!vars, Datasets!trees, Datasets!locks,
     Datasets!sessions, Datasets!processes
<1>3. part = "datasets" /\ [PartsNext]_allVars => (part = "datasets")'
  BY PartStays
<1> QED
  BY <1>1, <1>2, <1>3, PTL DEF PartsSpec, Datasets!Spec

(* A recorded episode is in the collection, or in the hands of its         *)
(* recorder.                                                               *)
THEOREM EpisodesStay == PartsSpec => []EpisodesAreKept
<1>1. part = "datasets" /\ PartsSpec => Datasets!Spec
  BY DatasetsRuns
<1>2. ~(part = "datasets") /\ [PartsNext]_allVars => (~(part = "datasets"))'
  BY PartStays
<1>3. Datasets!Spec => []Datasets!EpisodesAreKept
  BY PartsAssumption, Datasets!EpisodesSurvive
<1> QED
  BY <1>1, <1>2, <1>3, PTL DEF PartsSpec, EpisodesAreKept

(* An open collection has what was reported as committed.                  *)
THEOREM CommitsAreSeen == PartsSpec => []ReadersSeeCommits
<1>1. part = "datasets" /\ PartsSpec => Datasets!Spec
  BY DatasetsRuns
<1>2. ~(part = "datasets") /\ [PartsNext]_allVars => (~(part = "datasets"))'
  BY PartStays
<1>3. Datasets!Spec => []Datasets!ReadersSeeCommits
  BY PartsAssumption, Datasets!ReadersAreUpToDate
<1> QED
  BY <1>1, <1>2, <1>3, PTL DEF PartsSpec, ReadersSeeCommits

(* The recording moves as its own specification says.                      *)
LEMMA RecordingRuns == part = "recording" /\ PartsSpec => Recording!Spec
<1>1. part = "recording" /\ PartsInit => Recording!Init
  BY DEF PartsInit
<1>2. part = "recording" /\ [PartsNext]_allVars => [Recording!Next]_Recording!vars
  BY DEF PartsNext, allVars, QueueMoves, CatalogMoves, LearnerMoves, MonitoringMoves,
     ArchiveMoves, PlaybackMoves, ReleaseMoves, DatasetsMoves, RecordingMoves,
     JournalMoves, ManualMoves, recording, Recording!vars, Recording!capture,
     Recording!queue, Recording!files, Recording!transfers
<1>3. part = "recording" /\ [PartsNext]_allVars => (part = "recording")'
  BY PartStays
<1> QED
  BY <1>1, <1>2, <1>3, PTL DEF PartsSpec, Recording!Spec

(* A finished download holds the decisions accepted when it began, and a   *)
(* diagnostic read those the files held, whatever was written, retried or  *)
(* retired meanwhile.                                                      *)
THEOREM DownloadsStayExact == PartsSpec => []DownloadsAreExact
<1>1. part = "recording" /\ PartsSpec => Recording!Spec
  BY RecordingRuns
<1>2. ~(part = "recording") /\ [PartsNext]_allVars => (~(part = "recording"))'
  BY PartStays
<1>3. Recording!Spec => [](Recording!TypeOK /\ Recording!DownloadsAreExact)
  BY PartsAssumption, RecordingIsExact
<1> QED
  BY <1>1, <1>2, <1>3, PTL DEF PartsSpec, DownloadsAreExact

(* The journal moves as its own specification says.                        *)
LEMMA JournalRuns == part = "journal" /\ PartsSpec => Journal!Spec
<1>1. part = "journal" /\ PartsInit => Journal!Init
  BY DEF PartsInit
<1>2. part = "journal" /\ [PartsNext]_allVars => [Journal!Next]_Journal!vars
  BY DEF PartsNext, allVars, QueueMoves, CatalogMoves, LearnerMoves, MonitoringMoves,
     ArchiveMoves, PlaybackMoves, ReleaseMoves, DatasetsMoves, RecordingMoves,
     JournalMoves, ManualMoves, journaling, Journal!vars, Journal!ledger,
     Journal!control
<1>3. part = "journal" /\ [PartsNext]_allVars => (part = "journal")'
  BY PartStays
<1> QED
  BY <1>1, <1>2, <1>3, PTL DEF PartsSpec, Journal!Spec

(* After recovery the ledger has every event that was ever sealed.         *)
THEOREM SealedEventsStay == PartsSpec => []NothingSealedIsLost
<1>1. part = "journal" /\ PartsSpec => Journal!Spec
  BY JournalRuns
<1>2. ~(part = "journal") /\ [PartsNext]_allVars => (~(part = "journal"))'
  BY PartStays
<1>3. Journal!Spec => []Journal!NothingSealedIsLost
  BY PartsAssumption, Journal!SealedEventsSurvive
<1> QED
  BY <1>1, <1>2, <1>3, PTL DEF PartsSpec, NothingSealedIsLost

(* A drain that ends completely has delivered everything.                  *)
THEOREM DrainsLeaveNothing == PartsSpec => []DrainIsComplete
<1>1. part = "journal" /\ PartsSpec => Journal!Spec
  BY JournalRuns
<1>2. ~(part = "journal") /\ [PartsNext]_allVars => (~(part = "journal"))'
  BY PartStays
<1>3. Journal!Spec => []Journal!DrainIsComplete
  BY PartsAssumption, Journal!DrainsAreComplete
<1> QED
  BY <1>1, <1>2, <1>3, PTL DEF PartsSpec, DrainIsComplete

(* The journal can be read at any time, until a sequence was spent for     *)
(* nothing.                                                                *)
THEOREM JournalCanBeRead == PartsSpec => []ReadableUnlessNumbersAreSpent
<1>1. part = "journal" /\ PartsSpec => Journal!Spec
  BY JournalRuns
<1>2. ~(part = "journal") /\ [PartsNext]_allVars => (~(part = "journal"))'
  BY PartStays
<1>3. Journal!Spec => []Journal!ReadableUnlessNumbersAreSpent
  BY PartsAssumption, Journal!JournalStaysReadable
<1> QED
  BY <1>1, <1>2, <1>3, PTL DEF PartsSpec, ReadableUnlessNumbersAreSpent

(* The manual moves as its own specification says.                         *)
LEMMA ManualRuns == part = "manual" /\ PartsSpec => Manual!Spec
<1>1. part = "manual" /\ PartsInit => Manual!Init
  BY DEF PartsInit
<1>2. part = "manual" /\ [PartsNext]_allVars => [Manual!Next]_Manual!vars
  BY DEF PartsNext, allVars, QueueMoves, CatalogMoves, LearnerMoves, MonitoringMoves,
     ArchiveMoves, PlaybackMoves, ReleaseMoves, DatasetsMoves, RecordingMoves,
     JournalMoves, ManualMoves, manual, Manual!vars, Manual!queue, Manual!run,
     Manual!evidence, Manual!projected, Manual!ledger, Manual!worker
<1>3. part = "manual" /\ [PartsNext]_allVars => (part = "manual")'
  BY PartStays
<1> QED
  BY <1>1, <1>2, <1>3, PTL DEF PartsSpec, Manual!Spec

(* An evaluation job that succeeded kept its word for every Checkpoint of  *)
(* its batch, through deaths, cancels and retries.                         *)
THEOREM SuccessesAreBacked == PartsSpec => []SuccessIsBacked
<1>1. part = "manual" /\ PartsSpec => Manual!Spec
  BY ManualRuns
<1>2. ~(part = "manual") /\ [PartsNext]_allVars => (~(part = "manual"))'
  BY PartStays
<1>3. Manual!Spec => [](Manual!TypeOK /\ Manual!SuccessIsBacked)
  BY PartsAssumption, SuccessIsHonest
<1> QED
  BY <1>1, <1>2, <1>3, PTL DEF PartsSpec, SuccessIsBacked

(* Before an Attempt of training has its terminal receipt, an evaluation   *)
(* job writes nothing to the journal and the service; beside a later one   *)
(* that holds the lease, only an advance whose own lease has run out does. *)
THEOREM ProjectionsAwaitTraining == PartsSpec => []ProjectionAwaitsTraining
<1>1. part = "manual" /\ PartsSpec => Manual!Spec
  BY ManualRuns
<1>2. ~(part = "manual") /\ [PartsNext]_allVars => (~(part = "manual"))'
  BY PartStays
<1>3. Manual!Spec => []Manual!ProjectionAwaitsTraining
  BY PartsAssumption, ProjectionIsLate
<1> QED
  BY <1>1, <1>2, <1>3, PTL DEF PartsSpec, ProjectionAwaitsTraining

-----------------------------------------------------------------------------
(* A component that does not move need not have its type.                  *)
LEMMA CatalogTyped == PartsSpec => [](part = "catalog" => Catalog!TypeOK)
<1>1. part = "catalog" /\ PartsSpec => Catalog!Spec
  BY CatalogRuns
<1>2. ~(part = "catalog") /\ [PartsNext]_allVars => (~(part = "catalog"))'
  BY PartStays
<1>3. Catalog!Spec => []Catalog!TypeOK
  BY PartsAssumption, Catalog!CatalogTypeCorrect
<1> QED
  BY <1>1, <1>2, <1>3, PTL DEF PartsSpec

LEMMA LearnerTyped == PartsSpec => [](part = "learner" => Learner!TypeOK)
<1>1. part = "learner" /\ PartsSpec => Learner!Spec
  BY LearnerRuns
<1>2. ~(part = "learner") /\ [PartsNext]_allVars => (~(part = "learner"))'
  BY PartStays
<1>3. Learner!Spec => []Learner!TypeOK
  BY PartsAssumption, Learner!SupervisionTypeCorrect
<1> QED
  BY <1>1, <1>2, <1>3, PTL DEF PartsSpec

LEMMA MonitoringTyped == PartsSpec => [](part = "monitoring" => Monitoring!TypeOK)
<1>1. part = "monitoring" /\ PartsSpec => Monitoring!Spec
  BY MonitoringRuns
<1>2. ~(part = "monitoring") /\ [PartsNext]_allVars => (~(part = "monitoring"))'
  BY PartStays
<1>3. Monitoring!Spec => [](Monitoring!TypeOK /\ Monitoring!WorkersAreBounded
      /\ Monitoring!VerdictsAreDurable)
  BY PartsAssumption, MonitoringIsSafe
<1> QED
  BY <1>1, <1>2, <1>3, PTL DEF PartsSpec

LEMMA ArchiveTyped == PartsSpec => [](part = "archive" => Archive!TypeOK)
<1>1. part = "archive" /\ PartsSpec => Archive!Spec
  BY ArchiveRuns
<1>2. ~(part = "archive") /\ [PartsNext]_allVars => (~(part = "archive"))'
  BY PartStays
<1>3. Archive!Spec => [](Archive!TypeOK /\ Archive!LatestIsRestorable)
  BY PartsAssumption, ArchiveIsRestorable
<1> QED
  BY <1>1, <1>2, <1>3, PTL DEF PartsSpec

LEMMA PlaybackTyped == PartsSpec => [](part = "playback" => Playback!TypeOK)
<1>1. part = "playback" /\ PartsSpec => Playback!Spec
  BY PlaybackRuns
<1>2. ~(part = "playback") /\ [PartsNext]_allVars => (~(part = "playback"))'
  BY PartStays
<1>3. Playback!Spec => [](Playback!TypeOK /\ Playback!ReadsSeeOneSession
      /\ Playback!NoRunnerIsLeft)
  BY PartsAssumption, SessionsAreKept
<1> QED
  BY <1>1, <1>2, <1>3, PTL DEF PartsSpec

LEMMA ReleaseTyped == PartsSpec => [](part = "release" => Release!TypeOK)
<1>1. part = "release" /\ PartsSpec => Release!Spec
  BY ReleaseRuns
<1>2. ~(part = "release") /\ [PartsNext]_allVars => (~(part = "release"))'
  BY PartStays
<1>3. Release!Spec => [](Release!TypeOK /\ Release!PublishedOnce /\ Release!PublicIsComplete)
  BY PartsAssumption, ReleaseIsSafe
<1> QED
  BY <1>1, <1>2, <1>3, PTL DEF PartsSpec

LEMMA DatasetsTyped == PartsSpec => [](part = "datasets" => Datasets!TypeOK)
<1>1. part = "datasets" /\ PartsSpec => Datasets!Spec
  BY DatasetsRuns
<1>2. ~(part = "datasets") /\ [PartsNext]_allVars => (~(part = "datasets"))'
  BY PartStays
<1>3. Datasets!Spec => []Datasets!TypeOK
  BY PartsAssumption, Datasets!StoreTypeCorrect
<1> QED
  BY <1>1, <1>2, <1>3, PTL DEF PartsSpec

LEMMA RecordingTyped == PartsSpec => [](part = "recording" => Recording!TypeOK)
<1>1. part = "recording" /\ PartsSpec => Recording!Spec
  BY RecordingRuns
<1>2. ~(part = "recording") /\ [PartsNext]_allVars => (~(part = "recording"))'
  BY PartStays
<1>3. Recording!Spec => [](Recording!TypeOK /\ Recording!DownloadsAreExact)
  BY PartsAssumption, RecordingIsExact
<1> QED
  BY <1>1, <1>2, <1>3, PTL DEF PartsSpec

LEMMA JournalTyped == PartsSpec => [](part = "journal" => Journal!TypeOK)
<1>1. part = "journal" /\ PartsSpec => Journal!Spec
  BY JournalRuns
<1>2. ~(part = "journal") /\ [PartsNext]_allVars => (~(part = "journal"))'
  BY PartStays
<1>3. Journal!Spec => []Journal!TypeOK
  BY PartsAssumption, Journal!JournalTypeCorrect
<1> QED
  BY <1>1, <1>2, <1>3, PTL DEF PartsSpec

LEMMA ManualTyped == PartsSpec => [](part = "manual" => Manual!TypeOK)
<1>1. part = "manual" /\ PartsSpec => Manual!Spec
  BY ManualRuns
<1>2. ~(part = "manual") /\ [PartsNext]_allVars => (~(part = "manual"))'
  BY PartStays
<1>3. Manual!Spec => [](Manual!TypeOK /\ Manual!SuccessIsBacked)
  BY PartsAssumption, SuccessIsHonest
<1> QED
  BY <1>1, <1>2, <1>3, PTL DEF PartsSpec

(* Every variable of the component that moves keeps its kind of value.     *)
THEOREM PartsTypeCorrect == PartsSpec => []PartsTypeOK
BY CatalogTyped, LearnerTyped, MonitoringTyped, ArchiveTyped, PlaybackTyped,
   ReleaseTyped, DatasetsTyped, RecordingTyped, JournalTyped, ManualTyped, PTL DEF
   PartsTypeOK
=============================================================================

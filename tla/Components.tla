------------------------------ MODULE Components ------------------------------
(***************************************************************************)
(* The components that share no state, side by side: "part" is chosen in   *)
(* the initial state, and only that component moves; the variables of the  *)
(* others are 0.  Parts has the queue and six of them; the others are      *)
(* instantiated with their theorems.                                       *)
(***************************************************************************)
EXTENDS Parts

CONSTANTS
  \* GoalCatalog
  CatalogEvents, CatalogWorkers, CatalogTries, CatalogFaults,
  \* LearnerSupervision
  Kinds, RunAttempts, LearnerFaults,
  \* DatasetStore
  Recorders, StoreReaders, StoreFaults,
  \* MetricJournal
  Metrics, IdleMetrics, Results, Deliveries, SegmentLimit, MaxRestarts,
  JournalFaults

VARIABLES
  part,
  gStored, gSources, gPointer, gAcked, gAt, gJob, gPc, gSeen, gTag, gFound, gTries,
  gFaults,
  lKind, lAttempt, lMode, lCancel, lClosed, lFinal, lPromoted, lReceipt, lCanonical,
  lSup, lLost, lCanceled, lAsked, lFailure, lLearner, lHung, lMarker, lFaults,
  dCurrent, dNext, dBackup, dPhase, dQuarantine, dExclusive, dShared, dSession,
  dEpisode, dManifest, dHolder, dAt, dTask, dTodo, dWork, dView, dFaults,
  oSegments, oVerified, oLogged, oDelivery, oSeqOf, oStatus, oNext, oHigh, oPc,
  oPut, oSettling, oReplaying, oRestoring, oAttempt, oRestarts, oFaults, oSpent

catalog == <<gStored, gSources, gPointer, gAcked, gAt, gJob, gPc, gSeen, gTag, gFound,
  gTries, gFaults>>
supervision == <<lKind, lAttempt, lMode, lCancel, lClosed, lFinal, lPromoted,
  lReceipt, lCanonical, lSup, lLost, lCanceled, lAsked, lFailure, lLearner, lHung,
  lMarker, lFaults>>
datasets == <<dCurrent, dNext, dBackup, dPhase, dQuarantine, dExclusive, dShared, dSession,
  dEpisode, dManifest, dHolder, dAt, dTask, dTodo, dWork, dView, dFaults>>
journaling == <<oSegments, oVerified, oLogged, oDelivery, oSeqOf, oStatus, oNext, oHigh,
  oPc, oPut, oSettling, oReplaying, oRestoring, oAttempt, oRestarts, oFaults, oSpent>>
Catalog == INSTANCE GoalCatalogProofs WITH
  Events <- CatalogEvents, Workers <- CatalogWorkers, Attempts <- CatalogTries,
  MaxFaults <- CatalogFaults, Nothing <- None,
  stored <- gStored, sources <- gSources, pointer <- gPointer, acked <- gAcked,
  at <- gAt, job <- gJob, pc <- gPc, seen <- gSeen, tag <- gTag, found <- gFound,
  tries <- gTries, faults <- gFaults

Learner == INSTANCE LearnerSupervisionProofs WITH
  MaxAttempts <- RunAttempts, MaxFaults <- LearnerFaults, kind <- lKind,
  attempt <- lAttempt, mode <- lMode, cancel <- lCancel, closed <- lClosed,
  final <- lFinal, promoted <- lPromoted, receipt <- lReceipt,
  canonical <- lCanonical, sup <- lSup, lost <- lLost, canceled <- lCanceled,
  asked <- lAsked, failure <- lFailure, learner <- lLearner, hung <- lHung,
  marker <- lMarker, faults <- lFaults

Datasets == INSTANCE DatasetStoreProofs WITH
  Readers <- StoreReaders, MaxFaults <- StoreFaults,
  current <- dCurrent, next <- dNext, backup <- dBackup, phase <- dPhase,
  quarantine <- dQuarantine, exclusive <- dExclusive, shared <- dShared,
  session <- dSession, episode <- dEpisode, manifest <- dManifest, holder <- dHolder,
  at <- dAt, task <- dTask, todo <- dTodo, work <- dWork, view <- dView,
  faults <- dFaults

Journal == INSTANCE MetricJournalProofs WITH
  Limit <- SegmentLimit, MaxFaults <- JournalFaults,
  segments <- oSegments, verified <- oVerified, logged <- oLogged,
  delivery <- oDelivery, seqOf <- oSeqOf, status <- oStatus, next <- oNext,
  high <- oHigh, pc <- oPc, put <- oPut, settling <- oSettling,
  replaying <- oReplaying, restoring <- oRestoring, attempt <- oAttempt,
  restarts <- oRestarts, faults <- oFaults, spent <- oSpent

ASSUME PartsAssumption ==
  /\ Catalog!CatalogAssumption
  /\ Learner!SupervisionAssumption
  /\ Monitoring!MonitoringAssumption
  /\ Archive!ArchiveAssumption
  /\ Playback!PlaybackAssumption
  /\ Release!PublicationAssumption
  /\ Datasets!StoreAssumption
  /\ Recording!RecordingAssumption
  /\ Journal!JournalAssumption
  /\ Manual!BatchAssumption
-----------------------------------------------------------------------------
LearnerIdle ==
  /\ lKind = 0 /\ lAttempt = 0 /\ lMode = 0 /\ lCancel = 0 /\ lClosed = 0 /\ lFinal = 0
  /\ lPromoted = 0 /\ lReceipt = 0 /\ lCanonical = 0 /\ lSup = 0 /\ lLost = 0
  /\ lCanceled = 0 /\ lAsked = 0 /\ lFailure = 0 /\ lLearner = 0 /\ lHung = 0
  /\ lMarker = 0 /\ lFaults = 0

MonitoringIdle ==
  /\ mState = 0 /\ mCommitted = 0 /\ mResult = 0 /\ mPublished = 0 /\ mRows = 0
  /\ mTurn = 0 /\ mPhase = 0 /\ mProc = 0 /\ mDoing = 0 /\ mClaimed = 0 /\ mLocal = 0
  /\ mFaults = 0

ArchiveIdle ==
  /\ aLocal = 0 /\ aView = 0 /\ aClosure = 0 /\ aLearner = 0 /\ aSealed = 0
  /\ aObjects = 0 /\ aGenerations = 0 /\ aLatest = 0 /\ aOwner = 0 /\ aPc = 0
  /\ aStage = 0 /\ aPublished = 0 /\ aPrior = 0 /\ aDoomed = 0 /\ aLate = 0
  /\ aOverrun = 0

PlaybackIdle ==
  /\ pGeneration = 0 /\ pEpoch = 0 /\ pPhase = 0 /\ pStopped = 0 /\ pActive = 0
  /\ pOpen = 0 /\ pBuilt = 0 /\ pShown = 0 /\ pLoader = 0 /\ pImporter = 0 /\ pReader = 0
  /\ pCommands = 0 /\ pFaults = 0

ReleaseIdle ==
  /\ rJob = 0 /\ rCancel = 0 /\ rSnapshot = 0 /\ rSaved = 0 /\ rPc = 0 /\ rMem = 0
  /\ rHead = 0 /\ rStarted = 0 /\ rSent = 0 /\ rExpired = 0 /\ rProcessed = 0
  /\ rFinal = 0 /\ rParent = 0 /\ rMain = 0 /\ rTag = 0 /\ rPlaces = 0 /\ rOp = 0
  /\ rCalls = 0 /\ rFaults = 0

DatasetsIdle ==
  /\ dCurrent = 0 /\ dNext = 0 /\ dBackup = 0 /\ dPhase = 0 /\ dQuarantine = 0
  /\ dExclusive = 0 /\ dShared = 0 /\ dSession = 0 /\ dEpisode = 0 /\ dManifest = 0
  /\ dHolder = 0 /\ dAt = 0 /\ dTask = 0 /\ dTodo = 0 /\ dWork = 0 /\ dView = 0
  /\ dFaults = 0

RecordingIdle ==
  /\ eStep = 0 /\ eEngine = 0 /\ eEnabled = 0 /\ eRows = 0 /\ eWritten = 0
  /\ eError = 0 /\ eCaptureError = 0 /\ eClosed = 0 /\ eRetired = 0 /\ ePins = 0
  /\ eWriter = 0 /\ eBin = 0 /\ eIdx = 0 /\ eRemoved = 0 /\ eAt = 0 /\ eCutoff = 0
  /\ eHeld = 0 /\ eCopyBin = 0 /\ eCopyIdx = 0 /\ eLinked = 0 /\ eFaults = 0

JournalIdle ==
  /\ oSegments = 0 /\ oVerified = 0 /\ oLogged = 0 /\ oDelivery = 0 /\ oSeqOf = 0
  /\ oStatus = 0 /\ oNext = 0 /\ oHigh = 0 /\ oPc = 0 /\ oPut = 0 /\ oSettling = 0
  /\ oReplaying = 0 /\ oRestoring = 0 /\ oAttempt = 0 /\ oRestarts = 0 /\ oFaults = 0
  /\ oSpent = 0

ManualIdle ==
  /\ uJob = 0 /\ uCancel = 0 /\ uTraining = 0 /\ uRetries = 0 /\ uLease = 0
  /\ uTrained = 0 /\ uPromotion = 0
  /\ uDeadline = 0 /\ uDispatched = 0 /\ uCall = 0 /\ uResult = 0 /\ uVerified = 0
  /\ uJournal = 0 /\ uProjection = 0 /\ uPublished = 0 /\ uReceipt = 0 /\ uFrame = 0
  /\ uNext = 0 /\ uHigh = 0 /\ uDoing = 0 /\ uStep = 0 /\ uTodo = 0 /\ uSeen = 0
  /\ uStatus = 0 /\ uCandidate = 0 /\ uUpsets = 0

(* Only the queue and the catalog, whose properties hold of every part,    *)
(* have their own initial state when they do not move.                     *)
PartsInit ==
  /\ part \in {"queue", "catalog", "learner", "monitoring", "archive", "playback",
             "release", "datasets", "recording", "journal", "manual"}
  /\ Init /\ Catalog!Init
  /\ IF part = "learner" THEN Learner!Init ELSE LearnerIdle
  /\ IF part = "monitoring" THEN Monitoring!Init ELSE MonitoringIdle
  /\ IF part = "archive" THEN Archive!Init ELSE ArchiveIdle
  /\ IF part = "playback" THEN Playback!Init ELSE PlaybackIdle
  /\ IF part = "release" THEN Release!Init ELSE ReleaseIdle
  /\ IF part = "datasets" THEN Datasets!Init ELSE DatasetsIdle
  /\ IF part = "recording" THEN Recording!Init ELSE RecordingIdle
  /\ IF part = "journal" THEN Journal!Init ELSE JournalIdle
  /\ IF part = "manual" THEN Manual!Init ELSE ManualIdle

QueueMoves ==
  /\ part = "queue" /\ Next
  /\ UNCHANGED <<part, catalog, supervision, monitoring, archive, playback, release,
                 datasets, recording, journaling, manual>>

CatalogMoves ==
  /\ part = "catalog" /\ Catalog!Next
  /\ UNCHANGED <<part, vars, supervision, monitoring, archive, playback, release,
                 datasets, recording, journaling, manual>>

LearnerMoves ==
  /\ part = "learner" /\ Learner!Next
  /\ UNCHANGED <<part, vars, catalog, monitoring, archive, playback, release,
                 datasets, recording, journaling, manual>>

MonitoringMoves ==
  /\ part = "monitoring" /\ Monitoring!Next
  /\ UNCHANGED <<part, vars, catalog, supervision, archive, playback, release,
                 datasets, recording, journaling, manual>>

ArchiveMoves ==
  /\ part = "archive" /\ Archive!Next
  /\ UNCHANGED <<part, vars, catalog, supervision, monitoring, playback, release,
                 datasets, recording, journaling, manual>>

PlaybackMoves ==
  /\ part = "playback" /\ Playback!Next
  /\ UNCHANGED <<part, vars, catalog, supervision, monitoring, archive, release,
                 datasets, recording, journaling, manual>>

ReleaseMoves ==
  /\ part = "release" /\ Release!Next
  /\ UNCHANGED <<part, vars, catalog, supervision, monitoring, archive, playback,
                 datasets, recording, journaling, manual>>

DatasetsMoves ==
  /\ part = "datasets" /\ Datasets!Next
  /\ UNCHANGED <<part, vars, catalog, supervision, monitoring, archive, playback,
                 release, recording, journaling, manual>>

RecordingMoves ==
  /\ part = "recording" /\ Recording!Next
  /\ UNCHANGED <<part, vars, catalog, supervision, monitoring, archive, playback,
                 release, datasets, journaling, manual>>

JournalMoves ==
  /\ part = "journal" /\ Journal!Next
  /\ UNCHANGED <<part, vars, catalog, supervision, monitoring, archive, playback,
                 release, datasets, recording, manual>>

ManualMoves ==
  /\ part = "manual" /\ Manual!Next
  /\ UNCHANGED <<part, vars, catalog, supervision, monitoring, archive, playback,
                 release, datasets, recording, journaling>>

PartsNext ==
  \/ QueueMoves \/ CatalogMoves \/ LearnerMoves
  \/ MonitoringMoves \/ ArchiveMoves \/ PlaybackMoves \/ ReleaseMoves
  \/ DatasetsMoves \/ RecordingMoves \/ JournalMoves \/ ManualMoves

allVars == <<part, vars, catalog, supervision, monitoring, archive, playback, release,
             datasets, recording, journaling, manual>>

PartsSpec == PartsInit /\ [][PartsNext]_allVars
-----------------------------------------------------------------------------
(* The type invariants of the components beside the queue.                 *)
PartsTypeOK ==
  /\ part = "catalog" => Catalog!TypeOK
  /\ part = "learner" => Learner!TypeOK
  /\ part = "monitoring" => Monitoring!TypeOK
  /\ part = "archive" => Archive!TypeOK
  /\ part = "playback" => Playback!TypeOK
  /\ part = "release" => Release!TypeOK
  /\ part = "datasets" => Datasets!TypeOK
  /\ part = "recording" => Recording!TypeOK
  /\ part = "journal" => Journal!TypeOK
  /\ part = "manual" => Manual!TypeOK

(* GoalCatalog: the catalog that is published implements a set of facts    *)
(* that only grows, whichever projections race.                            *)
CatalogOnlyGrows == Catalog!CatalogOnlyGrows

(* GoalCatalog: a fact that is not yet in the catalog is in somebody's     *)
(* hands.                                                                  *)
FactsHaveAnOwner == part = "catalog" => Catalog!FactsHaveAnOwner

(* LearnerSupervision: no verdict but a failure is recorded while the      *)
(* learner lives.                                                          *)
VerdictAfterLearner == [][part = "learner" => Learner!RecordsOfTheGone]_allVars

(* CheckpointMonitoring: the workers stay within the CPUs of the task, and *)
(* no Checkpoint is evaluated by two executions at a time.                 *)
WorkersAreBounded == part = "monitoring" => Monitoring!WorkersAreBounded

(* CheckpointMonitoring: a verified or complete row has its result and     *)
(* every episode stored, whatever died.                                    *)
VerdictsAreDurable == part = "monitoring" => Monitoring!VerdictsAreDurable

(* StateArchive: what latest.json names can be restored.                   *)
LatestIsRestorable == part = "archive" => Archive!LatestIsRestorable

(* PlaybackHost: an answered read is about the session it was asked of.    *)
ReadsSeeOneSession == part = "playback" => Playback!ReadsSeeOneSession

(* PlaybackHost: no runner stays open but the session's.                   *)
NoRunnerIsLeft == part = "playback" => Playback!NoRunnerIsLeft

(* ReleasePublication: a request makes one video and one commit at most.   *)
PublishedOnce == part = "release" => Release!PublishedOnce

(* ReleasePublication: what is public is complete, and was checked first.  *)
PublicIsComplete == part = "release" => Release!PublicIsComplete

(* DatasetStore: a recorded episode is never lost, whoever dies or fails.  *)
EpisodesAreKept == part = "datasets" => Datasets!EpisodesAreKept

(* DatasetStore: an open collection is the current one, with what was      *)
(* reported as committed.                                                  *)
ReadersSeeCommits == part = "datasets" => Datasets!ReadersSeeCommits

(* EpisodeRecording: a finished download is the exact prefix it reserved.  *)
DownloadsAreExact == part = "recording" => Recording!DownloadsAreExact

(* MetricJournal: after recovery the ledger holds every event ever sealed. *)
NothingSealedIsLost == part = "journal" => Journal!NothingSealedIsLost

(* MetricJournal: a complete drain leaves nothing behind, and MLflow       *)
(* nothing out.                                                            *)
DrainIsComplete == part = "journal" => Journal!DrainIsComplete

(* MetricJournal: until a sequence is spent for nothing, the journal can   *)
(* be read at any time.                                                    *)
ReadableUnlessNumbersAreSpent ==
  part = "journal" => Journal!ReadableUnlessNumbersAreSpent

(* ManualEvaluation: a job that succeeded kept its word for every          *)
(* Checkpoint of its batch.                                                *)
SuccessIsBacked == part = "manual" => Manual!SuccessIsBacked

(* ManualEvaluation: nothing is projected before the receipt of training,  *)
(* and beside a later Attempt that holds the lease only by an advance      *)
(* whose own lease has run out.                                            *)
ProjectionAwaitsTraining == part = "manual" => Manual!ProjectionAwaitsTraining
===============================================================================

--------------------------------- MODULE Parts ---------------------------------
(***************************************************************************)
(* The local queue, and beside it the components whose properties          *)
(* PartsProofs proves: JobQueue is the module this one extends, the others *)
(* are its instances.  They share no state; Components lets them move.     *)
(***************************************************************************)
EXTENDS JobQueue

CONSTANTS
  \* CheckpointMonitoring
  Monitored, Episodes, Active, Cpus, MonitoringFaults,
  \* StateArchive
  Entries, ArchiveAttempts, MaxClosures,
  \* PlaybackHost
  Importers, PlaybackReaders, MaxRunners, MaxCommands, PlaybackFaults,
  \* ReleasePublication
  Chunks, OperatorCalls, ReleaseFaults,
  \* EpisodeRecording
  Downloads, RecordingReaders, Buffer, MaxSteps, RecordingFaults,
  \* ManualEvaluation
  Requests, RequestBatch, WorkerVerdicts, EvaluationAttempts, MaxUpsets

VARIABLES
  mState, mCommitted, mResult, mPublished, mRows, mTurn, mPhase, mProc, mDoing,
  mClaimed, mLocal, mFaults,
  aLocal, aView, aClosure, aLearner, aSealed, aObjects, aGenerations, aLatest,
  aOwner, aPc, aStage, aPublished, aPrior, aDoomed, aLate, aOverrun,
  pGeneration, pEpoch, pPhase, pStopped, pActive, pOpen, pBuilt, pShown, pLoader,
  pImporter, pReader, pCommands, pFaults,
  rJob, rCancel, rSnapshot, rSaved, rPc, rMem, rHead, rStarted, rSent, rExpired,
  rProcessed, rFinal, rParent, rMain, rTag, rPlaces, rOp, rCalls, rFaults,
  eStep, eEngine, eEnabled, eRows, eWritten, eError, eCaptureError, eClosed,
  eRetired, ePins, eWriter, eBin, eIdx, eRemoved, eAt, eCutoff, eHeld, eCopyBin,
  eCopyIdx, eLinked, eFaults,
  uJob, uCancel, uTraining, uRetries, uLease, uTrained, uPromotion, uDeadline,
  uDispatched, uCall, uResult, uVerified, uJournal, uProjection, uPublished, uReceipt,
  uFrame, uNext, uHigh, uDoing, uStep, uTodo, uSeen, uStatus, uCandidate, uUpsets

monitoring == <<mState, mCommitted, mResult, mPublished, mRows, mTurn, mPhase, mProc,
  mDoing, mClaimed, mLocal, mFaults>>
archive == <<aLocal, aView, aClosure, aLearner, aSealed, aObjects, aGenerations,
  aLatest, aOwner, aPc, aStage, aPublished, aPrior, aDoomed, aLate, aOverrun>>
playback == <<pGeneration, pEpoch, pPhase, pStopped, pActive, pOpen, pBuilt, pShown,
  pLoader, pImporter, pReader, pCommands, pFaults>>
release == <<rJob, rCancel, rSnapshot, rSaved, rPc, rMem, rHead, rStarted, rSent,
  rExpired, rProcessed, rFinal, rParent, rMain, rTag, rPlaces, rOp, rCalls, rFaults>>
recording == <<eStep, eEngine, eEnabled, eRows, eWritten, eError, eCaptureError, eClosed,
  eRetired, ePins, eWriter, eBin, eIdx, eRemoved, eAt, eCutoff, eHeld, eCopyBin,
  eCopyIdx, eLinked, eFaults>>
manual == <<uJob, uCancel, uTraining, uRetries, uLease, uTrained, uPromotion,
  uDeadline, uDispatched, uCall, uResult, uVerified, uJournal, uProjection, uPublished,
  uReceipt, uFrame, uNext, uHigh, uDoing, uStep, uTodo, uSeen, uStatus, uCandidate, uUpsets>>

Monitoring == INSTANCE CheckpointMonitoring WITH
  Checkpoints <- Monitored, MaxFaults <- MonitoringFaults,
  Nothing <- None, state <- mState, committed <- mCommitted, result <- mResult,
  published <- mPublished, rows <- mRows, turn <- mTurn, phase <- mPhase,
  proc <- mProc, doing <- mDoing, claimed <- mClaimed, local <- mLocal,
  faults <- mFaults

Archive == INSTANCE StateArchive WITH
  MaxAttempts <- ArchiveAttempts, MaxSteps <- MaxClosures, Nothing <- None, local <- aLocal,
  view <- aView, closure <- aClosure, learner <- aLearner, sealed <- aSealed,
  objects <- aObjects, generations <- aGenerations, latest <- aLatest,
  owner <- aOwner, pc <- aPc, stage <- aStage, published <- aPublished,
  prior <- aPrior, doomed <- aDoomed, late <- aLate, overrun <- aOverrun

Playback == INSTANCE PlaybackHost WITH
  Readers <- PlaybackReaders, MaxFaults <- PlaybackFaults, generation <- pGeneration, epoch <- pEpoch, phase <- pPhase,
  stopped <- pStopped, active <- pActive, open <- pOpen, built <- pBuilt,
  shown <- pShown, loader <- pLoader, importer <- pImporter, reader <- pReader,
  commands <- pCommands, faults <- pFaults

Release == INSTANCE ReleasePublication WITH
  MaxCalls <- OperatorCalls, MaxFaults <- ReleaseFaults, Nothing <- None, job <- rJob,
  cancel <- rCancel, snapshot <- rSnapshot, saved <- rSaved, pc <- rPc, mem <- rMem,
  head <- rHead, started <- rStarted, sent <- rSent, expired <- rExpired,
  processed <- rProcessed, final <- rFinal, parent <- rParent, main <- rMain,
  tag <- rTag, places <- rPlaces, op <- rOp, calls <- rCalls, faults <- rFaults

Recording == INSTANCE EpisodeRecording WITH
  Readers <- RecordingReaders, MaxFaults <- RecordingFaults,
  step <- eStep, engine <- eEngine, enabled <- eEnabled, rows <- eRows,
  written <- eWritten, error <- eError, captureError <- eCaptureError,
  closed <- eClosed, retired <- eRetired, pins <- ePins, writer <- eWriter,
  bin <- eBin, idx <- eIdx, removed <- eRemoved, at <- eAt, cutoff <- eCutoff,
  held <- eHeld, copyBin <- eCopyBin, copyIdx <- eCopyIdx, linked <- eLinked,
  faults <- eFaults

Manual == INSTANCE ManualEvaluation WITH
  Jobs <- Requests, Batch <- RequestBatch, Verdicts <- WorkerVerdicts,
  MaxAttempts <- EvaluationAttempts, job <- uJob, cancel <- uCancel,
  training <- uTraining, retries <- uRetries, lease <- uLease, trained <- uTrained,
  promotion <- uPromotion, deadline <- uDeadline, dispatched <- uDispatched,
  call <- uCall, result <- uResult,
  verified <- uVerified, journal <- uJournal, projection <- uProjection,
  published <- uPublished, receipt <- uReceipt, frame <- uFrame, next <- uNext,
  high <- uHigh, doing <- uDoing, step <- uStep, todo <- uTodo, seen <- uSeen,
  status <- uStatus, candidate <- uCandidate, upsets <- uUpsets
===============================================================================

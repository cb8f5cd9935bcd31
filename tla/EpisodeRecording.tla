-------------------------- MODULE EpisodeRecording --------------------------
(***************************************************************************)
(* One recorded episode of a playback session (play_trajectory.py) and the *)
(* engine that fills it (play_engine.py).                                  *)
(*                                                                         *)
(* The engine thread checks the capacity, lets the environment decide, and *)
(* appends the decision to a queue; a writer thread moves the queue to     *)
(* records.bin and then records.idx.  A write may fail and leave a torn    *)
(* tail in either file; a retry cuts it off.  Meanwhile downloads fix a    *)
(* prefix of the recording, partly on disk and partly in the queue, and    *)
(* diagnostic reads pin what is on disk; the directory is removed after    *)
(* the last pin when the episode has been replaced.  (The engine keeps two *)
(* recordings of this kind: downloads come from one, reads from the other.)*)
(*                                                                         *)
(* A decision is the number of its step.  records.bin is a sequence of     *)
(* records, records.idx of their places in it; 0 stands for torn bytes.    *)
(***************************************************************************)
EXTENDS Naturals, Sequences, FiniteSets

CONSTANTS
  Downloads,  \* requests for the episode archive
  Readers,    \* diagnostic reads
  Buffer,     \* records the queue takes before playback pauses
  MaxSteps,   \* bound of the model: decisions of the environment
  MaxFaults   \* bound of the model: failed writes, unencodable records, deaths

RecordingAssumption ==
  /\ Downloads \cap Readers = {} /\ IsFiniteSet(Downloads \cup Readers)
  /\ {Buffer, MaxSteps, MaxFaults} \subseteq Nat

Pinners == Downloads \cup Readers

VARIABLES
  \* The environment and the engine thread.
  step,      \* decisions made in this episode
  engine,    \* "idle", "checked", "stepped", "closing", "closed"
  enabled,   \* recording_enabled
  \* The recording.
  rows,      \* the accepted decisions
  written,   \* how many of them the writer has finished
  error, captureError,
  closed, retired, pins,
  \* The writer thread and the two files.
  writer,    \* "wait", "bin", "idx", "stored", "raised", "exit"
  bin, idx, removed,
  \* Downloads and reads.
  at,        \* where each is
  cutoff,    \* what it reserved
  held,      \* how many of those it takes from the files
  copyBin, copyIdx,  \* the files in its own directory
  linked,    \* its records.bin is still that of the recording
  faults

capture == <<step, engine, enabled>>
queue == <<rows, captureError>>
files == <<bin, idx>>
transfers == <<cutoff, held, copyBin, copyIdx, linked>>
vars == <<capture, queue, written, error, closed, retired, pins, writer, files, removed,
          at, transfers, faults>>

Init ==
  /\ step = 0 /\ engine = "idle" /\ enabled = TRUE
  /\ rows = <<>> /\ written = 0 /\ error = FALSE /\ captureError = FALSE
  /\ closed = FALSE /\ retired = FALSE /\ pins = 0
  /\ writer = "wait" /\ bin = <<>> /\ idx = <<>> /\ removed = FALSE
  /\ at = [p \in Pinners |-> "start"] /\ cutoff = [p \in Pinners |-> 0]
  /\ held = [p \in Pinners |-> 0] /\ copyBin = [p \in Pinners |-> <<>>]
  /\ copyIdx = [p \in Pinners |-> <<>>] /\ linked = [p \in Pinners |-> FALSE]
  /\ faults = 0

Fault == faults < MaxFaults /\ faults' = faults + 1
Pending == Len(rows) - written

-----------------------------------------------------------------------------
(* The engine thread.                                                      *)
Recording == UNCHANGED <<written, closed, retired, pins, writer, removed, at, transfers>>

CheckCapacity ==
  /\ engine = "idle" /\ engine' = "checked"
  /\ step < MaxSteps
  /\ enabled => ~captureError /\ ~error /\ Pending < Buffer
  /\ UNCHANGED <<step, enabled, queue, error, files, faults>> /\ Recording

Decide ==
  /\ engine = "checked" /\ engine' = "stepped"
  /\ step' = step + 1
  /\ UNCHANGED <<enabled, queue, error, files, faults>> /\ Recording

RecordTransition ==
  /\ engine = "stepped" /\ engine' = "idle"
  /\ \/ rows' = (IF enabled THEN Append(rows, step) ELSE rows)
        /\ UNCHANGED <<captureError, faults>>
     \/ enabled /\ Fault /\ captureError' = TRUE /\ UNCHANGED rows
  /\ UNCHANGED <<step, enabled, error, files>> /\ Recording

(* set_recording, off; to turn it on again begins another recording.       *)
StopRecording ==
  /\ engine = "idle" /\ enabled
  /\ enabled' = FALSE
  /\ UNCHANGED <<step, engine, queue, error, files, faults>> /\ Recording

(* Faulty variant: only the data is cut off.                               *)
Retry_Data ==
  /\ engine = "idle" /\ error
  /\ bin' = SubSeq(bin, 1, IF written = 0 THEN 0 ELSE idx[written])
  /\ error' = FALSE
  /\ UNCHANGED <<capture, queue, idx, faults>> /\ Recording

(* Under the lock: a partial append is rolled back in both files.          *)
Retry ==
  /\ engine = "idle" /\ error
  /\ idx' = SubSeq(idx, 1, written)
  /\ bin' = SubSeq(bin, 1, IF written = 0 THEN 0 ELSE idx[written])
  /\ error' = FALSE
  /\ UNCHANGED <<capture, queue, faults>> /\ Recording

(* Another episode begins, or playback is left: the writer is joined.      *)
Close ==
  /\ engine = "idle" /\ engine' = "closing"
  /\ closed' = TRUE
  /\ UNCHANGED <<step, enabled, queue, written, error, retired, pins, writer, files,
                 removed, at, transfers, faults>>

Joined ==
  /\ engine = "closing" /\ engine' = "closed"
  /\ writer = "exit"
  /\ retired' = TRUE
  /\ removed' = (pins = 0)
  /\ UNCHANGED <<step, enabled, queue, written, error, closed, pins, writer, files, at,
                 transfers, faults>>

-----------------------------------------------------------------------------
(* The writer thread: _run and _append.                                    *)
Writing == UNCHANGED <<capture, queue, closed, retired, pins, removed, at, transfers>>

WriterWakes ==
  /\ writer = "wait"
  /\ closed \/ (Pending > 0 /\ ~error)
  /\ writer' = IF closed /\ (Pending = 0 \/ error) THEN "exit" ELSE "bin"
  /\ UNCHANGED <<written, error, files, faults>> /\ Writing

WriteBin ==
  /\ writer = "bin"
  /\ \/ bin' = Append(bin, rows[written + 1]) /\ writer' = "idx" /\ UNCHANGED faults
     \/ Fault /\ bin' \in {bin, Append(bin, 0)} /\ writer' = "raised"
  /\ UNCHANGED <<written, error, idx>> /\ Writing

(* The offset is where the data began.                                     *)
WriteIdx ==
  /\ writer = "idx"
  /\ \/ idx' = Append(idx, Len(bin)) /\ writer' = "stored" /\ UNCHANGED faults
     \/ Fault /\ idx' \in {idx, Append(idx, 0)} /\ writer' = "raised"
  /\ UNCHANGED <<written, error, bin>> /\ Writing

Account ==
  /\ writer \in {"stored", "raised"} /\ writer' = "wait"
  /\ written' = IF writer = "stored" THEN written + 1 ELSE written
  /\ error' = (writer = "raised")
  /\ UNCHANGED <<files, faults>> /\ Writing

-----------------------------------------------------------------------------
(* Pins.  The last one to go takes a retired directory with it.            *)
Others == UNCHANGED <<capture, queue, written, error, closed, retired, writer, files>>

Unpin(p, to) ==
  /\ at' = [at EXCEPT ![p] = to]
  /\ pins' = pins - 1
  /\ removed' = (removed \/ (retired /\ pins = 1))
  /\ UNCHANGED <<cutoff, held, copyBin, copyIdx>>

(* reserve_read and release_read; what is pending is the reader's own.     *)
ReserveRead(p) ==
  /\ at[p] = "start" /\ engine \notin {"closing", "closed"}
  /\ at' = [at EXCEPT ![p] = "reading"]
  /\ cutoff' = [cutoff EXCEPT ![p] = Len(rows)]
  /\ held' = [held EXCEPT ![p] = written]
  /\ pins' = pins + 1
  /\ UNCHANGED <<removed, copyBin, copyIdx, linked, faults>> /\ Others

ReleaseRead(p) ==
  /\ at[p] = "reading" /\ Unpin(p, "done")
  /\ UNCHANGED <<linked, faults>> /\ Others

(* freeze_trajectory: the cutoff, between two decisions.                   *)
ReservePrefix(d) ==
  /\ at[d] = "start" /\ engine = "idle"
  /\ at' = [at EXCEPT ![d] = "waiting"]
  /\ cutoff' = [cutoff EXCEPT ![d] = Len(rows)]
  /\ pins' = pins + 1
  /\ UNCHANGED <<removed, held, copyBin, copyIdx, linked, faults>> /\ Others

(* prefix: until the cutoff is on disk or the writer has failed.           *)
TakePrefix(d) ==
  /\ at[d] = "waiting" /\ (written >= cutoff[d] \/ error)
  /\ cutoff[d] > 0
  /\ at' = [at EXCEPT ![d] = "link"]
  /\ held' = [held EXCEPT ![d] = IF written < cutoff[d] THEN written ELSE cutoff[d]]
  /\ UNCHANGED <<pins, removed, cutoff, copyBin, copyIdx, linked, faults>> /\ Others

(* Still flushing after 25 seconds, nothing recorded, or an exception.     *)
DownloadFails(d) ==
  /\ \/ at[d] = "waiting" /\ written < cutoff[d] /\ ~error /\ UNCHANGED faults
     \/ at[d] = "waiting" /\ cutoff[d] = 0 /\ UNCHANGED faults
     \/ at[d] \in {"link", "index", "data", "tail"} /\ Fault
  /\ Unpin(d, "failed") /\ linked' = [linked EXCEPT ![d] = FALSE]
  /\ Others

Step(d, from, to) == at[d] = from /\ at' = [at EXCEPT ![d] = to]
Downloading == UNCHANGED <<pins, removed, cutoff, held, faults>> /\ Others

(* A hard link: what happens to records.bin happens to it.                 *)
LinkBin(d) ==
  /\ Step(d, "link", "index") /\ ~removed
  /\ linked' = [linked EXCEPT ![d] = TRUE]
  /\ UNCHANGED <<copyBin, copyIdx>> /\ Downloading

CopyIdx(d) ==
  /\ Step(d, "index", IF held[d] < cutoff[d] THEN "data" ELSE "tail")
  /\ ~removed /\ Len(idx) >= held[d]
  /\ copyIdx' = [copyIdx EXCEPT ![d] = SubSeq(idx, 1, held[d])]
  /\ UNCHANGED <<copyBin, linked>> /\ Downloading

(* A copy of its own, to which the pending records are appended.           *)
CopyBin(d) ==
  /\ Step(d, "data", "tail")
  /\ copyBin' = [copyBin EXCEPT ![d] = bin]
  /\ linked' = [linked EXCEPT ![d] = FALSE]
  /\ UNCHANGED copyIdx /\ Downloading

AppendTail(d) ==
  LET n == Len(copyIdx[d]) IN
  /\ at[d] = "tail" /\ n < cutoff[d] /\ UNCHANGED at
  /\ copyBin' = [copyBin EXCEPT ![d] = Append(@, rows[n + 1])]
  /\ copyIdx' = [copyIdx EXCEPT ![d] = Append(@, Len(copyBin[d]) + 1)]
  /\ UNCHANGED linked /\ Downloading

DownloadEnds(d) ==
  /\ at[d] = "tail" /\ Len(copyIdx[d]) = cutoff[d]
  /\ Unpin(d, "done")
  /\ UNCHANGED <<linked, faults>> /\ Others

Next ==
  \/ CheckCapacity \/ Decide \/ RecordTransition \/ StopRecording \/ Retry \/ Close \/ Joined
  \/ WriterWakes \/ WriteBin \/ WriteIdx \/ Account
  \/ \E r \in Readers : ReserveRead(r) \/ ReleaseRead(r)
  \/ \E d \in Downloads :
       \/ ReservePrefix(d) \/ TakePrefix(d) \/ DownloadFails(d) \/ LinkBin(d)
       \/ CopyIdx(d) \/ CopyBin(d) \/ AppendTail(d) \/ DownloadEnds(d)

Spec == Init /\ [][Next]_vars
-----------------------------------------------------------------------------
TypeOK ==
  /\ engine \in {"idle", "checked", "stepped", "closing", "closed"}
  /\ rows \in Seq(1 .. MaxSteps) /\ written \in 0 .. Len(rows)
  /\ {error, captureError, closed, retired, removed, enabled} \subseteq BOOLEAN
  /\ writer \in {"wait", "bin", "idx", "stored", "raised", "exit"}
  /\ bin \in Seq(0 .. MaxSteps) /\ idx \in Seq(0 .. Len(bin))
  /\ pins \in Nat
  /\ \A p \in Pinners :
       /\ at[p] \in {"start", "reading", "waiting", "link", "index", "data", "tail",
                     "failed", "done"}
       /\ cutoff[p] \in 0 .. Len(rows) /\ held[p] \in 0 .. cutoff[p]

Read(data, index) ==
  [i \in DOMAIN index |-> IF index[i] \in DOMAIN data THEN data[index[i]] ELSE 0]

Decisions(n) == [i \in 1 .. n |-> i]

(* A finished download is every decision up to its cutoff, in order, and   *)
(* stays so while the writer fails, is retried, goes on or is replaced; a  *)
(* pinned read finds each record that was on disk when it began.           *)
DownloadsAreExact ==
  /\ \A d \in Downloads : at[d] = "done" =>
       Read(IF linked[d] THEN bin ELSE copyBin[d], copyIdx[d]) = Decisions(cutoff[d])
  /\ \A r \in Readers : at[r] = "reading" =>
       ~removed /\ Read(bin, SubSeq(idx, 1, held[r])) = Decisions(held[r])
=============================================================================

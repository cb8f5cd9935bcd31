-------------------------- MODULE ReleasePublication --------------------------
(***************************************************************************)
(* The publication of one request as a release (publication_jobs.py): a    *)
(* video uploaded to YouTube (youtube_publication.py), a commit and a tag  *)
(* in a model repository, and the containers both are listed in.           *)
(*                                                                         *)
(* The handler is advanced by a worker of the queue, one at a time (see    *)
(* JobQueue), and may die between any request and the save of what it      *)
(* learned in publication_state.json, from which the next advancement goes *)
(* on.  The operator retries, cancels, resolves and cleans up through the  *)
(* player (player_publication.py) at any moment.                           *)
(***************************************************************************)
EXTENDS Naturals, Sequences

CONSTANTS
  Chunks,     \* chunks of the video
  MaxCalls,   \* bound of the model: calls of the operator
  MaxFaults,  \* bound of the model: deaths, failures, lost answers, commits of others
  Nothing

Sessions == 1..(MaxFaults + 1)  \* upload sessions, and the videos they make
Foreign == 0                    \* a video of the channel that is not of this request

(* Commits of somebody else that keep this request in the manifest: one    *)
(* that alters a release file, one that only adds a file, one that writes  *)
(* release files that agree with their manifest.                           *)
Edited == {"altered", "extended", "rewritten"}
Commits == {"init", "other", "ours"} \cup Edited
HasManifest == {"ours"} \cup Edited
Valid == {"ours", "extended", "rewritten"}  \* validate_release_bundle of the release's files
Exact == {"ours", "rewritten"}              \* and there are no other files
Places == <<"collection", "item", "playlist", "entry">>

Phases == {"admitted", "validated", "youtube_session", "youtube_uncertain",
  "youtube_uploaded", "youtube_processing", "youtube_verified", "youtube_complete",
  "release_built", "huggingface_committed", "huggingface_tagged",
  "huggingface_verified", "containers_complete", "succeeded", "canceled"}

(* What publication_state.json holds.                                      *)
States == [phase : Phases, session : Sessions \cup {Nothing},
           video : Sessions \cup {Foreign, Nothing},
           resolved : Sessions \cup {Foreign, Nothing}, commit : Nat \cup {Nothing}]

PublicationAssumption ==
  /\ Chunks \in Nat \ {0} /\ MaxCalls \in Nat /\ MaxFaults \in Nat
  /\ Nothing \notin Nat \cup States

(* Where the snapshot, or the release that was built from it, is read.     *)
ReadsFiles == {"validated", "youtube_session", "youtube_uncertain", "youtube_verified",
  "youtube_complete", "release_built"}

Ended == {"blocked", "succeeded", "failed", "canceled"}

VARIABLES
  \* The queue.
  job, cancel,
  \* Files: the admitted snapshot, and publication_state.json.
  snapshot, saved,
  \* The handler: where it is, its copy of the state, the parent of its commit.
  pc, mem, head,
  \* YouTube.
  started, sent, expired, processed, final,
  \* The repository (its commits, the release's tag) and the containers.
  parent, main, tag, places,
  \* The operator's request that is under way.
  op,
  calls, faults

queue == <<job, cancel>>
files == <<snapshot, saved>>
handler == <<pc, mem, head>>
youtube == <<started, sent, expired, processed, final>>
hub == <<parent, main, tag, places>>
bounds == <<calls, faults>>
vars == <<queue, files, handler, youtube, hub, op, bounds>>

Fresh == [phase |-> "admitted", session |-> Nothing, video |-> Nothing,
          resolved |-> Nothing, commit |-> Nothing]

Init ==
  /\ job = "queued" /\ cancel = FALSE
  /\ snapshot = TRUE /\ saved = Nothing
  /\ pc = "off" /\ mem = Fresh /\ head = 0
  /\ started = 0 /\ sent = [s \in Sessions |-> 0] /\ expired = {}
  /\ processed = {} /\ final = {}
  /\ main \in {<<>>, <<"other">>} /\ parent = Len(main) /\ tag = Nothing /\ places = {}
  /\ op = [kind |-> "none"]
  /\ calls = 0 /\ faults = 0

Video(s) == sent[s] = Chunks
Last == IF main = <<>> THEN "none" ELSE main[Len(main)]

-----------------------------------------------------------------------------
(* How the handler goes on.                                                *)
Fault == faults < MaxFaults /\ faults' = faults + 1

Learn(new, step) ==
  /\ mem' = new /\ pc' = step
  /\ UNCHANGED <<queue, files, head, calls>>

(* The state is saved in the step that learns something, unless a remote   *)
(* effect lies between.                                                    *)
Keep(new, step) ==
  /\ mem' = new /\ saved' = new /\ pc' = step
  /\ UNCHANGED <<queue, snapshot, head, op, bounds>>

Off == pc' = "off" /\ mem' = Fresh /\ head' = 0

Stop(new, result) == saved' = new /\ job' = result /\ Off /\ UNCHANGED <<cancel, snapshot>>

Canceled == Stop([mem EXCEPT !.phase = "canceled"], "canceled") /\ UNCHANGED <<op, bounds>>

Refuse == Stop(mem, "blocked") /\ UNCHANGED <<op, bounds>>

At(step, phases) == pc = step /\ mem.phase \in phases
Enter(phase) == [mem EXCEPT !.phase = phase]

(* _retry and _block: of a request that failed, or whose answer was lost.  *)
(* (An exception advance does not name ends the job as "failed": as        *)
(* "blocked", but resolve_youtube refuses it.)                             *)
Fails ==
  /\ Fault
  /\ \E result \in {"retry_wait", "blocked"} : Stop(mem, result)
  /\ UNCHANGED <<op, calls>>

(* A request that takes effect.  Its answer arrives, or is lost.           *)
Effect(new) ==
  \/ Learn(new, "save") /\ UNCHANGED <<op, faults>>
  \/ Fails

RequestFails ==
  /\ pc \in {"go", "upload"} /\ mem.phase \notin {"succeeded", "canceled"}
  /\ Fails
  /\ UNCHANGED <<youtube, hub>>

Died ==
  /\ pc # "off" /\ Fault /\ Off
  /\ UNCHANGED <<queue, files, youtube, hub, op, calls>>

(* The next worker finds the job running and queues it again.              *)
Recover ==
  /\ job = "running" /\ pc = "off"
  /\ job' = "queued"
  /\ UNCHANGED <<cancel, files, handler, youtube, hub, op, bounds>>

(* The operator has removed the files an advancement works with.           *)
FilesAreGone ==
  /\ At("go", ReadsFiles) /\ ~snapshot /\ Stop(mem, "retry_wait")
  /\ UNCHANGED <<youtube, hub, op, bounds>>

-----------------------------------------------------------------------------
(* advance.                                                                *)
Claim ==
  /\ job \in {"queued", "retry_wait"} /\ pc = "off"
  /\ LET state == IF saved = Nothing THEN Fresh ELSE saved IN
     \/ /\ ~snapshot
        /\ job' = "failed" /\ UNCHANGED <<cancel, files, handler>>
     \/ /\ snapshot /\ cancel
        /\ Stop([state EXCEPT !.phase = "canceled"], "canceled")
     \/ /\ snapshot /\ ~cancel
        /\ job' = "running" /\ mem' = state
        /\ pc' = CASE state.phase = "admitted" -> "save"
                   [] state.phase \in {"validated", "release_built"} -> "check"
                   [] OTHER -> "go"
        /\ UNCHANGED <<cancel, files, head>>
  /\ UNCHANGED <<youtube, hub, op, bounds>>

Save ==
  /\ pc = "save"
  /\ LET new == IF mem.phase = "admitted" THEN Enter("validated") ELSE mem IN
     Keep(new, "check")
  /\ UNCHANGED <<youtube, hub>>

(* _checkpoint.                                                            *)
Checkpoint ==
  /\ pc = "check"
  /\ IF cancel THEN Canceled ELSE pc' = "go" /\ UNCHANGED <<mem, head, queue, files, op, bounds>>
  /\ UNCHANGED <<youtube, hub>>

(* A canceled job that is retried: "unsupported publication phase".        *)
Unsupported ==
  /\ At("go", {"canceled"})
  /\ job' = "failed" /\ Off
  /\ UNCHANGED <<cancel, files, youtube, hub, op, bounds>>

-----------------------------------------------------------------------------
(* _advance_youtube.                                                       *)
StartUpload ==
  /\ At("go", {"validated"}) /\ snapshot
  /\ started' = started + 1
  /\ Effect([mem EXCEPT !.phase = "youtube_session", !.session = started + 1])
  /\ UNCHANGED <<sent, expired, processed, final, hub>>

Resolved == mem.phase = "youtube_uncertain" /\ mem.resolved # Nothing

UseResolved ==
  /\ pc = "go" /\ Resolved
  /\ Keep([mem EXCEPT !.phase = "youtube_uploaded", !.video = mem.resolved], "go")
  /\ UNCHANGED <<youtube, hub>>

InSession == At("go", {"youtube_session", "youtube_uncertain"}) /\ ~Resolved

(* Faulty variant: the upload is begun again when its session is gone.     *)
Query_Restarts ==
  /\ InSession
  /\ \/ mem.session \in expired /\ Keep(Enter("validated"), "check")
     \/ /\ mem.session \notin expired
        /\ IF Video(mem.session)
           THEN Keep([mem EXCEPT !.phase = "youtube_uploaded", !.video = mem.session], "go")
           ELSE Learn(mem, "upload") /\ UNCHANGED <<op, faults>>
  /\ UNCHANGED <<youtube, hub>>

(* query_resumable: expired, completed, or the offset to go on from.       *)
Query ==
  /\ InSession
  /\ \/ mem.session \in expired /\ Refuse
     \/ /\ mem.session \notin expired
        /\ IF Video(mem.session)
           THEN Keep([mem EXCEPT !.phase = "youtube_uploaded", !.video = mem.session], "go")
           ELSE snapshot /\ Learn(mem, "upload") /\ UNCHANGED <<op, faults>>
  /\ UNCHANGED <<youtube, hub>>

Uncertain == Stop(Enter("youtube_uncertain"), "blocked") /\ UNCHANGED <<op, calls>>

(* upload_chunks: nobody knows what became of a final chunk that got no    *)
(* answer, or a server error.                                              *)
SendChunk ==
  /\ pc = "upload"
  /\ LET s == mem.session  last == sent[s] + 1 = Chunks IN
     IF s \in expired
     THEN Refuse /\ UNCHANGED youtube
     ELSE /\ \/ /\ sent' = [sent EXCEPT ![s] = @ + 1]
                /\ \/ Learn(mem, "sent") /\ UNCHANGED <<op, faults>>
                   \/ ~last /\ Fails
                   \/ last /\ Fault /\ Uncertain
             \/ last /\ Fault /\ Uncertain /\ UNCHANGED sent
          /\ UNCHANGED <<started, expired, processed, final>>
  /\ UNCHANGED hub

(* progress, and the answer of the final chunk.                            *)
ChunkSent ==
  /\ pc = "sent"
  /\ \/ cancel /\ Canceled
     \/ /\ ~cancel
        /\ IF Video(mem.session)
           THEN Keep([mem EXCEPT !.phase = "youtube_uploaded", !.video = mem.session], "go")
           ELSE Keep(mem, "upload")
  /\ UNCHANGED <<youtube, hub>>

(* The video must be processed, in a day, and still be unlisted and carry  *)
(* the request's marker.                                                   *)
ReadVideo ==
  /\ At("go", {"youtube_uploaded", "youtube_processing"})
  /\ \/ /\ mem.video \in processed \ final
        /\ Keep(Enter("youtube_verified"), "check")
     \/ /\ mem.video \notin processed
        /\ \/ Stop(Enter("youtube_processing"), "retry_wait") /\ UNCHANGED <<op, bounds>>
           \/ Refuse
     \/ mem.video \in final \cup {Foreign} /\ Refuse
  /\ UNCHANGED <<youtube, hub>>

Thumbnail ==
  /\ At("go", {"youtube_verified"}) /\ snapshot
  /\ Keep(Enter("youtube_complete"), "check")
  /\ UNCHANGED <<youtube, hub>>

BuildRelease ==
  /\ At("go", {"youtube_complete"}) /\ snapshot
  /\ Keep(Enter("release_built"), "check")
  /\ UNCHANGED <<youtube, hub>>

-----------------------------------------------------------------------------
(* _advance_huggingface.                                                   *)
AtRelease == At("go", {"release_built"})
Committed == [mem EXCEPT !.phase = "huggingface_committed", !.commit = Len(main)]

GoCommit(commit) ==
  /\ head' = commit /\ pc' = "commit"
  /\ UNCHANGED <<mem, queue, files, op, bounds>>

(* An answer of create_repo that is lost is made up for by a read.         *)
CreateRepo ==
  /\ AtRelease /\ main = <<>>
  /\ main' = <<"init">> /\ GoCommit(1)
  /\ UNCHANGED <<youtube, parent, tag, places>>

(* main is what it was at admission, or holds this request's manifest, or  *)
(* was created by an earlier advancement.  A manifest that cannot be read  *)
(* is taken for one that is not there.                                     *)
ReadMain ==
  /\ AtRelease /\ main # <<>>
  /\ \/ Len(main) = parent /\ GoCommit(parent)
     \/ Len(main) # parent /\ Last \in HasManifest /\ Keep(Committed, "go")
     \/ Len(main) # parent /\ Last = "init" /\ GoCommit(Len(main))
     \/ Len(main) # parent /\ Last = "other" /\ Refuse
     \/ /\ Len(main) # parent /\ Last \in HasManifest
        /\ Fault /\ Stop(mem, "blocked") /\ UNCHANGED <<op, calls>>
  /\ UNCHANGED <<youtube, hub>>

(* The commit is refused when main has moved.                              *)
CreateCommit ==
  /\ pc = "commit"
  /\ \/ /\ Len(main) = head
        /\ main' = Append(main, "ours")
        /\ \/ Learn([Committed EXCEPT !.commit = Len(main) + 1], "save")
              /\ UNCHANGED <<op, faults>>
           \/ Learn(mem, "ask") /\ Fault /\ UNCHANGED op
     \/ UNCHANGED main /\ Len(main) = head /\ Learn(mem, "ask") /\ Fault /\ UNCHANGED op
     \/ UNCHANGED main /\ Len(main) # head /\ Learn(mem, "ask") /\ UNCHANGED <<op, faults>>
  /\ UNCHANGED <<youtube, parent, tag, places>>

(* create_commit raised: main may hold the commit all the same.            *)
AskMain ==
  /\ pc = "ask"
  /\ \/ Last \in HasManifest /\ Learn(Committed, "save") /\ UNCHANGED <<op, faults>>
     \/ Last \notin HasManifest /\ UNCHANGED <<op, bounds>>
        /\ \E result \in {"retry_wait", "blocked"} : Stop(mem, result)
     \/ Last \in HasManifest /\ Fails
  /\ UNCHANGED <<youtube, hub>>

CreateTag ==
  /\ At("go", {"huggingface_committed"})
  /\ \/ tag = Nothing /\ tag' = mem.commit /\ Effect(Enter("huggingface_tagged"))
     \/ tag = mem.commit /\ Keep(Enter("huggingface_tagged"), "check") /\ UNCHANGED tag
     \/ tag \notin {Nothing, mem.commit} /\ Refuse /\ UNCHANGED tag
  /\ UNCHANGED <<youtube, parent, main, places>>

(* The files of a release are downloaded at the tag and validated; what    *)
(* else there is at the tag is not asked.                                  *)
VerifyTag ==
  /\ At("go", {"huggingface_tagged"})
  /\ IF main[tag] \in Valid THEN Keep(Enter("huggingface_verified"), "check") ELSE Refuse
  /\ UNCHANGED <<youtube, hub>>

-----------------------------------------------------------------------------
(* _advance_containers and _audit.                                         *)
AtContainers == At("go", {"huggingface_verified"})
Listed(n) == \A i \in 1..n : Places[i] \in places

(* Each is looked up before it is created.                                 *)
AddPlace(i) ==
  /\ AtContainers /\ Listed(i - 1) /\ Places[i] \notin places
  /\ places' = places \cup {Places[i]}
  /\ (UNCHANGED <<queue, files, handler, op, bounds>>) \/ Fails
  /\ UNCHANGED <<youtube, parent, main, tag>>

(* Faulty variant: the final privacy is set first.                         *)
UpdateVideo_First ==
  /\ AtContainers
  /\ final' = final \cup {mem.video}
  /\ (UNCHANGED <<queue, files, handler, op, bounds>>) \/ Effect(Enter("containers_complete"))
  /\ UNCHANGED <<started, sent, expired, processed, hub>>

(* The final description and privacy.                                      *)
UpdateVideo ==
  /\ AtContainers /\ Listed(Len(Places))
  /\ final' = final \cup {mem.video}
  /\ Effect(Enter("containers_complete"))
  /\ UNCHANGED <<started, sent, expired, processed, hub>>

(* The video, the tag, and all files at the tag.                           *)
Audit ==
  /\ At("go", {"containers_complete"})
  /\ IF mem.video \in processed \cap final /\ tag = mem.commit /\ main[tag] \in Exact
     THEN Keep(Enter("succeeded"), "go") ELSE Refuse
  /\ UNCHANGED <<youtube, hub>>

Succeed ==
  /\ At("go", {"succeeded"})
  /\ job' = "succeeded" /\ Off
  /\ UNCHANGED <<cancel, files, youtube, hub, op, bounds>>

-----------------------------------------------------------------------------
(* The operator.  resolve_youtube and cleanup look first and act then.     *)
Called == calls < MaxCalls /\ calls' = calls + 1
Outside == UNCHANGED <<handler, youtube, hub, faults>>

Again ==
  /\ job \in Ended \ {"succeeded"}
  /\ job' = "queued" /\ cancel' = FALSE

Retry == Called /\ Again /\ Outside /\ UNCHANGED <<files, op>>

RequestCancel ==
  /\ Called /\ job \notin Ended
  /\ cancel' = TRUE
  /\ job' = IF job \in {"queued", "retry_wait"} THEN "canceled" ELSE job
  /\ Outside /\ UNCHANGED <<files, op>>

ResolveReads ==
  /\ Called /\ op.kind = "none"
  /\ job = "blocked" /\ saved # Nothing
  /\ saved.phase = "youtube_uncertain"
  /\ \E v \in {s \in Sessions : Video(s)} \cup {Foreign} :
       op' = [kind |-> "resolve", state |-> [saved EXCEPT !.resolved = v]]
  /\ Outside /\ UNCHANGED <<queue, files>>

ResolveWrites ==
  /\ op.kind = "resolve"
  /\ saved' = op.state /\ op' = [kind |-> "resolved"]
  /\ Outside /\ UNCHANGED <<queue, snapshot, calls>>

ResolveRetries ==
  /\ op.kind = "resolved" /\ op' = [kind |-> "none"]
  /\ Again \/ (job \notin Ended \ {"succeeded"} /\ UNCHANGED queue)
  /\ Outside /\ UNCHANGED <<files, calls>>

CleanupReads ==
  /\ Called /\ op.kind = "none" /\ job \in Ended
  /\ op' = [kind |-> "request"]
  /\ Outside /\ UNCHANGED <<queue, files>>

RemoveRequest ==
  /\ op.kind = "request" /\ op' = [kind |-> "work"] /\ snapshot' = FALSE
  /\ Outside /\ UNCHANGED <<queue, saved, calls>>

RemoveWork ==
  /\ op.kind = "work" /\ op' = [kind |-> "none"] /\ saved' = Nothing
  /\ Outside /\ UNCHANGED <<queue, snapshot, calls>>

-----------------------------------------------------------------------------
(* Outside the program.                                                    *)
Program == <<queue, files, handler, op, calls>>

ExpireSession(s) ==
  /\ Fault /\ s <= started /\ s \notin expired /\ expired' = expired \cup {s}
  /\ UNCHANGED <<Program, started, sent, processed, final, hub>>

ProcessVideo(s) ==
  /\ Video(s) /\ processed' = processed \cup {s}
  /\ UNCHANGED <<Program, started, sent, expired, final, hub, faults>>

CommitOfOthers ==
  /\ Fault
  /\ \E kind \in {"other"} \cup (IF Last \in HasManifest THEN Edited ELSE {}) :
       main' = Append(main, kind)
  /\ UNCHANGED <<Program, youtube, parent, tag, places>>
-----------------------------------------------------------------------------
Next ==
  \/ Claim \/ Save \/ Checkpoint \/ Unsupported \/ RequestFails \/ FilesAreGone
  \/ Died \/ Recover
  \/ StartUpload \/ UseResolved \/ Query \/ SendChunk \/ ChunkSent \/ ReadVideo
  \/ Thumbnail \/ BuildRelease
  \/ CreateRepo \/ ReadMain \/ CreateCommit \/ AskMain \/ CreateTag \/ VerifyTag
  \/ (\E i \in 1..Len(Places) : AddPlace(i)) \/ UpdateVideo \/ Audit \/ Succeed
  \/ Retry \/ RequestCancel \/ ResolveReads \/ ResolveWrites \/ ResolveRetries
  \/ CleanupReads \/ RemoveRequest \/ RemoveWork
  \/ (\E s \in Sessions : ExpireSession(s) \/ ProcessVideo(s)) \/ CommitOfOthers

Spec == Init /\ [][Next]_vars
-----------------------------------------------------------------------------
(* Every variable keeps its kind of value.                                 *)
TypeOK ==
  /\ job \in Ended \cup {"queued", "running", "retry_wait"} /\ cancel \in BOOLEAN
  /\ snapshot \in BOOLEAN /\ saved \in States \cup {Nothing}
  /\ pc \in {"off", "save", "check", "go", "upload", "sent", "commit", "ask"}
  /\ mem \in States /\ head \in 0..Len(main)
  /\ started \in 0..(MaxFaults + 1) /\ sent \in [Sessions -> 0..Chunks]
  /\ expired \subseteq Sessions /\ processed \subseteq Sessions /\ final \subseteq Sessions
  /\ \A i \in 1..Len(main) : main[i] \in Commits
  /\ tag \in Nat \cup {Nothing} /\ places \subseteq {Places[i] : i \in 1..Len(Places)}
  /\ op.kind \in {"none", "resolve", "resolved", "request", "work"}
  /\ calls \in 0..MaxCalls /\ faults \in 0..MaxFaults

(* "Do not upload a duplicate to resolve an uncertain YouTube result"      *)
(* (.codex/skills/gradlab_upload-checkpoint/references/operations.md:71):  *)
(* whatever dies, is lost, retried, resolved, canceled or cleaned up, a    *)
(* request makes one video and one commit at most.                         *)
PublishedOnce ==
  /\ \A r, s \in Sessions : Video(r) /\ Video(s) => r = s
  /\ \A i, j \in 1..Len(main) : main[i] = "ours" /\ main[j] = "ours" => i = j

(* "verifies processing while unlisted before HF mutation, commits the     *)
(* exact bundle and immutable tag, verifies environment containers, and    *)
(* sets final privacy" (operations.md:69): the repository has no commit    *)
(* of a request whose video is not processed; a video is not made public   *)
(* before a valid release is tagged and listed; and a request that         *)
(* succeeded has made its video public, with the exact files at the tag.   *)
(* (A commit of somebody else that only adds a file is found by the audit, *)
(* when the video is public.)                                              *)
PublicIsComplete ==
  /\ (\E i \in 1..Len(main) : main[i] = "ours") => processed # {}
  /\ final # {} => tag # Nothing /\ main[tag] \in Valid /\ Listed(Len(Places))
  /\ job = "succeeded" => final # {} /\ main[tag] \in Exact
=============================================================================

----------------------------- MODULE PlaybackHost -----------------------------
(***************************************************************************)
(* The playback host (play_application.py): one replaceable runner behind  *)
(* the player, and the threads that work on it.                            *)
(*                                                                         *)
(* Commands come one after the other.  A loader thread prepares and        *)
(* activates the source last selected; imports (playback_worker.py runs    *)
(* two) and diagnostic reads are threads of their own.  Work carries the   *)
(* generation it began with and is stale once a command or an import has   *)
(* moved it on; readers name the session by its epoch.  What one hold of   *)
(* the lock does is one step; the state may change between two.  Candidates*)
(* (prepared files) are left out, and the phases "resolving", "verifying"  *)
(* and "loading" are one.                                                  *)
(***************************************************************************)
EXTENDS Naturals, FiniteSets

CONSTANTS
  Importers,    \* threads that import a recording
  Readers,      \* threads that read diagnostics
  MaxRunners,   \* bound of the model: runners that are built
  MaxCommands,  \* bound of the model: commands
  MaxFaults     \* bound of the model: failures of the loader and of runners

PlaybackAssumption ==
  IsFiniteSet(Importers) /\ {MaxRunners, MaxCommands, MaxFaults} \subseteq Nat

Runners == 1..MaxRunners
Epochs == 0..MaxRunners
Phases == {"selecting", "loading", "active", "error"}

VARIABLES
  generation, epoch, phase, stopped,
  active,    \* the runner, 0: none
  open,      \* the runners that were built and not closed
  built,     \* their number
  shown,     \* pairs <<epoch, runner>> that have been the session
  loader,    \* the loader thread
  importer,  \* the import threads
  reader,    \* the reading threads: what they read, and whether it was answered
  commands, faults

session == <<epoch, active, open, built, shown>>
threads == <<loader, importer, reader>>
vars == <<generation, phase, stopped, session, threads, commands, faults>>

NoLoader == [pc |-> "off", gen |-> 0, runner |-> 0, say |-> "loading", then |-> "off"]

Init ==
  /\ generation = 0 /\ epoch = 0 /\ phase = "selecting" /\ stopped = FALSE
  /\ active = 0 /\ open = {} /\ built = 0 /\ shown = {}
  /\ loader = NoLoader
  /\ importer = [i \in Importers |-> [pc |-> "off", gen |-> 0, runner |-> 0]]
  /\ reader = [r \in Readers |-> [pc |-> "off", epoch |-> 0, runner |-> 0]]
  /\ commands = 0 /\ faults = 0

Fault == faults < MaxFaults /\ faults' = faults + 1
Current(gen) == gen = generation /\ ~stopped

(* A new runner is given a new epoch and takes the place of the last one,  *)
(* which is closed.                                                        *)
Replace(runner) ==
  /\ epoch' = epoch + 1
  /\ active' = runner /\ open' = open \ {active}
  /\ shown' = shown \cup {<<epoch + 1, runner>>}
  /\ phase' = "active"

(* runner.start() raises: the epoch is already that of the next session.   *)
NotReplaced ==
  /\ epoch' = epoch + 1
  /\ shown' = shown \cup {<<epoch + 1, r>> : r \in {active} \ {0}}
  /\ UNCHANGED <<active, phase>>

-----------------------------------------------------------------------------
(* Commands.                                                               *)
Command == commands < MaxCommands /\ commands' = commands + 1

(* select_source, retry_source, set_contract_mode: _begin_prepare, refused *)
(* while the last loader is at work, stale or not.                         *)
Select ==
  /\ Command /\ loader.pc = "off"
  /\ generation' = generation + 1 /\ phase' = "loading"
  /\ loader' = [NoLoader EXCEPT !.pc = "prepare", !.gen = generation + 1]
  /\ UNCHANGED <<stopped, session, importer, reader, faults>>

Browse ==
  /\ Command
  /\ generation' = generation + 1 /\ phase' = "selecting"
  /\ active' = 0 /\ open' = open \ {active}
  /\ UNCHANGED <<stopped, epoch, built, shown, threads, faults>>

Cancel ==
  /\ Command
  /\ generation' = generation + 1
  /\ phase' = IF active # 0 THEN "active" ELSE "selecting"
  /\ UNCHANGED <<stopped, session, threads, faults>>

Stop ==
  /\ Command /\ ~stopped
  /\ stopped' = TRUE /\ generation' = generation + 1
  /\ active' = 0 /\ open' = open \ {active}
  /\ UNCHANGED <<phase, epoch, built, shown, threads, faults>>

-----------------------------------------------------------------------------
(* The loader thread.                                                      *)
LoaderAt(step) == loader.pc = step
LoaderGoTo(step) == loader' = [loader EXCEPT !.pc = step]
LoaderSays(what, then) == loader' = [loader EXCEPT !.pc = "say", !.say = what, !.then = then]
LoaderOnly == UNCHANGED <<generation, stopped, importer, reader, commands>>

(* _progress looks at the generation, _set_state changes the phase.        *)
Progress ==
  /\ loader.pc \in {"prepare", "activate"} /\ Current(loader.gen)
  /\ LoaderSays("loading", loader.pc)
  /\ UNCHANGED <<phase, session, faults>> /\ LoaderOnly

SetState ==
  /\ LoaderAt("say")
  /\ phase' = loader.say
  /\ LoaderGoTo(loader.then)
  /\ UNCHANGED <<session, faults>> /\ LoaderOnly

Prepared ==
  /\ LoaderAt("prepare")
  /\ LoaderGoTo(IF Current(loader.gen) THEN "activate" ELSE "off")
  /\ UNCHANGED <<phase, session, faults>> /\ LoaderOnly

PrepareFails ==
  /\ LoaderAt("prepare") /\ Fault
  /\ IF Current(loader.gen)
     THEN \E what \in {"error", "selecting"} : LoaderSays(what, "off")
     ELSE LoaderGoTo("off")
  /\ UNCHANGED <<phase, session>> /\ LoaderOnly

Activated ==
  /\ LoaderAt("activate") /\ built < MaxRunners
  /\ built' = built + 1 /\ open' = open \cup {built + 1}
  /\ loader' = [loader EXCEPT !.pc = "swap", !.runner = built + 1]
  /\ UNCHANGED <<phase, epoch, active, shown, faults>> /\ LoaderOnly

(* Faulty variant: a runner that comes too late is dropped, not closed.    *)
Swap_KeepsStale ==
  /\ LoaderAt("swap")
  /\ IF Current(loader.gen) THEN Replace(loader.runner)
     ELSE UNCHANGED <<open, epoch, active, shown, phase>>
  /\ loader' = NoLoader
  /\ UNCHANGED <<built, faults>> /\ LoaderOnly

Swap ==
  /\ LoaderAt("swap")
  /\ IF Current(loader.gen) THEN Replace(loader.runner)
     ELSE /\ open' = open \ {loader.runner}
          /\ UNCHANGED <<epoch, active, shown, phase>>
  /\ loader' = NoLoader
  /\ UNCHANGED <<built, faults>> /\ LoaderOnly

(* The runner that does not start is left as it is.                        *)
StartFails ==
  /\ LoaderAt("swap") /\ Current(loader.gen) /\ Fault
  /\ NotReplaced
  /\ LoaderGoTo("except")
  /\ UNCHANGED <<open, built>> /\ LoaderOnly

ActivateFails ==
  /\ LoaderAt("activate") /\ Fault
  /\ LoaderGoTo("except")
  /\ UNCHANGED <<phase, session>> /\ LoaderOnly

ActivateExcept ==
  /\ LoaderAt("except")
  /\ IF Current(loader.gen)
     THEN LoaderSays(IF active # 0 THEN "active" ELSE "error", "off")
     ELSE LoaderGoTo("off")
  /\ UNCHANGED <<phase, session, faults>> /\ LoaderOnly

-----------------------------------------------------------------------------
(* import_trajectory.                                                      *)
ImportBegins(i) ==
  /\ importer[i].pc = "off" /\ ~stopped /\ built < MaxRunners
  /\ built' = built + 1 /\ open' = open \cup {built + 1}
  /\ importer' = [importer EXCEPT ![i] = [pc |-> "import", gen |-> generation, runner |-> built + 1]]
  /\ UNCHANGED <<generation, phase, stopped, epoch, active, shown, loader, reader, commands, faults>>

ImportOver(i) == importer' = [importer EXCEPT ![i] = [pc |-> "off", gen |-> 0, runner |-> 0]]

ImportRefused(i) ==
  /\ importer[i].pc = "import" /\ ~Current(importer[i].gen)
  /\ open' = open \ {importer[i].runner} /\ ImportOver(i)
  /\ UNCHANGED <<generation, phase, stopped, epoch, active, built, shown, loader, reader, commands, faults>>

(* Faulty variant: an import goes on with the epoch of the last session.   *)
ImportSwap_SameEpoch(i) ==
  /\ importer[i].pc = "import" /\ Current(importer[i].gen)
  /\ generation' = generation + 1
  /\ active' = importer[i].runner /\ open' = open \ {active} /\ phase' = "active"
  /\ shown' = shown \cup {<<epoch, importer[i].runner>>}
  /\ ImportOver(i)
  /\ UNCHANGED <<epoch, stopped, built, loader, reader, commands, faults>>

ImportSwap(i) ==
  /\ importer[i].pc = "import" /\ Current(importer[i].gen)
  /\ generation' = generation + 1
  /\ Replace(importer[i].runner) /\ ImportOver(i)
  /\ UNCHANGED <<stopped, built, loader, reader, commands, faults>>

ImportStartFails(i) ==
  /\ importer[i].pc = "import" /\ Current(importer[i].gen) /\ Fault
  /\ generation' = generation + 1
  /\ NotReplaced
  /\ open' = open \ {importer[i].runner} /\ ImportOver(i)
  /\ UNCHANGED <<stopped, built, loader, reader, commands>>

-----------------------------------------------------------------------------
(* read_diagnostics and inspect_recorded_step.                             *)
ReadBegins(r) ==
  /\ reader[r].pc # "reading" /\ active # 0 /\ phase = "active"
  /\ reader' = [reader EXCEPT ![r] = [pc |-> "reading", epoch |-> epoch, runner |-> active]]
  /\ UNCHANGED <<generation, phase, stopped, session, loader, importer, commands, faults>>

(* Faulty variant: the epoch is not looked at again.                       *)
ReadEnds_Unchecked(r) ==
  /\ reader[r].pc = "reading"
  /\ reader' = [reader EXCEPT ![r] = [pc |-> "answered", epoch |-> epoch, runner |-> @.runner]]
  /\ UNCHANGED <<generation, phase, stopped, session, loader, importer, commands, faults>>

ReadEnds(r) ==
  /\ reader[r].pc = "reading"
  /\ reader' = [reader EXCEPT ![r].pc =
                  IF epoch = reader[r].epoch /\ phase = "active" THEN "answered" ELSE "off"]
  /\ UNCHANGED <<generation, phase, stopped, session, loader, importer, commands, faults>>

-----------------------------------------------------------------------------
Load ==
  \/ Progress \/ SetState \/ Prepared \/ PrepareFails \/ Activated \/ Swap
  \/ StartFails \/ ActivateFails \/ ActivateExcept

Next ==
  \/ Select \/ Browse \/ Cancel \/ Stop
  \/ Load
  \/ \E i \in Importers : ImportBegins(i) \/ ImportRefused(i) \/ ImportSwap(i) \/ ImportStartFails(i)
  \/ \E r \in Readers : ReadBegins(r) \/ ReadEnds(r)

Spec == Init /\ [][Next]_vars
-----------------------------------------------------------------------------
(* Every variable keeps its kind of value.                                 *)
TypeOK ==
  /\ generation \in Nat /\ epoch \in Epochs /\ phase \in Phases /\ stopped \in BOOLEAN
  /\ active \in {0} \cup Runners /\ open \in SUBSET Runners /\ built \in {0} \cup Runners
  /\ shown \in SUBSET (Epochs \X Runners)
  /\ loader.pc \in {"off", "prepare", "activate", "swap", "except", "say"}
  /\ loader.say \in Phases
  /\ importer \in [Importers -> [pc : {"off", "import"}, gen : Nat, runner : {0} \cup Runners]]
  /\ reader \in [Readers -> [pc : {"off", "reading", "answered"}, epoch : Epochs,
                             runner : {0} \cup Runners]]
  /\ commands \in 0..MaxCommands /\ faults \in 0..MaxFaults

(* An epoch names one session: what a read returns is about the only       *)
(* runner that was ever shown under the epoch it was asked for, whatever   *)
(* was selected, canceled, imported or failed meanwhile.                   *)
ReadsSeeOneSession ==
  \A r \in Readers, s \in shown :
    reader[r].pc = "answered" /\ s[1] = reader[r].epoch => s[2] = reader[r].runner

(* No runner is left running: when the loader and the imports are done,    *)
(* the only open runner is the session's, and after a stop there is none.  *)
(* The exception is a runner that failed to start.                         *)
NoRunnerIsLeft ==
  LET quiet == loader.pc = "off" /\ \A i \in Importers : importer[i].pc = "off" IN
  faults = 0 /\ quiet => open \subseteq {active} \ {0} /\ (stopped => open = {})
=============================================================================

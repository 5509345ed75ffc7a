------------------------------ MODULE GameSession ------------------------------
(***************************************************************************)
(* components/emulation/pocketds-game-session.py, native back end.  Each   *)
(* launch of a game is one supervisor process.  Under one session flock it *)
(* finishes what a dead predecessor left in the journal, leases the        *)
(* gamepad from the input helper, may raise the power profile, starts the  *)
(* game in a systemd scope, waits, and undoes everything in reverse.       *)
(*                                                                         *)
(* Everything it starts runs in a session of its own and outlives it: when *)
(* a supervisor is killed, its acquire helper goes on, its systemd-run     *)
(* client still registers the scope, its recover and power commands still  *)
(* land.  The journal is all that its successor knows.                     *)
(*                                                                         *)
(* The input helper is reduced to what module InputMode says of it: a      *)
(* flock, a generation token, a published mode, a receipt, and a recovery  *)
(* that keeps the token until the mode it restores is there.               *)
(***************************************************************************)
EXTENDS Naturals

CONSTANTS
  Sessions,     \* supervisor processes, each launched at most once
  NoOne,        \* no supervisor
  MaxSignals,   \* bound: SIGHUP, SIGINT or SIGTERM delivered
  MaxKills,     \* bound: supervisors killed
  MaxFaults,    \* bound: commands, file writes and waits that fail
  MaxChoices    \* bound: choices of the user (Guide, Panel)

ASSUME SessionsAssumption == NoOne \notin Sessions /\ "user" \notin Sessions
                               /\ "restore" \notin Sessions /\ "orphan" \notin Sessions
ASSUME SessionBounds == {MaxSignals, MaxKills, MaxFaults, MaxChoices} \subseteq Nat

Modes  == {"gamepad", "joymouse"}
Powers == {"powersave", "balanced", "performance"}
Tokens == Nat           \* input generations; 0 is no lease

Phases == {"init", "locked", "preflight", "acquiring-input", "input-owned",
           "starting-backend", "running", "stopping", "restoring", "done"}

\* ALLOWED_TRANSITIONS, without the phases of join.
AllowedTransitions ==
  ({"init"} \X {"locked", "done"})
    \cup ({"locked"} \X {"preflight", "restoring", "done"})
    \cup ({"preflight"} \X {"acquiring-input", "restoring", "done"})
    \cup ({"acquiring-input"} \X {"input-owned", "restoring", "done"})
    \cup ({"input-owned"} \X {"starting-backend", "restoring"})
    \cup ({"starting-backend"} \X {"running", "stopping", "restoring"})
    \cup ({"running"} \X {"stopping", "restoring"})
    \cup ({"stopping"} \X {"restoring", "done"})
    \cup ({"restoring"} \X {"done"})

PCs == {"new", "locked", "stale-power", "stale-set", "stale-journal", "stale-input",
        "stale-unlink", "ready", "acquiring", "owned", "boosting", "launch", "popen",
        "starting", "running", "stopping", "cleanup", "power", "unboost", "clear",
        "restore", "recover", "remove", "release", "done", "killed"}

\* The journal, $XDG_RUNTIME_DIR/pocketds-game-session/session.json.
RecordPhases == {"acquiring-input", "starting", "running", "restoring"}
Records == [by : Sessions, phase : RecordPhases, unit : BOOLEAN, scope : BOOLEAN,
            lease : Tokens, previous : Modes, perf : Powers \cup {"none"}]
NoRecord == [by |-> NoOne]

\* What a supervisor remembers.
Memories ==
  [sig : BOOLEAN,                     \* signal_number is set
   lease : Tokens, previous : Modes,  \* receipt
   unit : BOOLEAN, scope : BOOLEAN,   \* native_unit, native_scope_cgroup
   client : BOOLEAN,                  \* backend_process is not None
   quiesced : BOOLEAN,                \* backend_quiesced
   boost : Powers \cup {"none"},      \* previous_power while restore is required
   written : RecordPhases \cup {"none"}, \* record_phase
   kept : BOOLEAN]                    \* not (backend_safe and performance_ok and input_ok)

FreshMemory ==
  [sig |-> FALSE, lease |-> 0, previous |-> "joymouse", unit |-> FALSE, scope |-> FALSE,
   client |-> FALSE, quiesced |-> FALSE, boost |-> "none", written |-> "none", kept |-> FALSE]

\* The acquire helper of a session.
Helpers == [state : {"none", "started", "claimed", "sent", "mutated", "ok", "failed"},
            token : Tokens, previous : Modes, sent : BOOLEAN]

\* Commands that outlive their supervisor and are still to land.
Orphans == ({"input"} \X Tokens \X Modes) \cup ({"power"} \X {0} \X Powers)

VARIABLES
  pc,         \* Sessions -> where the supervisor is
  phase,      \* Sessions -> its Phase
  mem,        \* Sessions -> its memory
  helper,     \* Sessions -> its acquire helper
  unit,       \* Sessions -> "none", "client", "active" or "gone"
  slock,      \* owner of the session flock, or NoOne
  rec,        \* the journal, or NoRecord
  pad,        \* the input state file: [token, mode, by]; by is history
  fresh,      \* input generations drawn so far
  power,      \* the active TuneD profile
  powerBy,    \* history: who set it
  orphans,    \* commands whose supervisor was killed, still to land
  ghosts,     \* history: ended between the start of their client and its scope
  journaled,  \* history: leases the journal once named
  budget      \* [signals, kills, faults, choices] used so far

world == <<pad, fresh, power, powerBy, orphans>>
vars == <<pc, phase, mem, helper, unit, slock, rec, pad, fresh, power, powerBy,
          orphans, ghosts, journaled, budget>>

TypeOK ==
  /\ pc \in [Sessions -> PCs]
  /\ phase \in [Sessions -> Phases]
  /\ mem \in [Sessions -> Memories]
  /\ helper \in [Sessions -> Helpers]
  /\ unit \in [Sessions -> {"none", "client", "active", "gone"}]
  /\ slock \in Sessions \cup {NoOne}
  /\ rec \in Records \cup {NoRecord}
  /\ pad \in [token : Tokens, mode : Modes \cup {"unsettled"}, by : {"user", "session"}]
  /\ fresh \in Nat
  /\ power \in Powers
  /\ powerBy \in Sessions \cup {"user", "restore", "orphan"}
  /\ orphans \subseteq Orphans
  /\ ghosts \subseteq Sessions
  /\ journaled \subseteq Tokens
  /\ budget \in [signals : Nat, kills : Nat, faults : Nat, choices : Nat]

Init ==
  /\ pc = [s \in Sessions |-> "new"]
  /\ phase = [s \in Sessions |-> "init"]
  /\ mem = [s \in Sessions |-> FreshMemory]
  /\ helper = [s \in Sessions |-> [state |-> "none", token |-> 0,
                                   previous |-> "joymouse", sent |-> FALSE]]
  /\ unit = [s \in Sessions |-> "none"]
  /\ slock = NoOne
  /\ rec = NoRecord
  /\ pad = [token |-> 1, mode |-> "joymouse", by |-> "user"]
  /\ fresh = 1
  /\ power \in Powers
  /\ powerBy = "user"
  /\ orphans = {} /\ ghosts = {} /\ journaled = {}
  /\ budget = [signals |-> 0, kills |-> 0, faults |-> 0, choices |-> 0]

-----------------------------------------------------------------------------
(* Building blocks *)

Spend(field, bound) == /\ budget[field] < bound
                       /\ budget' = [budget EXCEPT ![field] = @ + 1]
Fault == Spend("faults", MaxFaults)
Fine  == UNCHANGED budget

Goto(s, l)  == pc' = [pc EXCEPT ![s] = l]
Enter(s, p) == phase' = [phase EXCEPT ![s] = p]
Remember(s, m) == mem' = [mem EXCEPT ![s] = m]
NoRecordChange == UNCHANGED <<rec, journaled>>

\* base_record and publish_record: memory m of s, published under phase p.
Publish(s, m, p) ==
  /\ rec' = [by |-> s, phase |-> p, unit |-> m.unit, scope |-> m.scope,
             lease |-> m.lease, previous |-> m.previous, perf |-> m.boost]
  /\ journaled' = journaled \cup {m.lease}

\* write_record publishes and remembers the phase.  When it fails the memory is
\* after, but the rename may have happened (the directory's fsync comes after it).
WriteRecord(s, m, p) == Publish(s, m, p) /\ Remember(s, [m EXCEPT !.written = p]) /\ Fine
WriteFails(s, m, p, after) ==
  Fault /\ (NoRecordChange \/ Publish(s, m, p)) /\ Remember(s, after)

\* The input helper holds its flock.
PadBusy == \E s \in Sessions : helper[s].state \in {"claimed", "sent", "mutated"}

NewPad(m, who) == /\ pad' = [token |-> fresh + 1, mode |-> m, by |-> who]
                  /\ fresh' = fresh + 1

\* pocketds-input-mode recover-token LEASE MODE, run to its end: it replaces its own
\* generation, and leaves a newer one alone once it finds that one stable.
Recovered(lease, m) ==
  /\ ~PadBusy
  /\ IF pad.token = lease THEN NewPad(m, "session") ELSE UNCHANGED <<pad, fresh>>

\* recover_input fails: the helper could not take its flock, found a newer
\* generation that is not stable, was stopped at any point, or its answer was lost.
RecoveryFails(lease, m) ==
  \/ PadBusy /\ UNCHANGED <<pad, fresh>> /\ Fine
  \/ ~PadBusy /\ pad.token # lease /\ pad.mode = "unsettled" /\ UNCHANGED <<pad, fresh>> /\ Fine
  \/ Fault /\ UNCHANGED <<pad, fresh>>
  \/ Fault /\ Recovered(lease, m)
  \/ /\ Fault /\ ~PadBusy /\ pad.token = lease
     /\ pad' = [pad EXCEPT !.mode = "unsettled", !.by = "session"]
     /\ UNCHANGED fresh

SetPower(p, who) == /\ power' = p
                    /\ powerBy' = IF p = power THEN powerBy ELSE who

\* A power command that is not seen to succeed: it acted, did not, or acts later
\* (it runs under sudo and cannot be signalled).
PowerFails(p, who) ==
  /\ Fault
  /\ \/ SetPower(p, who) /\ UNCHANGED orphans
     \/ UNCHANGED <<power, powerBy, orphans>>
     \/ orphans' = orphans \cup {<<"power", 0, p>>} /\ UNCHANGED <<power, powerBy>>

SetsPower(p, who) == SetPower(p, who) /\ UNCHANGED orphans

-----------------------------------------------------------------------------
(* acquire_lock and preflight *)

Launch(s) ==
  /\ pc[s] = "new"
  /\ IF slock = NoOne THEN slock' = s /\ Goto(s, "locked") /\ Enter(s, "locked")
                      ELSE Goto(s, "done") /\ Enter(s, "done") /\ UNCHANGED slock
  /\ Fine
  /\ UNCHANGED <<mem, helper, unit, rec, world, ghosts, journaled>>

\* validate_existing_record, and validate_join_record for a running one.
Valid(r) == /\ r.lease # 0
            /\ r.phase # "acquiring-input" => r.unit
            /\ r.phase = "running" => r.scope
            /\ r.scope => r.unit

\* record_native_boundary_absent: no unit, or systemd knows of no such scope.
BoundaryAbsent(r) == ~r.unit \/ unit[r.by] # "active"

\* Deliberate bug: recover a stale record whatever became of its game.
PreflightUnbounded(s) ==
  /\ pc[s] = "locked"
  /\ Enter(s, "preflight")
  /\ Fine
  /\ Goto(s, IF rec = NoRecord THEN "ready"
             ELSE IF rec.perf # "none" THEN "stale-power" ELSE "stale-input")
  /\ UNCHANGED <<mem, helper, unit, slock, rec, world, ghosts, journaled>>

\* recover_stale_record up to its first effect.  Whatever cannot be proved (the
\* owner's death, the scope's absence, the record's shape) ends the launch.
Preflight(s) ==
  /\ pc[s] = "locked"
  /\ Enter(s, "preflight")
  /\ \/ Fine /\ rec = NoRecord /\ Goto(s, "ready")
     \/ Fine /\ rec # NoRecord /\ Valid(rec) /\ BoundaryAbsent(rec)
        /\ Goto(s, IF rec.perf # "none" THEN "stale-power" ELSE "stale-input")
     \/ Fine /\ rec # NoRecord /\ ~(Valid(rec) /\ BoundaryAbsent(rec)) /\ Goto(s, "cleanup")
     \/ Fault /\ rec # NoRecord /\ Goto(s, "cleanup")
  /\ UNCHANGED <<mem, helper, unit, slock, rec, world, ghosts, journaled>>

\* Compare: only an unchanged "performance" is still the dead session's.
StalePower(s) ==
  /\ pc[s] = "stale-power"
  /\ \/ Fine /\ Goto(s, IF power = "performance" THEN "stale-set" ELSE "stale-journal")
     \/ Fault /\ Goto(s, "cleanup")
  /\ UNCHANGED <<phase, mem, helper, unit, slock, rec, world, ghosts, journaled>>

\* Set: panelctl power PREVIOUS.
StaleSet(s) ==
  /\ pc[s] = "stale-set"
  /\ \/ SetsPower(rec.perf, "restore") /\ Fine /\ Goto(s, "stale-journal")
     \/ PowerFails(rec.perf, "restore") /\ Goto(s, "cleanup")
  /\ UNCHANGED <<phase, mem, helper, unit, slock, rec, pad, fresh, ghosts, journaled>>

\* Journal that conclusion before the independently retryable input recovery.
StaleJournal(s) ==
  /\ pc[s] = "stale-journal"
  /\ \/ rec' = [rec EXCEPT !.perf = "none"] /\ Goto(s, "stale-input") /\ Fine
     \/ rec' \in {rec, [rec EXCEPT !.perf = "none"]} /\ Goto(s, "cleanup") /\ Fault
  /\ UNCHANGED <<phase, mem, helper, unit, slock, world, ghosts, journaled>>

\* Input recovery with the dead session's lease; a failure keeps the record.
StaleInput(s) ==
  /\ pc[s] = "stale-input"
  /\ \/ Recovered(rec.lease, rec.previous) /\ Fine /\ Goto(s, "stale-unlink")
     \/ RecoveryFails(rec.lease, rec.previous) /\ Goto(s, "cleanup")
  /\ UNCHANGED <<phase, mem, helper, unit, slock, rec, power, powerBy, orphans, ghosts,
                 journaled>>

StaleUnlink(s) ==
  /\ pc[s] = "stale-unlink"
  /\ \/ rec' = NoRecord /\ Goto(s, "ready") /\ Fine
     \/ Fault /\ Goto(s, "cleanup") /\ UNCHANGED rec
  /\ UNCHANGED <<phase, mem, helper, unit, slock, world, ghosts, journaled>>

-----------------------------------------------------------------------------
(* acquire_input *)

StartAcquire(s) ==
  /\ pc[s] = "ready"
  /\ \/ mem[s].sig /\ Fine /\ Goto(s, "cleanup") /\ UNCHANGED <<phase, helper>>
     \/ /\ ~mem[s].sig /\ Enter(s, "acquiring-input")
        /\ \/ /\ Fine /\ Goto(s, "acquiring")
              /\ helper' = [helper EXCEPT ![s].state = "started"]
           \/ Fault /\ Goto(s, "cleanup") /\ UNCHANGED helper
  /\ UNCHANGED <<mem, unit, slock, rec, world, ghosts, journaled>>

Ended(s) == helper[s].state \in {"ok", "failed"}

\* terminate_process_group of the helper, wherever it is.
Terminate(s) == helper' = [helper EXCEPT ![s].state = IF Ended(s) THEN @ ELSE "failed"]

Received(s) == [mem[s] EXCEPT !.lease = helper[s].token, !.previous = helper[s].previous]

\* The pipe holds a receipt: remember it, journal it.
ReadReceipt(s) ==
  /\ pc[s] = "acquiring" /\ helper[s].sent /\ mem[s].lease = 0
  /\ \/ WriteRecord(s, Received(s), "acquiring-input") /\ UNCHANGED <<pc, helper>>
     \/ WriteFails(s, Received(s), "acquiring-input", Received(s)) /\ Terminate(s) /\ Goto(s, "cleanup")
  /\ UNCHANGED <<phase, unit, slock, world, ghosts>>

\* The helper ended and its output was drained.  Extra output or a child left
\* behind make a success a failure.
AcquireEnds(s) ==
  /\ pc[s] = "acquiring" /\ Ended(s) /\ (helper[s].sent => mem[s].lease # 0)
  /\ \/ helper[s].state = "ok" /\ Fine /\ Goto(s, "owned") /\ Enter(s, "input-owned")
     \/ /\ (helper[s].state = "failed" /\ Fine) \/ Fault
        /\ Goto(s, "cleanup") /\ UNCHANGED phase
  /\ UNCHANGED <<mem, helper, unit, slock, rec, world, ghosts, journaled>>

\* A signal stops the helper but the pipe is still drained; a timeout does not
\* look at the pipe again.
AcquireStops(s) ==
  /\ pc[s] = "acquiring" /\ ~Ended(s)
  /\ \/ mem[s].sig /\ Fine /\ UNCHANGED pc
     \/ Fault /\ Goto(s, "cleanup")
  /\ Terminate(s)
  /\ UNCHANGED <<phase, mem, unit, slock, rec, world, ghosts, journaled>>

-----------------------------------------------------------------------------
(* apply_performance *)

\* Deliberate bug: journal the marker only after the profile was raised.
BoostUnjournaled(s) ==
  /\ pc[s] = "owned" /\ ~mem[s].sig /\ Fine /\ NoRecordChange
  /\ \/ Goto(s, "launch") /\ UNCHANGED mem
     \/ /\ power # "performance" /\ Goto(s, "boosting")
        /\ Remember(s, [mem[s] EXCEPT !.boost = power])
  /\ UNCHANGED <<phase, helper, unit, slock, world, ghosts>>

\* Capture the profile and journal it before raising it.  Not asked for, not
\* readable or already raised: go on without.  Not journaled: do not raise.
Boost(s) ==
  LET m == [mem[s] EXCEPT !.boost = power] IN
  /\ pc[s] = "owned"
  /\ \/ mem[s].sig /\ Goto(s, "cleanup") /\ NoRecordChange /\ Fine /\ UNCHANGED mem
     \/ ~mem[s].sig /\ Goto(s, "launch") /\ NoRecordChange /\ Fine /\ UNCHANGED mem
     \/ /\ ~mem[s].sig /\ power # "performance"
        /\ \/ WriteRecord(s, m, mem[s].written) /\ Goto(s, "boosting")
           \/ WriteFails(s, m, mem[s].written, mem[s]) /\ Goto(s, "launch")
  /\ UNCHANGED <<phase, helper, unit, slock, world, ghosts>>

ApplyBoost(s) ==
  /\ pc[s] = "boosting" /\ Goto(s, "launch")
  /\ (SetsPower("performance", s) /\ Fine) \/ PowerFails("performance", s)
  /\ UNCHANGED <<phase, mem, helper, unit, slock, rec, pad, fresh, ghosts, journaled>>

-----------------------------------------------------------------------------
(* run_native *)

\* Name the unit in the journal before anything is started.
JournalLaunch(s) ==
  LET m == [mem[s] EXCEPT !.unit = TRUE] IN
  /\ pc[s] = "launch"
  /\ \/ mem[s].sig /\ Goto(s, "cleanup") /\ Fine /\ NoRecordChange /\ UNCHANGED <<phase, mem>>
     \/ /\ ~mem[s].sig /\ Enter(s, "starting-backend")
        /\ \/ WriteRecord(s, m, "starting") /\ Goto(s, "popen")
           \/ WriteFails(s, m, "starting", m) /\ Goto(s, "cleanup")
  /\ UNCHANGED <<helper, unit, slock, world, ghosts>>

Popen(s) ==
  /\ pc[s] = "popen"
  /\ \/ mem[s].sig /\ Fine /\ Goto(s, "cleanup") /\ UNCHANGED <<mem, unit>>
     \/ Fault /\ Goto(s, "cleanup") /\ UNCHANGED <<mem, unit>>
     \/ /\ ~mem[s].sig /\ Fine /\ Goto(s, "starting")
        /\ unit' = [unit EXCEPT ![s] = "client"]
        /\ Remember(s, [mem[s] EXCEPT !.client = TRUE])
  /\ UNCHANGED <<phase, helper, slock, rec, world, ghosts, journaled>>

Quiesce(s) == Remember(s, [mem[s] EXCEPT !.quiesced = TRUE])

\* Poll for the scope; journal its cgroup, which makes the session joinable.
AwaitScope(s) ==
  LET m == [mem[s] EXCEPT !.scope = TRUE] IN
  /\ pc[s] = "starting"
  /\ \/ /\ mem[s].sig \/ unit[s] \in {"client", "active"}  \* or a timeout, a lost client
        /\ Goto(s, "stopping") /\ Enter(s, "stopping")
        /\ Fine /\ NoRecordChange /\ UNCHANGED mem
     \/ /\ unit[s] = "gone" /\ ~mem[s].sig            \* the client ended by itself
        /\ Quiesce(s) /\ Goto(s, "cleanup") /\ Fine /\ NoRecordChange /\ UNCHANGED phase
     \/ /\ unit[s] = "active" /\ ~mem[s].sig
        /\ \/ WriteRecord(s, m, "running") /\ Goto(s, "running") /\ Enter(s, "running")
           \/ WriteFails(s, m, "running", m) /\ Goto(s, "cleanup") /\ UNCHANGED phase
  /\ UNCHANGED <<helper, unit, slock, world, ghosts>>

\* Deliberate bug: wait for the game without looking at the signal.
RunDeaf(s) ==
  /\ pc[s] = "running" /\ Fine
  /\ unit[s] = "gone" /\ Quiesce(s) /\ Goto(s, "cleanup")
  /\ UNCHANGED <<phase, helper, unit, slock, rec, world, ghosts, journaled>>

Run(s) ==
  /\ pc[s] = "running" /\ Fine
  /\ \/ unit[s] = "gone" /\ Quiesce(s) /\ Goto(s, "cleanup") /\ UNCHANGED phase
     \/ /\ mem[s].sig \/ unit[s] = "active"           \* only the client ended
        /\ Goto(s, "stopping") /\ Enter(s, "stopping") /\ UNCHANGED mem
  /\ UNCHANGED <<helper, unit, slock, rec, world, ghosts, journaled>>

\* stop_native: stop, then kill, the exact unit; quiesced only if it is seen empty.
\* A game that did not end once (an uninterruptible task) need not end later.
StopNative(s) ==
  \/ Fine /\ unit' = [unit EXCEPT ![s] = "gone"] /\ Quiesce(s)
  \/ /\ unit[s] # "gone" /\ UNCHANGED <<unit, mem>>
     /\ Fault \/ (Fine /\ pc[s] = "cleanup" /\ phase[s] = "stopping")

Stop(s) ==
  /\ pc[s] = "stopping" /\ Goto(s, "cleanup")
  /\ StopNative(s)
  /\ UNCHANGED <<phase, helper, slock, rec, world, ghosts, journaled>>

-----------------------------------------------------------------------------
(* The finally block of run *)

\* Deliberate bug: undo the settings although the game could not be stopped.
CleanupRegardless(s) ==
  /\ pc[s] = "cleanup" /\ Goto(s, "power")
  /\ IF mem[s].client /\ phase[s] \in {"starting-backend", "running"}
     THEN Enter(s, "stopping") ELSE UNCHANGED phase
  /\ IF mem[s].client /\ ~mem[s].quiesced THEN StopNative(s)
                                          ELSE Fine /\ UNCHANGED <<unit, mem>>
  /\ UNCHANGED <<helper, slock, rec, world, ghosts, journaled>>

\* Try once more to stop the game; while it may run nothing is undone.
Cleanup(s) ==
  /\ pc[s] = "cleanup"
  /\ IF mem[s].client /\ phase[s] \in {"starting-backend", "running"}
     THEN Enter(s, "stopping") ELSE UNCHANGED phase
  /\ IF mem[s].client /\ ~mem[s].quiesced THEN StopNative(s)
                                          ELSE Fine /\ UNCHANGED <<unit, mem>>
  /\ Goto(s, IF mem'[s].client /\ ~mem'[s].quiesced THEN "release" ELSE "power")
  /\ ghosts' = IF unit'[s] = "client" THEN ghosts \cup {s} ELSE ghosts
  /\ UNCHANGED <<helper, slock, rec, world, journaled>>

Kept(s) == [mem[s] EXCEPT !.kept = TRUE]
Keep(s) == Remember(s, Kept(s)) /\ Goto(s, "restore")

\* Deliberate bug: restore whether or not anything was captured.
RestorePowerAlways(s) ==
  /\ pc[s] = "power" /\ Fine /\ Goto(s, "unboost")
  /\ UNCHANGED <<phase, mem, helper, unit, slock, rec, world, ghosts, journaled>>

\* restore_performance compares ...
RestorePower(s) ==
  /\ pc[s] = "power"
  /\ \/ Fine /\ mem[s].boost = "none" /\ Goto(s, "restore") /\ UNCHANGED mem
     \/ Fine /\ mem[s].boost # "none" /\ UNCHANGED mem
        /\ Goto(s, IF power = "performance" THEN "unboost" ELSE "clear")
     \/ Fault /\ mem[s].boost # "none" /\ Keep(s)
  /\ UNCHANGED <<phase, helper, unit, slock, rec, world, ghosts, journaled>>

\* ... sets ...
Unboost(s) ==
  /\ pc[s] = "unboost"
  /\ \/ SetsPower(mem[s].boost, "restore") /\ Fine /\ Goto(s, "clear") /\ UNCHANGED mem
     \/ PowerFails(mem[s].boost, "restore") /\ Keep(s)
  /\ UNCHANGED <<phase, helper, unit, slock, rec, pad, fresh, ghosts, journaled>>

\* ... and takes the marker out of the journal (clear_performance_journal).
ClearPower(s) ==
  LET m == [mem[s] EXCEPT !.boost = "none"] IN
  /\ pc[s] = "clear" /\ Goto(s, "restore")
  /\ \/ WriteRecord(s, m, mem[s].written)
     \/ WriteFails(s, m, mem[s].written, Kept(s))
  /\ UNCHANGED <<phase, helper, unit, slock, world, ghosts>>

\* Deliberate bug: every restore is journaled as "restoring".
RestoringPhaseAlways(s) == "restoring"

\* A session that never named a unit keeps the only phase allowed to omit one.
RestoringPhase(s) == IF mem[s].unit THEN "restoring" ELSE "acquiring-input"

\* Deliberate bug: enter the restoring phase only with its journal entry.
RestoreInPlace(s) ==
  /\ pc[s] = "restore"
  /\ IF mem[s].lease = 0
     THEN Goto(s, "remove") /\ Fine /\ NoRecordChange /\ UNCHANGED <<phase, mem>>
     ELSE /\ Goto(s, "recover")
          /\ \/ mem[s].written # "none" /\ WriteRecord(s, mem[s], RestoringPhase(s))
                /\ Enter(s, "restoring")
             \/ mem[s].written # "none" /\ UNCHANGED phase
                /\ WriteFails(s, mem[s], RestoringPhase(s), mem[s])
             \/ mem[s].written = "none" /\ Fine /\ NoRecordChange /\ UNCHANGED <<phase, mem>>
  /\ UNCHANGED <<helper, unit, slock, world, ghosts>>

\* Journal the restore; it goes ahead whether or not that succeeded.
Restore(s) ==
  /\ pc[s] = "restore"
  /\ IF mem[s].lease = 0
     THEN Goto(s, "remove") /\ Fine /\ NoRecordChange /\ UNCHANGED <<phase, mem>>
     ELSE /\ Goto(s, "recover") /\ Enter(s, "restoring")
          /\ \/ mem[s].written # "none" /\ WriteRecord(s, mem[s], RestoringPhase(s))
             \/ mem[s].written # "none" /\ WriteFails(s, mem[s], RestoringPhase(s), mem[s])
             \/ mem[s].written = "none" /\ Fine /\ NoRecordChange /\ UNCHANGED mem
  /\ UNCHANGED <<helper, unit, slock, world, ghosts>>

\* Deliberate bug: ignore the helper's exit status.
RecoverUnchecked(s) ==
  /\ pc[s] = "recover" /\ Goto(s, "remove")
  /\ (Recovered(mem[s].lease, mem[s].previous) /\ Fine)
       \/ RecoveryFails(mem[s].lease, mem[s].previous)
  /\ UNCHANGED <<phase, mem, helper, unit, slock, rec, power, powerBy, orphans, ghosts,
                 journaled>>

\* restore_input: recover-token with the receipt's token.
Recover(s) ==
  /\ pc[s] = "recover" /\ Goto(s, "remove")
  /\ \/ Recovered(mem[s].lease, mem[s].previous) /\ Fine /\ UNCHANGED mem
     \/ /\ RecoveryFails(mem[s].lease, mem[s].previous)
        /\ Remember(s, Kept(s))
  /\ UNCHANGED <<phase, helper, unit, slock, rec, power, powerBy, orphans, ghosts, journaled>>

\* remove_record, only when everything was undone and the journal is still ours.
Remove(s) ==
  /\ pc[s] = "remove" /\ Goto(s, "release")
  /\ \/ (mem[s].kept \/ mem[s].written = "none") /\ Fine /\ UNCHANGED rec
     \/ ~mem[s].kept /\ mem[s].written # "none" /\ rec.by = s /\ rec' = NoRecord /\ Fine
     \/ ~mem[s].kept /\ mem[s].written # "none" /\ Fault /\ UNCHANGED rec
  /\ UNCHANGED <<phase, mem, helper, unit, slock, world, ghosts, journaled>>

Release(s) ==
  /\ pc[s] = "release" /\ Fine
  /\ slock' = NoOne /\ Goto(s, "done") /\ Enter(s, "done")
  /\ Remember(s, FreshMemory)
  /\ UNCHANGED <<helper, unit, rec, world, ghosts, journaled>>

-----------------------------------------------------------------------------
(* What runs beside the supervisors *)

Live(s) == pc[s] \notin {"new", "done", "killed"}

\* SIGHUP, SIGINT or SIGTERM: from the desktop, or request_session_stop.
Signal(s) ==
  /\ Live(s) /\ ~mem[s].sig
  /\ Spend("signals", MaxSignals)
  /\ Remember(s, [mem[s] EXCEPT !.sig = TRUE])
  /\ UNCHANGED <<pc, phase, helper, unit, slock, rec, world, ghosts, journaled>>

\* What the command in flight of a killed supervisor still does.
LeftBehind(s) ==
  CASE pc[s] = "recover"     -> {<<"input", mem[s].lease, mem[s].previous>>}
    [] pc[s] = "stale-input" -> {<<"input", rec.lease, rec.previous>>}
    [] pc[s] = "stale-set"   -> {<<"power", 0, rec.perf>>}
    [] pc[s] = "unboost"     -> {<<"power", 0, mem[s].boost>>}
    [] pc[s] = "boosting"    -> {<<"power", 0, "performance">>}
    [] OTHER                 -> {}

\* SIGKILL, the out-of-memory killer or a crash: the flock and the memory are gone.
Kill(s) ==
  /\ Live(s)
  /\ Spend("kills", MaxKills)
  /\ Goto(s, "killed") /\ slock' = NoOne /\ Remember(s, FreshMemory)
  /\ orphans' = orphans \cup LeftBehind(s)
  /\ ghosts' = IF unit[s] = "client" THEN ghosts \cup {s} ELSE ghosts
  /\ UNCHANGED <<phase, helper, unit, rec, pad, fresh, power, powerBy, journaled>>

OrphanLands ==
  \E o \in orphans :
    /\ orphans' = orphans \ {o}
    /\ \/ /\ o[1] = "input" /\ Recovered(o[2], o[3]) /\ UNCHANGED <<power, powerBy>>
       \/ /\ o[1] = "power" /\ SetPower(o[3], "orphan") /\ UNCHANGED <<pad, fresh>>
    /\ UNCHANGED <<pc, phase, mem, helper, unit, slock, rec, ghosts, journaled, budget>>

Helper(s, state) == helper' = [helper EXCEPT ![s].state = state]

\* acquire takes the input flock and claims, or refuses without a claim.
HelperClaims(s) ==
  /\ helper[s].state = "started" /\ ~PadBusy
  /\ \/ Helper(s, "failed") /\ UNCHANGED <<pad, fresh>>
     \/ \E m \in Modes :
          /\ pad.mode \in {m, "unsettled"}
          /\ helper' = [helper EXCEPT ![s] = [@ EXCEPT !.state = "claimed",
                                              !.token = fresh + 1, !.previous = m]]
          /\ NewPad("unsettled", "session")
  /\ UNCHANGED <<pc, phase, mem, unit, slock, rec, power, powerBy, orphans, ghosts,
                 journaled, budget>>

\* It prints its receipt; if nobody can read it, it gives the claim back.
HelperSends(s) ==
  /\ helper[s].state = "claimed"
  /\ IF pc[s] = "acquiring"
     THEN /\ helper' = [helper EXCEPT ![s].state = "sent", ![s].sent = TRUE]
          /\ UNCHANGED pad
     ELSE /\ Helper(s, "failed")
          /\ \E m \in {helper[s].previous, "unsettled"} : pad' = [pad EXCEPT !.mode = m]
  /\ UNCHANGED <<pc, phase, mem, unit, slock, rec, fresh, power, powerBy, orphans, ghosts,
                 journaled, budget>>

\* Its first D-Bus mutation completes.
HelperMutates(s) ==
  /\ helper[s].state = "sent" /\ Helper(s, "mutated")
  /\ UNCHANGED <<pc, phase, mem, unit, slock, rec, world, ghosts, journaled, budget>>

\* It publishes gamepad; or fails, having rolled back or not.
HelperEnds(s) ==
  /\ \/ helper[s].state = "mutated" /\ Helper(s, "ok") /\ pad' = [pad EXCEPT !.mode = "gamepad"]
     \/ /\ helper[s].state \in {"sent", "mutated"} /\ Helper(s, "failed")
        /\ \E m \in {helper[s].previous, "unsettled"} : pad' = [pad EXCEPT !.mode = m]
  /\ UNCHANGED <<pc, phase, mem, unit, slock, rec, fresh, power, powerBy, orphans, ghosts,
                 journaled, budget>>

\* systemd registers the scope, with the game in it, or refuses it.
ScopeSettles(s) ==
  /\ unit[s] = "client"
  /\ \E u \in {"active", "gone"} : unit' = [unit EXCEPT ![s] = u]
  /\ UNCHANGED <<pc, phase, mem, helper, slock, rec, world, ghosts, journaled, budget>>

GameExits(s) ==
  /\ unit[s] = "active"
  /\ unit' = [unit EXCEPT ![s] = "gone"]
  /\ UNCHANGED <<pc, phase, mem, helper, slock, rec, world, ghosts, journaled, budget>>

\* Guide or Panel: another mode, reached or not, under a new generation.
UserSwitches ==
  /\ ~PadBusy
  /\ Spend("choices", MaxChoices)
  /\ \E m \in Modes \cup {"unsettled"} : NewPad(m, "user")
  /\ UNCHANGED <<pc, phase, mem, helper, unit, slock, rec, power, powerBy, orphans, ghosts,
                 journaled>>

UserSetsPower ==
  /\ Spend("choices", MaxChoices)
  /\ power' \in Powers /\ powerBy' = "user"
  /\ UNCHANGED <<pc, phase, mem, helper, unit, slock, rec, pad, fresh, orphans, ghosts,
                 journaled>>

-----------------------------------------------------------------------------
Supervise(s) ==
  \/ Launch(s) \/ Preflight(s)
  \/ StalePower(s) \/ StaleSet(s) \/ StaleJournal(s) \/ StaleInput(s) \/ StaleUnlink(s)
  \/ StartAcquire(s) \/ ReadReceipt(s) \/ AcquireEnds(s) \/ AcquireStops(s)
  \/ Boost(s) \/ ApplyBoost(s)
  \/ JournalLaunch(s) \/ Popen(s) \/ AwaitScope(s) \/ Run(s) \/ Stop(s)
  \/ Cleanup(s) \/ RestorePower(s) \/ Unboost(s) \/ ClearPower(s)
  \/ Restore(s) \/ Recover(s) \/ Remove(s) \/ Release(s)

Acquire(s) == HelperClaims(s) \/ HelperSends(s) \/ HelperMutates(s) \/ HelperEnds(s)

Next == \/ \E s \in Sessions : \/ Supervise(s) \/ Acquire(s)
                               \/ ScopeSettles(s) \/ GameExits(s)
                               \/ Signal(s) \/ Kill(s)
        \/ OrphanLands \/ UserSwitches \/ UserSetsPower

Spec == Init /\ [][Next]_vars

\* A supervisor that is not killed keeps running (each of its waits is bounded by
\* a timeout), and so does its helper.
FairSpec == Spec /\ \A s \in Sessions : WF_vars(Supervise(s)) /\ WF_vars(Acquire(s))

-----------------------------------------------------------------------------
(* Safety *)

\* A lease that once reached the journal is never forgotten: as long as the input
\* state still carries it, the journal names it, through kills of the supervisor
\* and of its successors, failed recoveries and failed journal writes.
JournaledLeaseSurvives ==
  \A l \in journaled : pad.token = l => rec # NoRecord /\ rec.lease = l

\* A running game is named by the journal, so the next launch can see it.  The
\* exception is a supervisor that ended, killed or unable to reach systemd, before
\* systemd knew the scope: its client may start the game after a later launch has
\* found the unit absent.
GameIsJournaled ==
  \A s \in Sessions : unit[s] = "active" =>
    \/ rec.by = s /\ rec.unit
    \/ s \in ghosts

\* A profile that a session raised is never raised for good: as long as it is in
\* force and nobody else has chosen since, the journal says what to go back to.
\* (A power command that lands after its supervisor stopped waiting is "orphan".)
PowerIsJournaled ==
  \A s \in Sessions : powerBy = s => rec.by = s /\ rec.perf # "none"

\* Every record in place passes its own validation: a launch is never refused for
\* good because of what an earlier session wrote.
RecordIsValid == rec # NoRecord => Valid(rec)

-----------------------------------------------------------------------------
(* What a step may never do *)

\* While a session's game runs, only the user changes the input mode, and neither
\* its own cleanup nor a later launch lowers the power profile it runs on.  (The
\* acquire helper of a killed supervisor may still come to its turn and revoke the
\* lease; a power command may land after its supervisor stopped waiting.)
GameKeepsItsSettings ==
  [][\A s \in Sessions : unit[s] = "active" /\ unit'[s] = "active" /\ s \notin ghosts
       => /\ \/ pad' = pad \/ pad'.by = "user"
             \/ \E t \in Sessions : pc[t] = "killed" /\ Acquire(t)
          /\ power' = power \/ powerBy' \in {"user", "orphan"}]_vars

\* No path through the cleanup asks for a phase change that transition() refuses:
\* that exception would leave the flock and the journal to chance.
PhasesAreAllowed ==
  [][\A s \in Sessions : phase'[s] # phase[s]
       => <<phase[s], phase'[s]>> \in AllowedTransitions]_vars

-----------------------------------------------------------------------------
(* What the comments say, and the code does not do *)

\* "The receipt is durable before the helper can complete its first InputPlumber
\* mutation."
ReceiptIsDurable ==
  \A s \in Sessions : helper[s].state = "mutated" => helper[s].token \in journaled

\* "A different managed mode is an explicit user/system supersession and must not
\* be overwritten."
SupersededPowerIsKept ==
  [][\A s \in Sessions : Unboost(s) => power = "performance" \/ power' = power]_vars

-----------------------------------------------------------------------------
(* Liveness *)

\* A signalled session ends by itself: it stops its game, undoes what it can and
\* releases the flock.
StopIsHonoured ==
  \A s \in Sessions : mem[s].sig /\ Live(s) ~> ~Live(s)

=============================================================================

------------------------------ MODULE InputMode ------------------------------
(***************************************************************************)
(* components/emulation/pocketds-input-mode, the only writer of            *)
(* InputPlumber's profile and target devices.  Every command is a separate *)
(* short-lived process: it takes one flock, reads or replaces the tokenised *)
(* state file, drives InputPlumber with a series of timed busctl calls and *)
(* publishes the outcome in the state file.                                *)
(*                                                                         *)
(* A helper may be killed between any two steps.  busctl runs under        *)
(* timeout(1), in a process group of its own, and inherits descriptor 9:   *)
(* when its helper is killed an in-flight call survives as an orphan that  *)
(* still owns the flock until it ends.                                     *)
(*                                                                         *)
(* InputPlumber itself is external.  It may restart (back to its vendor    *)
(* default), fail any call with or without having applied it, and still    *)
(* apply a call after its client gave up on it.                            *)
(***************************************************************************)
EXTENDS Naturals, Sequences

CONSTANTS
  Helpers,      \* slots for concurrently running helper processes
  NoOne,        \* "the flock is free": not a helper
  MaxRuns,      \* bound: helper processes started
  MaxKills,     \* bound: helper processes killed
  MaxFaults,    \* bound: D-Bus calls, polls and file writes that fail
  MaxRestarts   \* bound: restarts of InputPlumber

ASSUME HelpersAssumption == NoOne \notin Helpers
ASSUME BoundsAssumption == {MaxRuns, MaxKills, MaxFaults, MaxRestarts} \subseteq Nat

Modes     == {"gamepad", "joymouse"}
Goals     == Modes \cup {"default"}       \* what a helper may ask for
Profiles  == Goals \cup {"absent"}        \* "absent": no composite device yet
Targets   == Profiles \cup {"detached"}
FileModes == Modes \cup {"transitioning", "unknown", "missing"}
Tokens    == Nat           \* 0 is no token: the state file of a fresh boot

Transitions == {"set", "toggle", "toggle-nonblocking", "acquire"}
LeaseOps    == {"recover", "restore"}
Ops         == Transitions \cup LeaseOps \cup {"reconcile", "bootstrap"}

\* A D-Bus call that acts on InputPlumber: SetTargetDevices, ForceFeedback.Stop
\* or LoadProfilePath.
CallSet == ({"targets"} \X Targets) \cup ({"profile"} \X Goals)
             \cup {<<"stop", "default">>}

Detach   == <<"targets", "detached">>
StopFF   == <<"stop", "default">>
Load(p)  == <<"profile", p>>
Attach(t) == <<"targets", t>>

\* apply_profile_targets_raw and, after a failure, restore_detached_snapshot_raw.
ApplyCalls(mode)   == <<Detach, StopFF, Load(mode), Attach(mode)>>
UndoCalls(profile, targets) == <<Detach, Load(profile), Attach(targets)>>

Jobs == [op : Ops, lease : Tokens, goal : Goals \cup {"none"},
         prior : Goals \cup {"none"}, token : Tokens,
         round : {"forward", "back"},
         entry : Goals \X Targets]

PCs == {"idle", "locking", "checking", "deciding", "receipt", "entering",
        "applying", "undoing", "applied", "polled", "failed", "orphan"}

\* A job that has been started but has decided nothing yet.
NewJob(op, lease, goal) ==
  [op |-> op, lease |-> lease, goal |-> goal, prior |-> "none",
   token |-> 0, round |-> "forward", entry |-> <<"default", "default">>]

VARIABLES
  pc,        \* Helpers -> where the process is
  job,       \* Helpers -> what it is doing
  calls,     \* Helpers -> D-Bus calls still to make; the head is in flight
  lock,      \* owner of the exclusive flock, or NoOne
  keyboard,  \* the keyboard's shared flock: "idle", "allowed" or "refused"
  file,      \* the state file: [token, mode]
  profile,   \* InputPlumber: the loaded profile
  targets,   \* InputPlumber: the attached virtual devices
  late,      \* calls whose client gave up and that may still be applied
  issued,    \* tokens drawn from the kernel's UUID source so far
  receipts,  \* acquire receipts that were delivered: [token, previous]
  retired,   \* history: tokens the state file once named and has replaced
  held,      \* history: the managed modes InputPlumber was exactly in at some
             \* moment since a call last acted on it or the flock was last taken
  drift,     \* history: InputPlumber left the published mode by itself
  budget     \* [runs, kills, faults, writes, restarts] used so far; "writes"
             \* counts the faults that kept an outcome from being published

ip   == <<profile, targets>>
vars == <<pc, job, calls, lock, keyboard, file, profile, targets, late,
          issued, receipts, retired, held, drift, budget>>

TypeOK ==
  /\ pc \in [Helpers -> PCs]
  /\ job \in [Helpers -> Jobs]
  /\ calls \in [Helpers -> Seq(CallSet)]
  /\ lock \in Helpers \cup {NoOne}
  /\ keyboard \in {"idle", "allowed", "refused"}
  /\ file \in [token : Tokens, mode : FileModes]
  /\ profile \in Profiles
  /\ targets \in Targets
  /\ late \subseteq CallSet
  /\ issued \in Nat
  /\ receipts \subseteq [token : Tokens, previous : Modes]
  /\ retired \subseteq Tokens
  /\ held \subseteq Modes
  /\ drift \in BOOLEAN
  /\ budget \in [runs : Nat, kills : Nat, faults : Nat, writes : Nat, restarts : Nat]

Init ==
  /\ pc = [h \in Helpers |-> "idle"]
  /\ job = [h \in Helpers |-> NewJob("reconcile", 0, "none")]
  /\ calls = [h \in Helpers |-> <<>>]
  /\ lock = NoOne
  /\ keyboard = "idle"
  /\ file = [token |-> 0, mode |-> "missing"]
  /\ profile = "default"
  /\ targets = "default"
  /\ late = {}
  /\ issued = 0
  /\ receipts = {}
  /\ retired = {}
  /\ held = {}
  /\ drift = FALSE
  /\ budget = [runs |-> 0, kills |-> 0, faults |-> 0, writes |-> 0, restarts |-> 0]

-----------------------------------------------------------------------------
(* Reading the runtime, and the building blocks of a step *)

At(m) == profile = m /\ targets = m

\* current_mode, state_matches and default_snapshot_matches: the managed mode, or
\* the vendor default, that InputPlumber is exactly in, if any.
Observed == IF profile \in Goals /\ targets = profile THEN profile ELSE "none"

\* The managed modes that profile p with targets t is exactly in.
Exact(p, t) == {m \in Modes : p = m /\ t = m}

\* Something outside the helper's control fails once.
Fault == /\ budget.faults < MaxFaults
         /\ budget' = [budget EXCEPT !.faults = @ + 1]

\* The state file, or the token it needs, cannot be written.
WriteFault == /\ budget.faults < MaxFaults
              /\ budget' = [budget EXCEPT !.faults = @ + 1, !.writes = @ + 1]

Fresh == issued + 1        \* new_token: a UUID nobody has seen before

\* write_state_locked: mktemp, write, rename over the state file.
Write(t, m) ==
  /\ file' = [token |-> t, mode |-> m]
  /\ retired' = IF t = file.token THEN retired ELSE retired \cup {file.token}

\* Publish mode m ("unknown" claims nothing).  InputPlumber may have left it again
\* since it was observed.
Publish(t, m) ==
  /\ Write(t, m)
  /\ drift' = IF m \in Modes THEN m \in held /\ ~At(m) ELSE drift

NoWrite == UNCHANGED <<file, retired, drift>>

\* The effect of one call on InputPlumber.
Effect(c) ==
  /\ profile' = IF c[1] = "profile" THEN c[2] ELSE profile
  /\ targets' = IF c[1] = "targets" THEN c[2] ELSE targets

\* The process ends; closing descriptor 9 gives the flock up.
Exit(h) ==
  /\ pc' = [pc EXCEPT ![h] = "idle"]
  /\ lock' = IF lock = h THEN NoOne ELSE lock
  /\ job' = [job EXCEPT ![h] = NewJob("reconcile", 0, "none")]
  /\ UNCHANGED calls

\* The process goes on to label l.
Goto(h, l) == pc' = [pc EXCEPT ![h] = l] /\ UNCHANGED <<lock, calls>>

-----------------------------------------------------------------------------
(* A helper starts, and takes the flock *)

\* The commands that the listener, the Panel, the launchers and the game session
\* issue.  A lease command names a token some earlier acquire handed out.
Requests ==
  {NewJob("set", 0, m) : m \in Modes}
    \cup {NewJob(op, 0, "none") :
            op \in {"toggle", "toggle-nonblocking", "reconcile", "bootstrap"}}
    \cup {NewJob("acquire", 0, "gamepad")}
    \cup {NewJob(op, r.token, r.previous) : op \in LeaseOps, r \in receipts}

Start(h) ==
  /\ pc[h] = "idle"
  /\ budget.runs < MaxRuns
  /\ budget' = [budget EXCEPT !.runs = @ + 1]
  /\ \E r \in Requests : job' = [job EXCEPT ![h] = r]
  /\ Goto(h, "locking")
  /\ UNCHANGED <<keyboard, file, profile, targets, late, issued, receipts,
                 retired, held, drift>>

Lock(h) ==
  /\ pc[h] = "locking"
  /\ lock = NoOne /\ keyboard = "idle"
  /\ lock' = h
  /\ pc' = [pc EXCEPT ![h] = "checking"]
  /\ held' = Exact(profile, targets)
  /\ UNCHANGED <<job, calls, keyboard, file, profile, targets, late, issued,
                 receipts, retired, drift, budget>>

\* flock -w 8 times out, or flock -n finds the lock taken (exit status 75).
LockBusy(h) ==
  /\ pc[h] = "locking"
  /\ lock # NoOne \/ (job[h].op = "toggle-nonblocking" /\ keyboard # "idle")
  /\ Exit(h)
  /\ UNCHANGED <<keyboard, file, profile, targets, late, issued, receipts,
                 retired, held, drift, budget>>

-----------------------------------------------------------------------------
(* Under the flock: what each command decides before its first D-Bus write *)

\* The runtime is read once, before anything is written: what the command then
\* decides, claims and rolls back to rests on what it found, which InputPlumber
\* may leave at any moment.  A read that fails finds no mode at all.
Look(h) ==
  /\ pc[h] = "checking"
  /\ \/ /\ job' = [job EXCEPT ![h] = [@ EXCEPT !.prior = Observed]]
        /\ UNCHANGED budget
     \/ /\ job' = [job EXCEPT ![h] = [@ EXCEPT !.prior = "none"]]
        /\ Fault
  /\ Goto(h, "deciding")
  /\ UNCHANGED <<keyboard, file, profile, targets, late, issued, receipts, retired,
                 held, drift>>

Found(h) == job[h].prior

\* Deliberate bug: claim in memory only, publish when the work is done.
ClaimUnpublished(h, token, goal, prior) ==
  /\ UNCHANGED <<file, retired>>
  /\ job' = [job EXCEPT ![h] = [@ EXCEPT !.token = token, !.goal = goal, !.prior = prior]]
  /\ Goto(h, IF job[h].op = "acquire" THEN "receipt" ELSE "entering")

\* Deliberate bug: print the receipt only with the final outcome.
ClaimWithoutReceipt(h, token, goal, prior) ==
  /\ Write(token, "transitioning")
  /\ job' = [job EXCEPT ![h] = [@ EXCEPT !.token = token, !.goal = goal, !.prior = prior]]
  /\ Goto(h, "entering")

\* The claim: name this process's generation before touching InputPlumber.
Claim(h, token, goal, prior) ==
  /\ Write(token, "transitioning")
  /\ job' = [job EXCEPT ![h] = [@ EXCEPT !.token = token, !.goal = goal, !.prior = prior]]
  /\ Goto(h, IF job[h].op = "acquire" THEN "receipt" ELSE "entering")

Other(m) == IF m = "gamepad" THEN "joymouse" ELSE "gamepad"

\* transition_locked up to its claim; restore_token reaches it too.
ClaimTransition(h, goal) ==
  /\ Found(h) \in Modes
  /\ issued' = Fresh
  /\ Claim(h, Fresh, goal, Found(h))
  /\ UNCHANGED <<drift, budget>>

\* A one-write conclusion: publish and exit.
Conclude(h, token, mode) ==
  /\ Publish(token, mode) /\ Exit(h)
  /\ issued' = IF token = Fresh THEN Fresh ELSE issued
  /\ UNCHANGED budget

Leave(h) == Exit(h) /\ NoWrite /\ UNCHANGED <<issued, budget>>

CheckTransition(h) ==
  /\ job[h].op \in Transitions
  /\ \/ ClaimTransition(h, IF job[h].goal = "none" THEN Other(Found(h))
                                                  ELSE job[h].goal)
     \/ Found(h) \notin Modes /\ Leave(h)

CheckReconcile(h) ==
  /\ job[h].op = "reconcile"
  /\ IF Found(h) \in Modes THEN Conclude(h, Fresh, Found(h)) ELSE Leave(h)

\* bootstrap: keep a valid stable record, adopt a stable runtime, or move the
\* vendor default to gamepad; anything else is refused after five seconds.
CheckBootstrap(h) ==
  /\ job[h].op = "bootstrap"
  /\ \/ Found(h) \in Modes /\ file.mode = Found(h) /\ Leave(h)
     \/ Found(h) \in Modes /\ file.mode # Found(h) /\ Conclude(h, Fresh, Found(h))
     \/ /\ Found(h) = "default"
        /\ issued' = Fresh
        /\ Claim(h, Fresh, "gamepad", "default")
        /\ UNCHANGED <<drift, budget>>
     \/ Found(h) = "none" /\ Leave(h)

\* Deliberate bug: recover whatever generation is current.
CheckRecoverUntagged(h) ==
  /\ job[h].op = "recover"
  /\ \/ Found(h) = job[h].goal /\ Conclude(h, Fresh, job[h].goal)
     \/ /\ Found(h) # job[h].goal
        /\ Claim(h, job[h].lease, job[h].goal, "none")
        /\ UNCHANGED <<issued, drift, budget>>

\* Deliberate bug: draw the replacement token before the target is reached.
CheckRecoverEarlyToken(h) ==
  /\ job[h].op = "recover"
  /\ \/ file.token # job[h].lease /\ Leave(h)
     \/ /\ file.token = job[h].lease
        /\ issued' = Fresh
        /\ Claim(h, Fresh, job[h].goal, "none")
        /\ UNCHANGED <<drift, budget>>

\* recover_token keeps the journal's token until the target is stable.
CheckRecover(h) ==
  LET lease == job[h].lease
      goal  == job[h].goal
  IN /\ job[h].op = "recover"
     /\ \/ file.token # lease /\ Leave(h)       \* superseded or unstable
        \/ file.token = lease /\ Found(h) = goal /\ Conclude(h, Fresh, goal)
        \/ /\ file.token = lease /\ Found(h) # goal
           /\ Claim(h, lease, goal, "none")
           /\ UNCHANGED <<issued, drift, budget>>

\* Deliberate bug: repair an incomplete generation whoever it belongs to.
CheckRestoreUntagged(h) ==
  /\ job[h].op = "restore"
  /\ file.mode \in {"transitioning", "unknown"}
  /\ issued' = Fresh
  /\ Claim(h, Fresh, job[h].goal, "none")
  /\ UNCHANGED <<drift, budget>>

\* restore_token TOKEN gamepad TARGET: every path replaces the token first.
CheckRestore(h) ==
  LET goal == job[h].goal
  IN /\ job[h].op = "restore"
     /\ \/ file.token # job[h].lease /\ Leave(h)
        \/ /\ file.token = job[h].lease
           /\ file.mode \in {"transitioning", "unknown"}
           /\ issued' = Fresh
           /\ Claim(h, Fresh, goal, "none")
           /\ UNCHANGED <<drift, budget>>
        \/ /\ file.token = job[h].lease
           /\ file.mode \in Modes
           /\ \/ Found(h) \notin Modes /\ Conclude(h, Fresh, "unknown")
              \/ /\ Found(h) \in Modes
                 /\ IF file.mode = "gamepad" /\ Found(h) = "gamepad" /\ goal # "gamepad"
                    THEN ClaimTransition(h, goal)
                    ELSE Conclude(h, Fresh, Found(h))

Check(h) ==
  /\ pc[h] = "deciding"
  /\ \/ CheckTransition(h) \/ CheckReconcile(h) \/ CheckBootstrap(h)
     \/ CheckRecover(h) \/ CheckRestore(h)
  /\ UNCHANGED <<keyboard, profile, targets, late, receipts, held>>

\* The state file cannot be read or written, or no token drawn: exit, untouched.
CheckFails(h) ==
  /\ pc[h] = "deciding"
  /\ Fault /\ Exit(h) /\ NoWrite
  /\ UNCHANGED <<keyboard, profile, targets, late, issued, receipts, held>>

\* acquire prints its receipt before the first D-Bus mutation.
SendReceipt(h) ==
  /\ pc[h] = "receipt"
  /\ receipts' = receipts \cup {[token |-> job[h].token, previous |-> job[h].prior]}
  /\ Goto(h, "entering")
  /\ UNCHANGED <<job, keyboard, file, profile, targets, late, issued, retired,
                 held, drift, budget>>

\* The supervisor closed the pipe: give the claim back and mutate nothing.
ReceiptRefused(h) ==
  /\ pc[h] = "receipt"
  /\ \/ Publish(job[h].token, job[h].prior) /\ UNCHANGED budget
     \/ WriteFault /\ Write(job[h].token, "unknown") /\ UNCHANGED drift
     \/ WriteFault /\ NoWrite
  /\ Exit(h)
  /\ UNCHANGED <<keyboard, profile, targets, late, issued, receipts, held>>

-----------------------------------------------------------------------------
(* apply_profile_targets_raw: snapshot, detach, stop, load, attach *)

\* Read the exact entry snapshot and probe force feedback; no mutation yet.
Snapshot(h) ==
  /\ pc[h] = "entering"
  /\ \/ /\ profile # "absent"
        /\ job' = [job EXCEPT ![h] = [@ EXCEPT !.entry = ip]]
        /\ calls' = [calls EXCEPT ![h] = ApplyCalls(job[h].goal)]
        /\ pc' = [pc EXCEPT ![h] = "applying"]
        /\ UNCHANGED budget
     \/ /\ Fault \/ (profile = "absent" /\ UNCHANGED budget)
        /\ pc' = [pc EXCEPT ![h] = "failed"]
        /\ UNCHANGED <<job, calls>>
  /\ UNCHANGED <<lock, keyboard, file, profile, targets, late, issued, receipts,
                 retired, held, drift>>

Calling(h) == pc[h] \in {"applying", "undoing"}

\* The head call took effect and busctl reported success.  A completed undo
\* still reports the failure of the apply it undid.
CallDone(h) ==
  /\ Calling(h) /\ profile # "absent"
  /\ Effect(Head(calls[h])) /\ held' = Exact(profile', targets')
  /\ calls' = [calls EXCEPT ![h] = Tail(@)]
  /\ pc' = [pc EXCEPT ![h] = IF Tail(calls[h]) # <<>> THEN @
                             ELSE IF @ = "applying" THEN "applied" ELSE "failed"]
  /\ UNCHANGED <<lock, job, keyboard, file, late, issued, receipts, retired,
                 drift, budget>>

\* A call that its client gave up on did happen, did not, or is still queued.
Abandoned(c) ==
  \/ profile # "absent" /\ Effect(c) /\ UNCHANGED late
  \/ UNCHANGED <<profile, targets, late>>
  \/ profile # "absent" /\ late' = late \cup {c} /\ UNCHANGED ip

\* busctl failed or timed out.  Applying: restore the entry snapshot.  Undoing:
\* the restore itself failed and its remaining calls are skipped.
CallFails(h) ==
  /\ Calling(h)
  /\ Fault \/ (profile = "absent" /\ UNCHANGED budget)
  /\ Abandoned(Head(calls[h])) /\ held' = Exact(profile', targets')
  /\ IF pc[h] = "applying"
     THEN /\ calls' = [calls EXCEPT ![h] = UndoCalls(job[h].entry[1], job[h].entry[2])]
          /\ pc' = [pc EXCEPT ![h] = "undoing"]
     ELSE /\ calls' = [calls EXCEPT ![h] = <<>>]
          /\ pc' = [pc EXCEPT ![h] = "failed"]
  /\ UNCHANGED <<lock, job, keyboard, file, issued, receipts, retired, drift>>

-----------------------------------------------------------------------------
(* wait_mode and the publication of the outcome *)

\* What the state file says once the runtime is where this round wanted it:
\* recover only now draws its replacement token; a rolled-back bootstrap has no
\* managed mode to publish.
SettledToken(h) == IF job[h].op = "recover" THEN Fresh ELSE job[h].token

\* Deliberate bug: publish the vendor default as if it were a managed mode.
SettledModeRaw(h) == job[h].goal

SettledMode(h)  == IF job[h].goal = "default" THEN "unknown" ELSE job[h].goal

PublishSettled(h) ==
  /\ Publish(SettledToken(h), SettledMode(h))
  /\ issued' = IF job[h].op = "recover" THEN Fresh ELSE issued
  /\ Exit(h)

\* Deliberate bug: believe the calls' exit status, do not poll the runtime.
PollSkipped(h) ==
  /\ pc[h] = "applied"
  /\ Goto(h, "polled")
  /\ UNCHANGED <<job, keyboard, file, profile, targets, late, issued, receipts, retired,
                 held, drift, budget>>

\* wait_mode and wait_default: three equal consecutive polls, the last of which is
\* this step, or too many others.
Poll(h) ==
  /\ pc[h] = "applied"
  /\ \/ At(job[h].goal) /\ Goto(h, "polled") /\ UNCHANGED budget
     \/ Goto(h, "failed") /\ ((~At(job[h].goal) /\ UNCHANGED budget) \/ Fault)
  /\ UNCHANGED <<job, keyboard, file, profile, targets, late, issued, receipts, retired,
                 held, drift>>

\* Then one rename.  It may fail, which leaves the claim standing (a failed
\* publication of a rollback tries "unknown").
Settle(h) ==
  /\ pc[h] = "polled"
  /\ \/ PublishSettled(h) /\ UNCHANGED budget
     \/ /\ WriteFault /\ Exit(h)
        /\ \/ UNCHANGED <<file, retired>>
           \/ job[h].round = "back" /\ Write(job[h].token, "unknown")
        /\ UNCHANGED <<issued, drift>>
  /\ UNCHANGED <<keyboard, profile, targets, late, receipts, held>>

CanRollBack(h) == job[h].round = "forward" /\ job[h].prior # "none"

\* Deliberate bug: trust the undo instead of polling for the prior mode.
RollBackUnpolled(h) ==
  /\ pc[h] = "failed" /\ CanRollBack(h)
  /\ Publish(job[h].token, IF job[h].prior = "default" THEN "unknown"
                                                      ELSE job[h].prior)
  /\ Exit(h)
  /\ UNCHANGED <<keyboard, profile, targets, late, issued, receipts, held, budget>>

\* The undo may already have brought the prior state back, which is polled for;
\* otherwise apply it.
RollBack(h) ==
  /\ pc[h] = "failed" /\ CanRollBack(h)
  /\ job' = [job EXCEPT ![h] = [@ EXCEPT !.goal = job[h].prior, !.round = "back"]]
  /\ \/ At(job[h].prior) /\ Goto(h, "polled") /\ UNCHANGED budget
     \/ Goto(h, "entering") /\ ((~At(job[h].prior) /\ UNCHANGED budget) \/ Fault)
  /\ NoWrite
  /\ UNCHANGED <<keyboard, profile, targets, late, issued, receipts, held>>

\* Deliberate bug: return the failure without publishing it.
GiveUpSilently(h) ==
  /\ pc[h] = "failed" /\ ~CanRollBack(h)
  /\ Exit(h)
  /\ UNCHANGED <<keyboard, file, profile, targets, late, issued, receipts, retired,
                 held, drift, budget>>

\* Nothing more to try: publish "unknown" under the claim, if that can be written.
GiveUp(h) ==
  /\ pc[h] = "failed" /\ ~CanRollBack(h)
  /\ \/ Write(job[h].token, "unknown") /\ UNCHANGED budget
     \/ WriteFault /\ UNCHANGED <<file, retired>>
  /\ Exit(h)
  /\ UNCHANGED <<keyboard, profile, targets, late, issued, receipts, held, drift>>

-----------------------------------------------------------------------------
(* Kills, the keyboard, and InputPlumber on its own *)

\* Deliberate bug: descriptor 9 is closed in the children.
KillDroppingFlock(h) ==
  /\ pc[h] \notin {"idle", "orphan"}
  /\ budget.kills < MaxKills
  /\ budget' = [budget EXCEPT !.kills = @ + 1]
  /\ IF Calling(h)
     THEN /\ pc' = [pc EXCEPT ![h] = "orphan"]
          /\ calls' = [calls EXCEPT ![h] = <<Head(@)>>]
          /\ lock' = NoOne /\ UNCHANGED job
     ELSE Exit(h)
  /\ UNCHANGED <<keyboard, file, profile, targets, late, issued, receipts,
                 retired, held, drift>>

\* SIGKILL or SIGTERM.  An in-flight busctl keeps descriptor 9, hence the flock.
Kill(h) ==
  /\ pc[h] \notin {"idle", "orphan"}
  /\ budget.kills < MaxKills
  /\ budget' = [budget EXCEPT !.kills = @ + 1]
  /\ IF Calling(h)
     THEN /\ pc' = [pc EXCEPT ![h] = "orphan"]
          /\ calls' = [calls EXCEPT ![h] = <<Head(@)>>]
          /\ UNCHANGED <<lock, job>>
     ELSE Exit(h)
  /\ UNCHANGED <<keyboard, file, profile, targets, late, issued, receipts,
                 retired, held, drift>>

\* Deliberate bug: busctl runs without timeout(1) and never returns.
OrphanHangs(h) == FALSE /\ pc[h] = "orphan" /\ UNCHANGED vars

\* The orphaned call ends, within timeout -k 0.5s 0.75s.
OrphanEnds(h) ==
  /\ pc[h] = "orphan"
  /\ Abandoned(Head(calls[h])) /\ held' = Exact(profile', targets')
  /\ calls' = [calls EXCEPT ![h] = <<>>]
  /\ pc' = [pc EXCEPT ![h] = "idle"]
  /\ lock' = NoOne
  /\ job' = [job EXCEPT ![h] = NewJob("reconcile", 0, "none")]
  /\ UNCHANGED <<keyboard, file, issued, receipts, retired, drift, budget>>

\* Deliberate bug: read the state file without the shared flock.
KeyboardAsksUnlocked ==
  /\ keyboard = "idle"
  /\ keyboard' = IF file.mode = "joymouse" THEN "allowed" ELSE "refused"
  /\ UNCHANGED <<pc, job, calls, lock, file, profile, targets, late, issued,
                 receipts, retired, held, drift, budget>>

\* joymouse_haptic_permission: a shared flock held while the actuator is driven.
KeyboardAsks ==
  /\ keyboard = "idle" /\ lock = NoOne
  /\ keyboard' = IF file.mode = "joymouse" THEN "allowed" ELSE "refused"
  /\ UNCHANGED <<pc, job, calls, lock, file, profile, targets, late, issued,
                 receipts, retired, held, drift, budget>>

KeyboardDone ==
  /\ keyboard # "idle"
  /\ keyboard' = "idle"
  /\ UNCHANGED <<pc, job, calls, lock, file, profile, targets, late, issued,
                 receipts, retired, held, drift, budget>>

\* InputPlumber moves at nobody's bidding.
Moves == held' = held \cup Exact(profile', targets') /\ drift' = TRUE

Restart ==
  /\ budget.restarts < MaxRestarts
  /\ budget' = [budget EXCEPT !.restarts = @ + 1]
  /\ profile' = "absent" /\ targets' = "absent"
  /\ late' = {} /\ Moves
  /\ UNCHANGED <<pc, job, calls, lock, keyboard, file, issued, receipts, retired>>

\* The composite device appears, with the vendor default.
Ready ==
  /\ profile = "absent"
  /\ profile' = "default" /\ targets' = "default"
  /\ Moves
  /\ UNCHANGED <<pc, job, calls, lock, keyboard, file, late, issued, receipts,
                 retired, budget>>

LateCallLands ==
  /\ profile # "absent"
  /\ \E c \in late : Effect(c) /\ late' = late \ {c}
  /\ Moves
  /\ UNCHANGED <<pc, job, calls, lock, keyboard, file, issued, receipts, retired,
                 budget>>

-----------------------------------------------------------------------------
Step(h) == \/ Lock(h) \/ LockBusy(h) \/ Look(h) \/ Check(h) \/ CheckFails(h)
           \/ SendReceipt(h) \/ ReceiptRefused(h)
           \/ Snapshot(h) \/ CallDone(h) \/ CallFails(h)
           \/ Poll(h) \/ Settle(h) \/ RollBack(h) \/ GiveUp(h) \/ OrphanEnds(h)

Next == \/ \E h \in Helpers : Start(h) \/ Step(h) \/ Kill(h)
        \/ KeyboardAsks \/ KeyboardDone
        \/ Restart \/ Ready \/ LateCallLands

Spec == Init /\ [][Next]_vars

\* Every process that is not killed keeps running, every busctl ends, the
\* keyboard's pulse ends and systemd brings InputPlumber back.
Fairness == /\ \A h \in Helpers : WF_vars(Step(h)) /\ SF_vars(Lock(h))
            /\ WF_vars(KeyboardDone) /\ WF_vars(Ready)

FairSpec == Spec /\ Fairness

-----------------------------------------------------------------------------
(* Safety *)

InFlight(h) == Calling(h) \/ pc[h] = "orphan"

\* One writer.  Whoever has a D-Bus mutation in flight owns the flock, and the
\* orphaned busctl of a killed helper still does: no second helper can start to
\* read or mutate InputPlumber underneath it.
OneWriter == \A h \in Helpers : InFlight(h) => lock = h

\* While a mutation is in flight, the state file names the generation of the
\* process that makes it and says "transitioning": nobody who reads the file
\* under the flock can take a half-built device for a settled mode.
MutationIsAnnounced ==
  \A h \in Helpers : InFlight(h) => file = [token |-> job[h].token,
                                           mode |-> "transitioning"]

\* A published mode is the mode InputPlumber is in, unless InputPlumber left it by
\* itself: after the publication, or between the poll that found it in force and
\* the rename.  No rollback, recovery or conclusion publishes a mode that was not
\* in force at any moment since the helper took the flock and made its last call.
PublishedModeIsReal == file.mode \in Modes /\ ~drift => At(file.mode)

\* No ABA: once the state file has moved on from a token, no helper, however old
\* the lease it was started with, puts that token back.
RetiredTokensStayRetired == file.token \notin retired

\* The keyboard drives the actuator only while the pad really is a settled mouse
\* and no helper is rebuilding the devices.
HapticsOnlyWhenSettled ==
  keyboard = "allowed" => /\ lock = NoOne
                          /\ drift \/ At("joymouse")

-----------------------------------------------------------------------------
(* What a step may never do *)

\* A command started with a lease only ever replaces its own generation: it does
\* not touch the state file of a newer Guide or Panel choice.
OldLeaseReplacesNothing ==
  [][\A h \in Helpers :
       job[h].op \in LeaseOps /\ lock = h /\ file' # file
         => file.token \in {job[h].lease, job[h].token}]_vars

\* recover-token keeps the journal's token authoritative until the requested
\* mode was really there, so that a timeout or a kill at any point leaves the
\* same token retryable.
RecoveryKeepsToken ==
  [][\A h \in Helpers :
       job[h].op = "recover" /\ lock = h /\ file.token = job[h].lease
         => \/ file'.token = file.token
            \/ file'.mode = job[h].goal /\ job[h].goal \in held]_vars

\* A lease that was delivered by a receipt was not yet acted upon: when acquire
\* starts its first mutation, its receipt is out.
ReceiptBeforeMutation ==
  \A h \in Helpers :
    job[h].op = "acquire" /\ InFlight(h)
      => [token |-> job[h].token, previous |-> job[h].prior] \in receipts

\* A claim outlives its helper only if a helper was killed or an outcome could not
\* be written.  Whichever D-Bus call or poll fails, and InputPlumber restarting
\* under the helper included, the end is a published mode or "unknown".
ClaimsAreResolved ==
  file.mode = "transitioning" /\ lock = NoOne
    => budget.kills > 0 \/ budget.writes > 0

-----------------------------------------------------------------------------
(* Refinement *)

Lease == INSTANCE InputLease WITH
  Devices <- Profiles \X Targets, record <- file, device <- ip,
  drawn <- 0..issued, found <- held, wandered <- drift

\* With its processes, its flock and its D-Bus calls hidden, the helper is the
\* lease its callers are promised: InputPlumber changes at a command's bidding
\* only under an announcement, a mode is published only after it was seen in
\* force, and a new generation bears a token that nobody has seen.
ImplementsLease == Lease!LeaseSpec

-----------------------------------------------------------------------------
(* Liveness *)

\* The flock never stays with one process: every helper that took it publishes,
\* gives up or is killed, and a killed helper's busctl ends too.
FlockIsReleased == \A h \in Helpers : lock = h ~> lock # h

=============================================================================

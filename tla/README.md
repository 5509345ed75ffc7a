# Pocket DS Linux kit: specifications

TLA+ models, model-checking configurations and proofs for the parts of the
Pocket DS Linux kit whose correctness depends on order: who may change the
controller's mode, what happens when the process that changed it dies, and how
an interrupted operation is finished by the next one.

Every definition is translated from the code; `PROJECT.json` maps each one to
the lines it stands for and lists runs, mutants, hazards, findings and theorems.

## 1. The system

The kit is a set of small programs around third-party daemons (InputPlumber,
logind, KWin, PowerDevil, TuneD, systemd). They share no memory; they meet in
files, flocks, D-Bus objects and systemd units.

| Component | State it keeps | Operations | Meets |
| --- | --- | --- | --- |
| **Input mode leases** `components/emulation/pocketds-input-mode` | flock `/run/pocketds-input-mode.lock`; state file `pds-input-v1 TOKEN MODE` | `set`, `toggle`, `acquire`, `restore-token`, `recover-token`, `reconcile`, `bootstrap`, `status` | InputPlumber (profile, targets, force feedback), every caller below |
| **Keyboard haptics** `components/keyboard/pocketds-keyboard.py` | shared flock while it rumbles | `joymouse_haptic_permission` | input mode's lock and state file |
| **Game session** `components/emulation/pocketds-game-session.py` | session flock, journal `session.json`, phase, receipt, power marker, systemd scope | launch, stale recovery, acquire, boost, start, supervise, stop, restore; `--join`, `--probe`, `--request-stop` | input mode, `panelctl power`, systemd, Flatpak |
| **Controller test** `components/controller-test` | lease, deadline, journal = gate, input-mode flock | `begin`, `poll`, `end`, tick, stop, `--recover` | InputPlumber's InterceptMode, help page, gate readers |
| **Mode listener** `components/inputplumber/pocketds-mode-listener.py` | two chords, reset timer, exit confirmation | InputEvent handlers | gate, input mode, game session |
| **Light standby** `components/light-standby` | `light-standby.json` (profile phase, power-off deadline), sleep-delay inhibitor | lid open/close, poll, prepare sleep, power-off | logind, KWin DPMS, panelctl, lid mode |
| **Lid mode, suspend guards** `components/system` | policy and one-shot authorisation files | choose lid owner; authorise and consume a suspend | logind hooks, light standby |
| **Brightness** `components/brightness` | levels, pending writes | keys, PowerDevil signals | back-lights |
| **Touchpad** `components/touchpad` | pressed buttons, reader | grab, gestures, mode changes | evdev, input mode's file |
| **Keyboard visibility, voice** `components/keyboard` | visibility decision, model files | focus events, artefact activation | KWin, AT-SPI |
| **Fan, power profiles** `components/fan` | TuneD profile, idle policy | profile requests | TuneD |
| **Panel** `components/control-panel` | QML view state | `panelctl` verbs | everything, through commands |
| **Installers, update transactions** `scripts/` | backups, manifests | install, roll back, resume | systemd units, files |

`PROJECT.json` lists every component, also those not modelled, with the reason.

The hard behaviours are the same everywhere. Commands are separate processes
that may be killed between any two steps; a killed command leaves children
(busctl, systemd-run, sudo) whose effects arrive later; InputPlumber restarts
with a new bus owner and its own default; several actors (Guide key, Panel,
game, boot) act at once; readers look at state files without a lock; and what
was checked by one call is acted on by another.

What makes the modelled components correct:

* *input mode*: one writer; what is published was in force, and still is unless
  InputPlumber left it by itself; tokens never match by accident; an old lease overwrites nothing newer; an interrupted
  recovery can be repeated; the flock is always given back;
* *game session*: whatever a session changed is in its journal until it has
  been undone, across kills of the session and of the one that recovers it;
  nothing is undone under a running game; a stop is always honoured;
* *controller test*: an intercepted controller is always covered by a shut gate
  and a usable receipt; nothing stays pressed; no input helper works during a
  lease; the gate opens again once controls and outputs have come to rest;
* *light standby*: the panels follow the lid; a lowered profile is never
  forgotten, and a choice that is there when the service looks at the profile is
  kept (between that look and its command it is not); a power-off deadline does
  not survive a handler that saw a reason against it and came to its end; sleep
  is held up, but not for ever;
* *mode listener*: a tap acts at most once and only alone; a chord acts once;
  no half of a gesture stays;
* *update transactions*: what they report is true of every target they could
  read; the last one begun can be undone, and all of them in reverse order.

## 2. Modules

| Module | Models |
| --- | --- |
| `InputMode` | the input helper, its busctl children, InputPlumber and the keyboard's reader |
| `InputLease` | what that helper promises: a record, a device, who may change them and when |
| `InputModeProofs`, `InputClaimProofs`, `InputLeaseProofs` | the proofs about it |
| `GameSession`, `GameSessionProofs` | the game supervisor (native back end), its journal, helper, scope and power profile |
| `ControllerTest`, `ControllerTestProofs` | the controller-test service, its recovery, the gate, InputPlumber's interception |
| `LightStandby`, `LightStandbyProofs` | the lid daemon, its file, panels, profile, deadline and sleep inhibitor, and the world around it |
| `ModeListener`, `ModeListenerProofs` | the chords of Menu, View and '=', their timers and the gate |
| `UiUpdate`, `UiUpdateProofs` | staging, applying and rolling back a set of files |
| `MC*` | small instances: model values, symmetry |

### InputMode

Each helper process has a program counter `pc`, a `job` (command, lease,
goal, what it saw, its token) and the list of D-Bus `calls` still to make, of
which the head is in flight. `file` is the state file, `lock` the flock,
`profile`/`targets` InputPlumber. The actions follow the script:

* `Start`, `Lock`, `LockBusy`: the `case` at the end and
  `acquire_transition_lock` with its blocking and bounded policies;
* `Look`: the runtime is read; `CheckTransition`, `CheckReconcile`,
  `CheckBootstrap`, `CheckRecover`, `CheckRestore`: from what it found to the
  command's first effect, early exits included;
* `SendReceipt`, `ReceiptRefused`: the receipt of `acquire`;
* `Snapshot`, `CallDone`, `CallFails`: `apply_profile_targets_raw` call by call,
  and its undo by `restore_detached_snapshot_raw`;
* `Poll`: `wait_mode`; `Settle`, `RollBack`, `GiveUp`: the three ways to
  conclude, each by a rename that may fail;
* `Kill`, `OrphanEnds`: SIGKILL of the helper leaves its busctl, which has
  inherited descriptor 9 and keeps the flock until `timeout -k` ends it;
* `Restart`, `Ready`, `LateCallLands`: InputPlumber, external. A call whose
  client gave up may be applied later.

Tokens are numbers drawn in order. The code draws UUIDs; what is kept of them is
that a new one was never seen before. `retired`, `held`, `drift` and `receipts` are
history variables used by properties only, except that `receipts` also
enumerates the leases a caller can hold.

What was read and what is written are separate steps, so InputPlumber may move
between observation and claim, and between the last poll and the rename. Two
history variables say what can still be promised: `held` holds the modes
InputPlumber was exactly in since the flock was taken or a call last acted, and
`drift` becomes true when InputPlumber moves by itself (a restart, a default
that appears, a call its client had given up) or when what is published was
seen and left again, and false when what is published is in force.

`InputLease` is the same helper with processes, flock and D-Bus calls hidden:
a record (token, mode), the device, the tokens drawn, the modes found in the
present turn, and whether the device left the published mode by itself. `Turn`
begins a turn; `Announce` comes before any `Rebuild`; `Settled` publishes a mode
only if the device was in it after the last rebuilding of this turn; `Doubt`
says that nobody knows; `Wander` is InputPlumber alone. `InputMode` instantiates
it with `record <- file`, `device <- <<profile, targets>>`,
`drawn <- 0..issued`, `found <- held`, `wandered <- drift`.

### GameSession

Each session is one supervisor, launched at most once. `pc` follows `run()`:
lock, preflight, stale recovery (compare and restore the profile, journal it,
recover the input, unlink), acquire, boost, launch, start, run, stop, restore,
release. `mem` is what the object remembers, `rec` the journal. The acquire
helper runs concurrently and its states are the ones `InputMode` gives it: flock
taken, receipt sent, mutated, ended. `Recovered` is `recover-token` as
`InputMode` shows it to be: the lease matches or nothing happens, which is a
success for a settled pad and may be reported as a failure for one that is not.
A write of the record can fail before or after the rename. A killed supervisor leaves its
helper, its systemd-run client, and any command it was waiting for (`orphans`).
The time between the start of that client and the registration of its scope is
a state of `unit` (`"client"`).

Only the native back end is modelled. The Flatpak back end (proof of quiescence
by `flatpak ps`), `--join`, `--probe` and the process inspection of
`--request-stop` are not.

### ControllerTest

`role` says which process runs: the service, one of systemd's recoveries
(before a start, after a failure, after a stop) or none (`"down"`); they never
overlap. After a failure systemd starts the service again; after a stop it runs
`ExecStopPost` once, and whether that succeeded or not nothing runs until
`Started`. `step` is where the process is between two calls that others can get
between: prepare (the profile is read), adopt (owner, targets and sources, read
by calls of their own), intercept, restore, reopen. Requests arrive from any page at any time, so a late `poll`, an `end`
that overtakes its `begin` and a second page are all included. Deadlines and the
0.3 s of quiet are flags that time may set. InputPlumber restarts, another
interface takes or frees the controller, controls are pressed and let go. The
input helper takes the shared lock and changes the profile, or fails and leaves
any configuration and perhaps a call behind (`pending`), which `CallLands`
carries out later, whoever has the lock then: `InputMode`'s `LateCallLands` seen
from here. `shifted` is the history of that. The duration of the
recovery's wait (8 s) enters by one guard: it runs out only while a control is
held or an output is not neutral.

### LightStandby

One GLib main loop: `pc` is `"idle"` between handlers, else the next call of the
handler (`look`, `ask` for the lid mode, `keep`, `sync`, `final`, `poweroff` of a steady tick; `claim`,
`blank`, `recheck`, `own`, `lower`, `lowered` of `close`; `clear`, `wake`,
`restore`, `raise`, `raised` of `open`; `drop`, `dim` of a close in another lid
mode; `prepare`, `judge` of a sleep). `d` is the LidDaemon object, `store` the
file, `fd` the inhibitor. Lid, charger, setting, lid mode, user, a game and
logind act between any two calls. `Crash` leaves a command behind (`late`),
`PowerCut` and `BootUp` change the boot id a deadline belongs to.

Abstracted: a deadline is a flag that boot time has passed it; the two panels
are one, `"fading"` while KWin's transition runs; the five-second back-off of
the inhibitor is the wait for the next tick; the generation number of a
preparation is implied by the removal of its source; the lid mode a steady tick
uses may be the sample of the tick before. `wanted` is a history variable: what
the user and the game want, or `"any"` where the code cannot tell a powersave it
set from one somebody chose, and where it overwrites a choice: between its look
at the profile and its command, and by a command that outlived its four seconds.
`broken` is another: a handler saw an open lid, another lid mode, the charger or
the setting "never" since the deadline was set, and has come to its end. `lost` marks a process that died with dark panels
and no file: its successor sees an open lid and nothing to undo.

### ModeListener

`inbox` holds InputPlumber's signals not yet dispatched; `pc` is the handler
between two commands that take time (asking for a game, for the mode). While it
waits, keys, gate and timers of the world move on. `held`, `exit`, `confirm`,
`latched`, `reset` are the module's globals. The gate is a flag that
`ControllerTest` explains; how long it stays shut is bounded from below by what
an idle loop needs to see it (50 ms), while a handler may wait for a command
(up to 1 s) all through a test: `excused` marks that case and a handler that
broke off in the middle of View's press. `fresh` and `apart` are history: since
the last switch of the mode (the last prompt) both keys of the chord were let go,
or a timeout, a test or a broken-off press of View set the chord back. Only releases are lost: a lost press is
no tap. The 10 s and 5 s timers may fire whenever the loop is idle. The mode and
the game the commands tell about may be anything.

### UiUpdate

`job` is the operation that holds the flock: the artifacts `left` and `done`,
and `errors` of the automatic rollback. `Put`, `Inspect`, `Check`, `Mark` are
`apply`; `Unmark`, `Restore`, `Recheck`, `Confirm` its automatic rollback;
`Take`, `Restore`, `Recheck`, `Finish` the operator's. A write fails before its
rename (perhaps leaving its temporary file, `temp`) or after it (the fsync); a
marker likewise; a read may fail wherever one is made. `Inspect` is the look at a
target whose replacement failed: if that look fails too, the target is left out
of the automatic rollback (`unseen`). `Kill` may strike anywhere; `Edit` is any
other program that writes a target. Contents are versions, and nothing keeps
them apart: a transaction brings any version for any artifact, so also what
another brought or what the target held before (a downgrade), and others write
any version too. `stack`, `begun`, `base` and `orderly` are history: which
transactions were begun on top of which, from what state, and whether they were
undone the last one first. Staging is one step, since it only reads targets one
by one. Not included: a privileged `mv` that takes effect after its 20 s.

## 3. What is checked

| Run | Instance | Shows |
| --- | --- | --- |
| `input_mode` | 2 concurrent helpers, 4 commands, 1 kill, 1 fault, 1 restart | the safety properties of the input helper, and that it implements `InputLease` |
| `input_mode_live` | 2 commands, else the same, fairness | `FlockIsReleased` |
| `game_session` | 2 launches, 2 kills; 1 signal, fault and user choice | the safety properties of the supervisor, also when a recovery is killed |
| `game_session_live` | 2 launches, 2 signals, 1 fault, fairness | `StopIsHonoured` |
| `controller_test` | 2 pages, 3 requests or helpers, 2 presses, 1 crash or stop, 1 fault, 1 upset, fairness | the safety properties of the controller test, and `GateReopens` |
| `light_standby` | 2 lid movements, 2 acts of user, charger or game, 1 fault, 1 kill or power cut, 2 boots, 2 power-off times | `WantedProfileIsKept`, `DeadlineIsCurrent` |
| `light_standby_live` | 2 lid movements, 1 sleep or relit panel, 1 fault, 1 kill, fairness | `LidIsFollowed`, `SleepGoesAhead`, `DelayIsTaken` |
| `mode_listener` | 4 presses, 1 repeated sample, 1 controller test, 1 lost release, failing command or restart, fairness | `SinglesAreTaps`, `ChordsActOnce`, `GestureHeals` |
| `ui_update` | 2 transactions, 2 files, 3 versions, 2 failures or kills, 1 edit by somebody else | `ReportIsTrue`, `UpdatesCanBeUndone` |
| `game_session_receipt`, `game_session_power`, `controller_test_stray` | minimal | the three findings, below |

**Why the bounds are enough to be interesting.** Two helpers are the smallest
number that contend for the flock; with four commands a lease can be acquired,
superseded by a choice of the user, and used twice afterwards, with a kill, a
failing call and a restart anywhere. Two launches give a dead predecessor and a
successor, and a second kill strikes that successor in the middle of its
recovery: since the invariants speak of the record it leaves, a third launch
adds nothing they could see. Two pages are enough for one to hold the lease and
one to be refused. Two movements of the lid are a close and a fast reopen, at
any call of a handler; two boots give a deadline of an earlier boot. Four
presses make both chords, or one twice. Two transactions nest or overtake each
other; of the two files one is new (undone by removal) and the other, the last,
needs sudo, so that a failure there finds the first replaced; three versions are
the installed one, an update and a second update, or a return to the first; two
failures are a failed apply with a failing rollback of it, or a replacement that
failed late and a target that then cannot be read. Every action of each model
fires in its runs, and for every property there is a change of the model, the
kind of slip the code could contain, that the same run rejects. The passing runs have
between fifty thousand and five million distinct states.

**Deadlock** is not checked where the programs may really stop: every command
budget is finite, and a finished system has nothing left to do.

**Fairness.** `InputMode`: a helper that is not killed makes its next step
(bash, and every busctl under `timeout -k 0.5s 0.75s`), an orphaned busctl ends
for the same reason, InputPlumber is brought back by systemd, the keyboard's
pulse ends, and a helper blocked in flock(2) is eventually served.
`GameSession`: supervisors and helpers step; every wait in the code polls with a
timeout. The user, the game, kills and faults are never fair. `ControllerTest`:
the 60 Hz loop and the recovery step, time passes, and the input helper finishes
(all its calls have timeouts). That InputPlumber clears its outputs, that a held
control is let go and that somebody starts a stopped service is not assumed:
older InputPlumber leaves buttons asserted (comment at line 378), systemd does
not repeat a failed `ExecStopPost` after a stop, and gives a service up after
five starts in ten seconds (an alternative of `Stop`). `GateReopens` therefore
has controls and outputs at rest as its premise, and a service that is down as
an exception.
`LightStandby`: the GLib loop dispatches every ready source, so handlers, tick
and poll are weakly fair; signals and their debounce share the queue with them
and may be disabled meanwhile, hence strong fairness; systemd restarts the
service (`Restart=on-failure`), KWin ends its transitions, the four-second timer
fires. `ModeListener`: handlers end (each command has a timeout), signals are
dispatched, the reset timer fires. Users, lid, charger, games, sleep requests
and failures are never fair. `UiUpdate` states no fairness: it has no process
that must go on.

**Assumptions about the outside.** InputPlumber's calls are atomic and it
answers one sender in order; the flock of a killed process is released at once
except for inherited descriptors; rename is atomic; in `ControllerTest` a Set
that timed out has had its effect, or never has it, once a later read answers.

## 4. What the code does differently from its comments

* `game_session_receipt`: "The receipt is durable before the helper can complete
  its first InputPlumber mutation." The helper writes its receipt into a pipe
  and goes on; nothing waits for the supervisor's fsync. `InputMode` proves the
  part that holds: the receipt is *delivered* before the first mutation.
* `game_session_power`: "This is a compare-and-set policy". Compare and set are
  two commands; a choice between them is overwritten.
* `controller_test_stray`: "Never apply an old lease's intercept value to a
  replacement owner." The owner is checked by one call and the value written by
  another. The same window exists in `begin`: a restart between the record and
  the interception leaves the new instance intercepted while the next tick,
  seeing another owner, opens the gate; `GateCoversCapture` and `NoStuckOutput`
  therefore speak of the cases in which no value went astray (`strayed`).

Limits that the code accepts and the properties name: a game whose systemd-run
client was still starting when its supervisor was killed is invisible to the
next launch (`ghosts`); the acquire helper or a sudo command of a killed
supervisor may act later; a controller test whose profile or targets changed
under it waits until they change back or InputPlumber restarts (`GateReopens`
excludes it), and a stopped one whose only recovery failed leaves the gate shut
until somebody starts the service.

* Input mode: a call that timed out may be applied by InputPlumber at any later
  moment, also after the roll-back was verified, between a poll and the rename,
  or during somebody else's turn. Neither the flock nor three equal polls
  prevent that, and `PublishedModeIsReal` says what is left: nothing is published
  that was not in force in that turn. In `ControllerTest` the same call may land
  during a lease; `ConfigurationHolds` names it, and `check_capture` then keeps
  the service from restoring. A helper whose outcome cannot be written leaves
  its announcement behind, as a killed one does (`ClaimsAreResolved`).
* Light standby: the profile is looked at (679, 719) and commanded (684, 729) by
  separate calls; a choice that falls between them is overwritten, as is one that
  meets a command that outlived its four seconds. `WantedProfileIsKept` speaks of
  the choices the service finds at its look (`Ambiguous` leaves the others open).
* Light standby: a failed write in the steady branch of the tick raises out of
  the GLib callback, which ends the poll for good while the process lives
  (`d.ticking`); the two liveness properties about the lid hold while it polls.
  A lid closed over a game records the game's performance; the game's clean-up
  then sees powersave and gives up its claim; the opening puts performance back
  with nobody asking for it. The model contains the case and
  `WantedProfileIsKept` exempts it, as it does a powersave somebody chose while
  the lid was shut.
* Mode listener: the exit chord has no reset timer. A lost release of Menu or
  View leaves half of it held until that key is let go again, and the other key
  alone then prompts. A handler that waits for a command can oversleep a whole
  controller test (`excused`). A handler that fails between the two chords in
  View's press (a message or the exit command cannot be started) has not told the mode chord of it;
  View and '=' may then switch the mode a second time although View stayed down.
  It takes two faults and six presses, more than the run has; the proof of
  `ChordsActOnce` came upon it, and both properties about keys exempt it.
* Update transactions: the temporary file is created before the `try` that
  removes it, so a write that fails (a full disk) leaves it, and every later
  attempt under the same token fails at its exclusive creation. The comment "so
  the operator can retry instead of being stranded mid-rollback" (line 1039)
  holds once the file is removed by hand, and `UpdatesCanBeUndone` says exactly
  that. A target another installer writes between check and rename is
  overwritten (such targets are in `edited`).
* Update transactions: when a replacement fails after its rename and the target
  then cannot be read, the `except TransactionError: pass` of line 908 leaves it
  out of the automatic rollback. Line 963 still says "apply failed and was rolled
  back" with the payload in place. `ReportIsTrue` names this case (`unseen`);
  rolling the transaction back by hand undoes it.
* Update transactions: nothing orders rollbacks. With an update from A to B and a
  downgrade from B to A, rolling back the update first finds every target as it
  was before (A) and skips it, and rolling back the downgrade then restores B:
  both say ROLLED-BACK and the targets hold B. `UpdatesCanBeUndone` speaks of the
  last transaction begun, and of undoing them in reverse order.

## 5. What is proved

Every safety invariant and every action property of every passing run is a
theorem, for all values of the constants: any helpers, sessions, pages, files,
transactions and any number of kills, faults, presses or boots. What is assumed
of the constants is named in each module: marker values (`NoOne`, `NoPage`,
`"orphan"`, `"old"`...) are not identifiers, bounds are natural numbers
(`SessionBounds`, `TestBounds`, ...), the plan of an update is a non-empty
sequence that names each artifact once (`UpdateConstants`), the power-off times
include a longest one (`LongestAssumption`; the code has a fixed table), and there
is a first boot.

| Proofs | Theorems |
| --- | --- |
| `InputModeProofs` | `TypeOK`, `OneWriter`, `MutationIsAnnounced`, `RetiredTokensStayRetired`, `ReceiptBeforeMutation`; the action `OldLeaseReplacesNothing` |
| `InputLeaseProofs` | the refinement `ImplementsLease`; `PublishedModeIsReal`, `HapticsOnlyWhenSettled`; the action `RecoveryKeepsToken` |
| `InputClaimProofs` | `ClaimsAreResolved` |
| `GameSessionProofs` | `TypeOK`, `RecordIsValid`, `JournaledLeaseSurvives`, `GameIsJournaled`, `PowerIsJournaled`; the actions `PhasesAreAllowed`, `GameKeepsItsSettings` |
| `ControllerTestProofs` | `TypeOK`, `GateIsCurrent`, `GateCoversCapture`, `NoStuckOutput`, `ConfigurationHolds`; the action `ExpiredIsNotRevived` |
| `LightStandbyProofs` | `TypeOK`, `WantedProfileIsKept`, `DeadlineIsCurrent` |
| `ModeListenerProofs` | `TypeOK`, `ChordsActOnce`, `SinglesAreTaps` |
| `UiUpdateProofs` | `TypeOK`, `ReportIsTrue`, `UpdatesCanBeUndone` |

Hardly any of these is inductive. The invariants grow in layers, each with
lemmas for the kinds of step, an `Init` lemma and a step lemma; a property is
read off the layer it needs.

### InputMode

* `TypeInv` adds to `TypeOK` what its own preservation needs (`JobOK`): a
  helper with a call in flight has one left to make, and a job past its checks
  knows its goal. Without it `Head` of the call list has no type.
* `LeaseInv` is the protocol: whoever is past `locking` owns the flock
  (`LockOwned`), so at most one helper is there; from its claim on, the file
  carries that helper's token and says "transitioning" (`Claimed`); every token
  in the file or retired was issued, and the one in the file is not retired
  (`TokensAge`); a leasing helper beyond its receipt has delivered it
  (`ReceiptOut`); a recovery that works aims at the mode it was asked for and
  has nothing to roll back to (`RecoveryAims`).
* `SeenInv` (in `InputLeaseProofs`): what InputPlumber is in is counted
  (`Counted`), and the mode a helper is about to publish, decides from or would
  give back with its receipt was in force in its turn (`Seen`). It is why a
  refused receipt may republish the old mode without reading it again, and why a
  rename that comes after the last poll publishes nothing that was never there.
* `ClaimInv` (in `InputClaimProofs`): a claim has somebody at work on it, or a
  kill or a failed publication is on record.

`OneWriter` needs only `LockOwned`; `MutationIsAnnounced` is what `Claimed` says
of a call in flight; `RetiredTokensStayRetired` needs `TokensAge`, and
`TokensAge` in turn needs one owner, since two would retire each other's
token. `OldLeaseReplacesNothing` follows because only the flock's owner writes
the file (`OwnerWrites`), and its job says under which token;
`RecoveryKeepsToken` needs `SeenInv` as well, for the mode it ends with.

The refinement takes one lemma per kind of step: decisions announce, conclude,
doubt or are hidden (`CheckStep`); taking the flock is a turn (`TurnStep`);
calls rebuild, and `Claimed` says that they may (`CallStep`); outcomes, a refused
receipt among them, are published only when seen (`OutcomeStep`); InputPlumber
wanders (`WorldStep`).
`PublishedModeIsReal` is then proved of the lease alone (`LeaseIsTrue`), where it
is inductive, and carried back. `HapticsOnlyWhenSettled` follows from it: while
the keyboard shares the flock no helper is at work (`FreeFlock`).

### GameSession

The largest of the proofs: the journal outlives its writer, so the invariant
speaks of supervisors at every point of `run()` and of what the dead ones left.

* `Places` is `TypeOK` with what each place knows: the session lock has one
  holder, the supervisor that lives (`Lock`); what a supervisor remembers, the
  phase it is in and the state of its helper and unit go with where it is
  (`Sounds`); a stale recovery has a record (`Stales`); every token in force was
  drawn (`Drawn`). `PhasesAreAllowed` follows: `Enters` gives, for every place,
  the phases from which it is reached.
* `JournalInv` adds whose the record is: a supervisor with a lease finds none or
  its own, one that has written keeps it until the end, and its lease is the one
  remembered (`Owned`); and that it is well formed (`Shaped`). It gives `RecordIsValid`.
* Three layers stand on it side by side. `LeaseInv`: nobody names a token that
  was not drawn (`Tokened`) and an entry is unlinked only after its lease is no
  longer in force (`Freed`). `GameInv`: no client of systemd-run is left behind
  but by a ghost (`Parted`), and a record is undone only if its game cannot be
  running (`Absent`). `PowerInv`: the marker is written before the profile is
  raised and kept until it was lowered (`Raised`, `Marked`).
* `FenceInv` joins the first two: while a game runs, every recovery that is
  still to land carries an older lease than the one in force (`Fenced`), so it
  finds another token and does nothing. `GameKeepsItsSettings` is that, step by
  step; the acquire helper of a killed supervisor is exempted by the property
  itself.

### ControllerTest

`Place` says where the lock, the journal and the gate are at each step of the
service and of its recovery (`LeasePlace`, `RecoveryPlace`), that a service that
is down starts at the beginning (`DownPlace`), and that only a drained lease
counts its quiet time (`QuietDrains`). It carries `GateIsCurrent`
and is enough for `ExpiredIsNotRevived`. `Reach` then speaks of InputPlumber:
owners only get newer, so an owner equal to the recorded one is the very same
instance (`OwnersAge`), and a restore starts from outputs that have let go and
ends only by writing the value back (`HandsBack`), and from the read of the
profile on the configuration is what was read, unless something was carried out
late (`ReadHolds`). With these `GateCoversCapture` and `NoStuckOutput` are
inductive; `ConfigurationHolds` is the lock from `LeasePlace` and the
configuration from `ReadHolds`.

### LightStandby

`FileInv`: the file says what is in force and what a handler is in the middle
of (`Recorded`), and the handlers that command a profile or are about to power
off have it written (`Underway`). `ProfileInv` adds that nobody is known to want
powersave while something lowered is on record, and that what is about to be
commanded goes with the one profile that may be wanted (`Chosen`). `DeadlineInv`
adds where a handler may still be that has seen a reason against a deadline,
where the deadline is already gone, and that a handler about to power off goes by
one of this boot that has passed (`Seen`).

### ModeListener

`ChordInv` ties the chords to the history of the keys: where a handler is tells
what it works on (`Placed`); once the gate has been seen nothing is left of what
was held (`Rested`); a prompt, or a switch, keeps its latch until both keys were up
(`Prompted`, `Switched`). `SinglesAreTaps` needs more: the chords know of every
key that is down except for the signal in hand (`Known`), each held key was
tapped alone or a latch will swallow it (`Held`), and what was let go was tapped
alone (`Sent`).

### UiUpdate

`Phase` follows an apply artifact by artifact, with the targets of which it
cannot know (`Doubtful`), and gives `ReportIsTrue`. `UpdatesCanBeUndone` is about
transactions that nest or overtake each other. `UndoInv` says that the
transactions begun form a line (`Line`); that what one of them found is, for each
artifact, what the one below found or brought (`Chain`), and so with the last of
them and the targets (`Crest`); and that while all is in order every transaction
begun is on the line and the lowest found the base (`Grounded`). It speaks of
single steps along the line, so contents may come back. `Unwind` follows a
rollback through this, and `Excused` is the file in the way. A step falls under
one of five kinds (the files stay, or are written, a transaction leaves the line,
starts, or the line is cut by an edit), with one lemma per kind and layer.

### Not proved

Liveness and everything under fairness (`FlockIsReleased`, `StopIsHonoured`,
`GateReopens`, `LidIsFollowed`, `SleepGoesAhead`, `DelayIsTaken`,
`GestureHeals`) is out of the prover's reach and stays with TLC, on the instances
above. The three properties of section 4 are false. That the models are those of
the programs is a matter of reading; nothing here proves Python or bash.

## 6. Not modelled yet, and the order to do it

1. The helper that `GameSession` carries reduced to `InputLease`: its acquire and
   recovery steps shown to be steps of that module, first by TLC, then from
   `FenceInv` and `JournalInv`, so that the two models are tied.
2. Abstract specifications of the other components, proved the way
   `LeaseIsImplemented` is: the journal as a promise to undo what is in force
   (`GameSession`, `LightStandby`), and the gate as an exclusion between the test
   and its readers (`ControllerTest`, `ModeListener`).
3. `GameSession` joined to `LightStandby` over the power profile, so that the
   game's clean-up is the real one there; its Flatpak back end, `--join`,
   `--request-stop`.
4. Suspend guards and lid mode, brightness, touchpad button ownership, and the
   larger installer.

Left out for good: launchers of third-party programs, samplers that only read,
QML, build and release scripts; they keep no state another component relies on.

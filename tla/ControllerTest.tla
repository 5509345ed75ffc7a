----------------------------- MODULE ControllerTest -----------------------------
(***************************************************************************)
(* components/controller-test: a root service lends the physical           *)
(* controller to a help page.  It sets InputPlumber's intercept mode to 2, *)
(* so that no press reaches a game, and has to put the previous value back *)
(* once the page goes away and every control is released.                  *)
(*                                                                         *)
(* Its journal is at once the gate other processes read                    *)
(* (controller_test_gate.py: a blocked record stops every hardware action) *)
(* and the receipt from which `--recover' finishes after a crash.  systemd *)
(* runs that recovery after every exit (ExecStopPost) and before every     *)
(* start, so the service and a recovery never run at the same time; it     *)
(* starts the service again after a failure, but not after a stop.         *)
(*                                                                         *)
(* While it works the service holds the input helper's transition lock.    *)
(* A helper that failed has given the lock back, but a call it gave up     *)
(* waiting for may still be carried out.                                   *)
(***************************************************************************)
EXTENDS Naturals

CONSTANTS
  Pages,        \* tokens of the pages that may ask for the controller
  NoPage,       \* no token
  MaxRequests,  \* bound: requests the pages send
  MaxPresses,   \* bound: controls pressed
  MaxCrashes,   \* bound: kills and stops of the service
  MaxFaults,    \* bound: failing D-Bus calls, device reads and journal writes
  MaxUpsets     \* bound: InputPlumber restarts and acts of other interfaces

ASSUME PagesAssumption == NoPage \notin Pages
ASSUME TestBounds == {MaxRequests, MaxPresses, MaxCrashes, MaxFaults, MaxUpsets} \subseteq Nat

Profiles == {"gamepad", "joymouse"}        \* PROFILES
Configs  == Profiles \cup {"default"}      \* profile and targets of the composite device;
                                           \* "default": its own, or a change half done
Capture  == 2                              \* InterceptMode of an exclusive owner
Passes   == {0, 1}                         \* InterceptMode values that may be put back

Statuses == {"idle", "starting", "active", "draining", "error"}
Leases   == [owner : Nat, previous : Passes, config : Configs]   \* backend.saved

\* The Session object; in a recovery, its local variables.
Sessions == [token : Pages \cup {NoPage}, status : Statuses,
             expired : BOOLEAN,                     \* now >= deadline
             quiet : {"no", "since", "long"},       \* neutral_since
             saved : Leases]

NoLease   == [owner |-> 0, previous |-> 0, config |-> "default"]
NoSession == [token |-> NoPage, status |-> "idle", expired |-> FALSE, quiet |-> "no",
              saved |-> NoLease]

VARIABLES
  ip,       \* InputPlumber: [owner, intercept, config], and who set intercept last
  held,     \* a physical control is held
  out,      \* a virtual output asserts a button
  lock,     \* /run/pocketds-input-mode.lock: "free", "test" or "helper"
  journal,  \* state.json: [token, blocked, saved]
  role,     \* which process runs: "start" (recovery before the service), "serve",
            \* "post" (ExecStopPost, restarted after it), "stop" (not restarted), "down"
  step,     \* where it is
  sess,     \* its session
  pending,  \* a call of a failed helper, not carried out yet
  shifted,  \* history: since prepare read the profile, a call of a failed helper was
            \* carried out, or InputPlumber restarted
  strayed,  \* history: values set for one lease that reached another owner or value
  budget    \* [requests, presses, crashes, faults, upsets] used so far

daemon == <<lock, journal, role, step, sess>>
world  == <<ip, held, out, pending, shifted, strayed>>
vars   == <<daemon, world, budget>>

TypeOK ==
  /\ ip \in [owner : Nat, intercept : 0..2, config : Configs,
             by : {"test", "other"}]
  /\ held \in BOOLEAN /\ out \in BOOLEAN /\ pending \in BOOLEAN /\ shifted \in BOOLEAN
  /\ strayed \subseteq {"lend", "restore"} \X {"owner", "value"}
  /\ lock \in {"free", "test", "helper"}
  /\ journal \in [token : Pages \cup {NoPage}, blocked : BOOLEAN, saved : Leases]
  /\ role \in {"start", "serve", "post", "stop", "down"}
  /\ step \in {"idle", "prepare", "adopt", "capture", "wait", "restore", "reopen"}
  /\ sess \in Sessions
  /\ budget \in [requests : Nat, presses : Nat, crashes : Nat, faults : Nat, upsets : Nat]

Init ==
  /\ ip \in [owner : {1}, intercept : 0..2, config : Profiles, by : {"other"}]
  /\ held = FALSE /\ out = FALSE /\ pending = FALSE /\ shifted = FALSE /\ strayed = {}
  /\ lock = "free"
  /\ journal = [token |-> NoPage, blocked |-> FALSE, saved |-> NoLease]
  /\ role = "start" /\ step = "idle" /\ sess = NoSession
  /\ budget = [requests |-> 0, presses |-> 0, crashes |-> 0, faults |-> 0, upsets |-> 0]

-----------------------------------------------------------------------------
(* Building blocks *)

Spend(field, bound) == /\ budget[field] < bound
                       /\ budget' = [budget EXCEPT ![field] = @ + 1]
Fault == Spend("faults", MaxFaults)
Fine  == UNCHANGED budget

Blocked(s) == s.status \in {"starting", "active", "draining"}
Drained(s) == [s EXCEPT !.status = "draining", !.quiet = "no"]

\* Deliberate bug: nobody looks at the deadline.
OverdueNever(s) == s

\* drain of a lease whose deadline has passed.
Overdue(s) == IF s.expired /\ Blocked(s) /\ s.status # "draining" THEN Drained(s) ELSE s

Owns(s) == ip.owner = s.saved.owner /\ ip.intercept = Capture   \* check_capture
Unchanged(s) == ip.config = s.saved.config                      \* ... with configuration

\* record: the session as its journal entry.
Entry(s) == [token |-> s.token, blocked |-> Blocked(s), saved |-> s.saved]

FreeLock == lock' = IF lock = "test" THEN "free" ELSE lock

\* The process ends, with what systemd runs next: a recovery after the service or a
\* start that failed (ExecStopPost), then a start again, but after a stop nothing.
Ends(next) == /\ role' = next /\ step' = "idle" /\ sess' = NoSession /\ FreeLock
After == [serve |-> "post", start |-> "post", post |-> "start", stop |-> "down"]

Dies == Ends(After[role]) /\ UNCHANGED journal
Succeeds == Ends(IF role = "start" THEN "serve" ELSE After[role])

\* The session becomes s.  A change of status is recorded, and a journal that
\* cannot be written ends the process; a session that no longer blocks lets go.
Saved(s, next) ==
  /\ sess' = s /\ step' = next /\ UNCHANGED role
  /\ IF s.status = sess.status THEN UNCHANGED journal ELSE journal' = Entry(s)
  /\ IF Blocked(s) THEN UNCHANGED lock ELSE FreeLock
Becomes(s, next) == \/ Saved(s, next) /\ Fine
                    \/ s.status # sess.status /\ Fault /\ Dies

SetIntercept(v) == /\ ip' = [ip EXCEPT !.intercept = v, !.by = "test"]
                   /\ UNCHANGED <<held, out, pending, shifted>>

-----------------------------------------------------------------------------
(* Requests of the pages: Server.event, Session.request.  They come in any    *)
(* order and at any time: a page sends `end' while its `begin' is under way,  *)
(* a request is answered after the page gave up, another page has a token.    *)

\* Deliberate bug: take the controller from another interface.
LendableAnyway == TRUE
Lendable == ip.intercept \in Passes

NewLease(p) == [sess EXCEPT !.token = p, !.expired = FALSE, !.quiet = "no",
                            !.saved.previous = ip.intercept]

\* Deliberate bug: go on although the input helper has the lock.
BeginUnlocked(p) ==
  /\ role = "serve" /\ step = "idle" /\ ~Blocked(sess) /\ Lendable
  /\ Spend("requests", MaxRequests)
  /\ step' = "prepare" /\ sess' = NewLease(p)
  /\ UNCHANGED <<journal, role, lock, world>>

\* A lease that is given anew, only if nobody else has the controller.  The input
\* helper's lock is not waited for; prepare reads the value to restore first, ...
Begin(p) ==
  /\ role = "serve" /\ step = "idle" /\ ~Blocked(sess)
  /\ Spend("requests", MaxRequests)
  /\ IF lock = "free" /\ Lendable
       THEN lock' = "test" /\ step' = "prepare" /\ sess' = NewLease(p)
       ELSE UNCHANGED <<lock, step>> /\ sess' = [sess EXCEPT !.token = p, !.status = "error"]
  /\ UNCHANGED <<journal, role, world>>

Refuses == /\ sess' = [sess EXCEPT !.status = "error"] /\ step' = "idle" /\ FreeLock
           /\ UNCHANGED <<journal, role>>

\* ... then the profile by a call of its own, ...
Prepare ==
  /\ role = "serve" /\ step = "prepare"
  /\ \/ /\ ip.config \in Profiles /\ Fine
        /\ sess' = [sess EXCEPT !.saved.config = ip.config] /\ step' = "adopt"
        /\ shifted' = FALSE /\ UNCHANGED <<journal, role, lock>>
     \/ (IF ip.config \in Profiles THEN Fault ELSE Fine) /\ Refuses /\ UNCHANGED shifted
  /\ UNCHANGED <<ip, held, out, pending, strayed>>

\* ... and owner, targets and sources; the owner once more, so that they are one's.
\* InputPlumber's own targets may pass for those of the profile that was read.
Adopted == [sess EXCEPT !.status = "starting", !.saved.owner = ip.owner]
Fits(s) == ip.config \in {s.saved.config, "default"}

\* Deliberate bug: intercept first, record afterwards.
AdoptUnrecorded ==
  /\ role = "serve" /\ step = "adopt" /\ Fits(sess) /\ Fine
  /\ sess' = Adopted /\ step' = "capture"
  /\ UNCHANGED <<journal, role, lock, world>>

\* The record, gate and recovery receipt at once, precedes interception.
Adopt ==
  /\ role = "serve" /\ step = "adopt"
  /\ \/ Fits(sess) /\ Becomes(Adopted, "capture")
     \/ ip.config # sess.saved.config /\ Fine /\ Refuses
     \/ Fault /\ Refuses
  /\ UNCHANGED world

\* The service and InputPlumber are told apart by two calls: what was checked may
\* have been replaced when the value arrives.
Stray(what, still) ==
  strayed' = strayed \cup IF ip.owner # sess.saved.owner THEN {<<what, "owner">>}
                          ELSE IF still THEN {} ELSE {<<what, "value">>}
Lend     == SetIntercept(Capture) /\ Stray("lend", ip.intercept = sess.saved.previous)
GiveBack == /\ SetIntercept(sess.saved.previous)
            /\ Stray("restore", ip.intercept = Capture /\ ip.by = "test")

\* set_intercept(2).  A call that is not seen to succeed may have had its effect.
Intercept ==
  /\ role = "serve" /\ step = "capture"
  /\ \/ /\ Lend
        /\ sess' = [sess EXCEPT !.expired = FALSE] /\ step' = "idle" /\ Fine
        /\ UNCHANGED <<journal, role, lock>>
     \/ /\ Fault /\ Saved(Drained(sess), "idle")
        /\ \/ Lend
           \/ UNCHANGED world

\* Deliberate bug: a heartbeat renews the lease before its deadline is looked at.
RequestRevives(p) ==
  /\ role = "serve" /\ step = "idle" /\ Blocked(sess) /\ p = sess.token
  /\ Spend("requests", MaxRequests)
  /\ sess' = [sess EXCEPT !.expired = FALSE, !.status = "starting"]
  /\ UNCHANGED <<journal, role, step, lock, world>>

\* begin, poll or end while a lease is out.  The deadline comes first, and only
\* the lease's own page may prolong or end it.
Request(p) ==
  /\ role = "serve" /\ step = "idle" /\ Blocked(sess)
  /\ budget.requests < MaxRequests
  /\ LET now == Overdue(sess)
         renewed == IF p = sess.token /\ now.status # "draining"
                      THEN [now EXCEPT !.expired = FALSE] ELSE now
         ended == IF p = sess.token /\ now.status # "draining" THEN Drained(now) ELSE now
     IN \E s \in {renewed, ended} :
          \/ /\ Saved(s, "idle")
             /\ budget' = [budget EXCEPT !.requests = @ + 1]
          \/ /\ s.status # sess.status /\ Dies /\ budget.faults < MaxFaults
             /\ budget' = [budget EXCEPT !.requests = @ + 1, !.faults = @ + 1]
  /\ UNCHANGED world

-----------------------------------------------------------------------------
(* Session.tick: deadline, reads, then one decision. *)

\* The lease is gone: never touch what replaced it.
Lost(s) == Becomes([s EXCEPT !.status = "error"], "idle")

\* neutral_since: the controls were neutral at every sample since.
Watched(s) == IF held THEN [s EXCEPT !.quiet = "no"]
              ELSE IF s.quiet = "no" THEN [s EXCEPT !.quiet = "since"] ELSE s

\* Deliberate bug: do not ask whether the virtual outputs let go.
TickBlind ==
  /\ role = "serve" /\ step = "idle" /\ sess.status = "draining"
  /\ Owns(sess) /\ Unchanged(sess) /\ ~held /\ Fine
  /\ IF sess.quiet = "long" THEN step' = "restore" /\ UNCHANGED sess
                            ELSE sess' = Watched(sess) /\ UNCHANGED step
  /\ UNCHANGED <<journal, role, lock, world>>

Tick ==
  /\ role = "serve" /\ step = "idle" /\ Blocked(sess)
  /\ LET s == Overdue(sess) IN
     \/ ~Owns(s) /\ Lost(s)
     \/ Owns(s) /\ ~Unchanged(s) /\ Becomes(Drained(s), "idle")
     \/ Fault /\ Saved(Drained(s), "idle")              \* a read failed, a source is gone
     \/ /\ Owns(s) /\ Unchanged(s)
        /\ CASE s.status = "starting" ->
                  \/ ~out /\ Becomes([s EXCEPT !.status = "active"], "idle")
                  \/ out /\ Becomes(s, "idle")
                  \/ out /\ Becomes(Drained(s), "idle")  \* one second has passed
             [] s.status = "active" -> Becomes(s, "idle")
             [] s.status = "draining" ->
                  IF s.quiet = "long" /\ ~held
                    THEN Becomes([s EXCEPT !.quiet = IF out THEN "no" ELSE @],
                                 IF out THEN "idle" ELSE "restore")
                    ELSE Becomes(Watched(s), "idle")
  /\ UNCHANGED world

\* restore: set_intercept(previous), after its checks.
Restore ==
  /\ role = "serve" /\ step = "restore"
  /\ \/ /\ GiveBack /\ Fine
        /\ step' = "reopen" /\ UNCHANGED <<journal, role, lock, sess>>
     \/ /\ Fault /\ Saved(Drained(sess), "idle")
        /\ \/ GiveBack
           \/ UNCHANGED world

\* ... and only then the idle receipt and the lock.
Reopen ==
  /\ role = "serve" /\ step = "reopen"
  /\ Becomes([sess EXCEPT !.status = "idle"], "idle")
  /\ UNCHANGED world

-----------------------------------------------------------------------------
(* recover(), before every start and after every exit *)

Recovering == role \in {"start", "post", "stop"}
Unblocked == journal' = [journal EXCEPT !.blocked = FALSE]

\* Deliberate bug: a recovery that runs out of time opens the gate.
RecoverGivesIn == /\ Recovering /\ step = "wait" /\ (held \/ out)
                  /\ Unblocked /\ Succeeds /\ Fine /\ UNCHANGED world

Recover ==
  /\ Recovering /\ step = "idle"
  /\ \/ ~journal.blocked /\ Succeeds /\ Fine /\ UNCHANGED journal
     \/ /\ journal.blocked /\ lock = "free" /\ Fine
        /\ IF Owns(journal)
             THEN /\ lock' = "test" /\ step' = "wait" /\ UNCHANGED <<role, journal>>
                  /\ sess' = [NoSession EXCEPT !.token = journal.token, !.saved = journal.saved,
                                               !.status = "draining"]
             ELSE Unblocked /\ Succeeds
     \/ journal.blocked /\ lock # "free" /\ Fine /\ Dies
     \/ journal.blocked /\ Fault /\ Dies
  /\ UNCHANGED world

\* One turn of the waiting loop.  The eight seconds run out only if something
\* is in the way all the time.
RecoverWaits ==
  /\ Recovering /\ step = "wait"
  /\ \/ ~Owns(sess) /\ Fine /\ Unblocked /\ Succeeds
     \/ Owns(sess) /\ ~Unchanged(sess) /\ Fine /\ Dies
     \/ (held \/ out) /\ Fine /\ Dies
     \/ Fault /\ Dies
     \/ /\ Fault /\ sess' = [sess EXCEPT !.quiet = "no"] /\ UNCHANGED <<journal, role, step, lock>>
     \/ /\ Owns(sess) /\ Unchanged(sess) /\ Fine
        /\ IF sess.quiet = "long" /\ ~held
             THEN /\ step' = IF out THEN "wait" ELSE "restore"
                  /\ sess' = [sess EXCEPT !.quiet = IF out THEN "no" ELSE @]
             ELSE step' = "wait" /\ sess' = Watched(sess)
        /\ UNCHANGED <<journal, role, lock>>
  /\ UNCHANGED world

RecoverRestores ==
  /\ Recovering /\ step = "restore"
  /\ \/ /\ GiveBack /\ Fine
        /\ step' = "reopen" /\ UNCHANGED <<journal, role, lock, sess>>
     \/ /\ Fault /\ Dies
        /\ \/ GiveBack
           \/ UNCHANGED world

RecoverReopens ==
  /\ Recovering /\ step = "reopen"
  /\ \/ Unblocked /\ Succeeds /\ Fine
     \/ Fault /\ Dies
  /\ UNCHANGED world

-----------------------------------------------------------------------------
(* Stops, crashes, time and the world *)

\* systemctl stop: the service ends its turn, with what the journal says already, and
\* leaves the rest to ExecStopPost; so does a start.  Between two starts nothing runs;
\* there systemd may also give up by itself, after five starts in ten seconds.
Stop ==
  /\ Spend("crashes", MaxCrashes)
  /\ \/ role = "serve" /\ step = "idle" /\ Ends("stop")
     \/ role = "start" /\ Ends("stop")
     \/ role = "start" /\ step = "idle" /\ Ends("down")
     \/ role = "post" /\ role' = "stop" /\ UNCHANGED <<step, sess, lock>>
  /\ UNCHANGED <<journal, world>>

Crash == /\ role # "down" /\ Spend("crashes", MaxCrashes) /\ Dies /\ UNCHANGED world

\* systemctl start.
Started == /\ role = "down" /\ role' = "start"
           /\ UNCHANGED <<lock, journal, step, sess, world, budget>>

\* 1.5 seconds without a request of the page.
Expire == /\ role = "serve" /\ sess.status \in {"starting", "active"} /\ ~sess.expired
          /\ sess' = [sess EXCEPT !.expired = TRUE]
          /\ UNCHANGED <<lock, journal, role, step, world, budget>>

\* 0.3 seconds.
QuietPasses == /\ sess.quiet = "since" /\ sess' = [sess EXCEPT !.quiet = "long"]
               /\ UNCHANGED <<lock, journal, role, step, world, budget>>

Passing == ip.intercept # Capture
Press   == /\ ~held /\ held' = TRUE /\ out' = (out \/ Passing) /\ Spend("presses", MaxPresses)
           /\ UNCHANGED <<daemon, ip, pending, shifted, strayed>>
LetGo   == /\ held /\ held' = FALSE /\ out' = (out /\ ~Passing)
           /\ UNCHANGED <<daemon, ip, pending, shifted, strayed, budget>>

\* The clearing of the outputs that interception queues in InputPlumber; older ones
\* leave a button asserted, so that it need not happen.
OutputsClear == /\ ip.intercept = Capture /\ out /\ out' = FALSE
                /\ UNCHANGED <<daemon, ip, held, pending, shifted, strayed, budget>>

\* InputPlumber restarts: a new owner, its default configuration, new outputs; what
\* its predecessor had not carried out is lost.
Restart ==
  /\ Spend("upsets", MaxUpsets)
  /\ ip' = [owner |-> ip.owner + 1, intercept |-> 0, config |-> "default", by |-> "other"]
  /\ out' = FALSE /\ pending' = FALSE /\ shifted' = TRUE
  /\ UNCHANGED <<daemon, held, strayed>>

\* Another interface takes the controller for itself, or gives it back.
Overlay ==
  /\ Spend("upsets", MaxUpsets)
  /\ \E v \in 0..2 \ {ip.intercept} : ip' = [ip EXCEPT !.intercept = v, !.by = "other"]
  /\ UNCHANGED <<daemon, held, out, pending, shifted, strayed>>

\* pocketds-input-mode: takes the transition lock, changes profile and targets.
HelperLocks == /\ lock = "free" /\ Spend("requests", MaxRequests) /\ lock' = "helper"
               /\ UNCHANGED <<journal, role, step, sess, world>>
HelperSwitches ==
  /\ lock = "helper" /\ lock' = "free"
  /\ \/ Fine /\ (\E c \in Profiles : ip' = [ip EXCEPT !.config = c]) /\ UNCHANGED pending
     \/ /\ Fault /\ \E c \in Configs : ip' = [ip EXCEPT !.config = c]
        /\ pending' \in {pending, TRUE}
  /\ UNCHANGED <<journal, role, step, sess, held, out, shifted, strayed>>

\* A call that a helper gave up waiting for is carried out, whoever has the lock now.
CallLands ==
  /\ pending /\ pending' = FALSE /\ shifted' = TRUE
  /\ \E c \in Configs : ip' = [ip EXCEPT !.config = c]
  /\ UNCHANGED <<daemon, held, out, strayed, budget>>

Service == Prepare \/ Adopt \/ Intercept \/ Tick \/ Restore \/ Reopen
RecoverStep == Recover \/ RecoverWaits \/ RecoverRestores \/ RecoverReopens

Next ==
  \/ \E p \in Pages : Begin(p) \/ Request(p)
  \/ Service \/ RecoverStep
  \/ Stop \/ Crash \/ Started \/ Expire \/ QuietPasses
  \/ Press \/ LetGo \/ OutputsClear \/ Restart \/ Overlay
  \/ HelperLocks \/ HelperSwitches \/ CallLands

Spec == Init /\ [][Next]_vars

\* The service's loop goes on, systemd runs the recoveries, time passes and the helper,
\* whose calls all have a timeout, finishes.  Nobody need start a service that was
\* stopped, let go of a control, or clear an output.
FairSpec == /\ Spec
            /\ WF_vars(Service) /\ WF_vars(RecoverStep) /\ WF_vars(Expire)
            /\ WF_vars(QuietPasses) /\ WF_vars(HelperSwitches)

-----------------------------------------------------------------------------
(* Properties *)

\* While the service intercepts, the gate is shut and the journal names the very
\* owner and the value to restore: after a kill anywhere the controller is neither
\* taken for ever nor read as if it were free (begin, tick, recover).
GateCoversCapture ==
  ip.intercept = Capture /\ ip.by = "test" /\ strayed = {} =>
    journal.blocked /\ journal.saved.owner = ip.owner

\* A button that was held when interception began, and let go meanwhile, is not
\* left pressed in the game when the controller is given back (capture_confirmed).
NoStuckOutput ==
  ip.intercept # Capture /\ ip.by = "test" /\ strayed = {} => (out => held)

\* No input helper works while a lease is out, and the configuration is the one that was
\* read for it: the lock is held from before the profile is read until after the restore
\* (acquire, release).  A call that a failed helper had given up is not stopped by the
\* lock, nor is an InputPlumber that restarts between the reads of profile and owner.
ConfigurationHolds ==
  role = "serve" /\ Blocked(sess) =>
    lock = "test" /\ (ip.owner = sess.saved.owner => Unchanged(sess) \/ shifted)

\* The gate other processes read is the service's own state, in whichever order
\* requests, failures and restarts come; a service without a lease never leaves it
\* shut (record, JournalError).
GateIsCurrent ==
  role = "serve" =>
    journal.blocked = Blocked(sess) /\ (Blocked(sess) => journal = Entry(sess))

\* What is drained is never lent again: a late heartbeat does not revive a lease
\* whose deadline has passed, it ends in idle, error or the recovery (request).
ExpiredIsNotRevived ==
  [][(/\ role = "serve" /\ role' = "serve"
      /\ sess.status = "draining" \/ (sess.expired /\ Blocked(sess) /\ step = "idle"))
       => sess'.status \in {"idle", "error", "draining"} \/ sess' = sess]_vars

\* A restored value only ever reaches the InputPlumber it was read from: the comment
\* in capture_lost forbids an old lease's value to a replacement owner.
OldValueStaysHome == <<"restore", "owner">> \notin strayed

\* Whatever the page does, the gate opens again once the controls and the outputs have
\* come to rest: the lease expires and the previous value is put back, by the service or
\* a recovery; unless profile or targets have changed, or the service was stopped and its
\* one recovery (ExecStopPost) could not finish.
GateReopens ==
  <>[](~held /\ ~out) =>
    []<>(\/ ~journal.blocked \/ role = "down"
         \/ ip.owner = journal.saved.owner /\ ip.config # journal.saved.config)
=============================================================================

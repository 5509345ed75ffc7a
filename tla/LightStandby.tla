------------------------------ MODULE LightStandby ------------------------------
(***************************************************************************)
(* components/light-standby/pocketds-light-standby.py: the user service    *)
(* that darkens both panels while the lid is closed.  In the "connected"   *)
(* lid mode it also lowers the power profile and, on battery, powers off   *)
(* after a time; what it lowered and when it will power off is kept in     *)
(* light-standby.json, from which a later process goes on.  Before sleep   *)
(* it holds up logind (a delay inhibitor) until the panels are dark.       *)
(*                                                                         *)
(* One GLib main loop runs one handler at a time, but each handler is a    *)
(* series of D-Bus calls and commands: lid, sleep, charger, user and a     *)
(* game that raises the same profile act between any two of them.          *)
(***************************************************************************)
EXTENDS Naturals, Sequences

CONSTANTS
  Timeouts,    \* auto power-off times that can be chosen, in minutes
  Choices,     \* profiles the user may choose
  MaxLids,     \* bound: openings and closings of the lid
  MaxActs,     \* bound: acts of user, charger and game
  MaxSleeps,   \* bound: requests to sleep, and panels lit by the desktop
  MaxFaults,   \* bound: failing calls, commands and writes
  MaxCrashes,  \* bound: kills of the service, and losses of power
  MaxBoots     \* bound: boots

Managed  == {"powersave", "balanced", "performance"}
Profiles == Managed \cup {"custom"}              \* "custom": read as None
Modes    == {"connected", "sleep", "unknown"}    \* get_lid_mode
Lowering == {"pending", "owned", "restore-pending"}
Phases   == Lowering \cup {"baseline", "external", "unmanaged"}

ASSUME ChoicesAssumption == Timeouts \subseteq Nat \ {0} /\ Choices \subseteq Profiles
ASSUME LongestAssumption == \E t \in Timeouts \cup {0} : \A u \in Timeouts : u <= t
ASSUME StandbyBounds == /\ {MaxLids, MaxActs, MaxSleeps, MaxFaults, MaxCrashes, MaxBoots} \subseteq Nat
                        /\ MaxBoots # 0

\* light-standby.json; "none" if there is no file, "bad" if load refuses it.  A
\* deadline is past once boot time has reached it.
Deadlines  == [minutes : Timeouts \cup {0}, boot : 0..MaxBoots, past : BOOLEAN]
NoDeadline == [minutes |-> 0, boot |-> 0, past |-> FALSE]
Files      == [restore : Profiles, phase : Phases \cup {"none", "bad"}, deadline : Deadlines]
Missing    == [restore |-> "custom", phase |-> "none", deadline |-> NoDeadline]
Unreadable == [Missing EXCEPT !.phase = "bad"]

VARIABLES
  pc,       \* where the handler is; "idle" in the main loop, "down", "off"
  run,      \* the handler's local values
  d,        \* the LidDaemon object
  fd,       \* sleep_delay_fd is held
  inbox,    \* signals of logind not yet dispatched
  store,    \* light-standby.json
  lid,      \* the lid is closed
  panel,    \* both panels: "on", "fading" (KWin was asked for off) or "off"
  profile,  \* the active TuneD profile
  late,     \* a profile command that outlived its 4 s, or "none"
  cond,     \* [ac, setting, mode]: charger, power-off minutes (0: never), lid mode
  login,    \* logind: "awake", "delaying" (PreparingForSleep) or "asleep"
  boot,     \* boot id
  boost,    \* the profile a running game will put back, or "none"
  wanted,   \* history: the profile that user and game want, "any" if ambiguous
  broken,   \* history: since arming, a handler that saw a reason not to power off has
            \* come to its end
  lost,     \* history: a process died with dark panels and no file
  budget    \* [lids, acts, sleeps, faults, crashes] used so far

system  == <<lid, cond, login, boot, boost>>
history == <<wanted, lost>>
vars    == <<pc, run, d, fd, inbox, store, panel, profile, late, broken, system, history, budget>>

Locals == [by : {"tick", "signal"}, steady : BOOLEAN, ok : BOOLEAN, wake : BOOLEAN,
           saw : BOOLEAN]
NoRun  == [by |-> "signal", steady |-> FALSE, ok |-> TRUE, wake |-> TRUE, saw |-> FALSE]
Fresh  == [lid |-> "none", mode |-> "unknown", retry |-> FALSE, ticking |-> TRUE,
           debounce |-> FALSE, preparing |-> FALSE, polling |-> FALSE, started |-> FALSE,
           finished |-> FALSE, overdue |-> FALSE]

TypeOK ==
  /\ pc \in {"idle", "look", "ask", "keep", "sync", "final", "poweroff", "drop", "dim", "claim",
             "blank", "recheck", "own", "lower", "lowered", "clear", "wake", "restore",
             "raise", "raised", "prepare", "judge", "down", "off"}
  /\ run \in Locals
  /\ d \in [lid : {"none", "open", "closed"}, mode : Modes, retry : BOOLEAN, ticking : BOOLEAN,
            debounce : BOOLEAN, preparing : BOOLEAN, polling : BOOLEAN, started : BOOLEAN,
            finished : BOOLEAN, overdue : BOOLEAN]
  /\ fd \in BOOLEAN /\ lid \in BOOLEAN /\ broken \in BOOLEAN /\ lost \in BOOLEAN
  /\ inbox \in Seq({"lid", "sleep", "wake"})
  /\ store \in Files
  /\ panel \in {"on", "fading", "off"}
  /\ profile \in Profiles /\ late \in Managed \cup {"none"}
  /\ cond \in [ac : BOOLEAN, setting : Timeouts \cup {0}, mode : {"connected", "sleep"}]
  /\ login \in {"awake", "delaying", "asleep"} /\ boot \in 1..MaxBoots
  /\ boost \in Profiles \cup {"none"} /\ wanted \in Profiles \cup {"any"}
  /\ budget \in [lids : Nat, acts : Nat, sleeps : Nat, faults : Nat, crashes : Nat]

\* The user has chosen the longest time, if there is one.
Longest == CHOOSE t \in Timeouts \cup {0} : \A u \in Timeouts : u <= t

Init ==
  /\ pc = "down" /\ run = NoRun /\ d = Fresh /\ fd = FALSE /\ inbox = <<>>
  /\ store \in {Missing, Unreadable}
  /\ lid = FALSE /\ panel = "on" /\ late = "none" /\ login = "awake" /\ boot = 1
  /\ profile \in Choices /\ wanted = profile /\ boost = "none"
  /\ cond \in [ac : {FALSE}, setting : {Longest}, mode : {"connected", "sleep"}]
  /\ broken = FALSE /\ lost = FALSE
  /\ budget = [lids |-> 0, acts |-> 0, sleeps |-> 0, faults |-> 0, crashes |-> 0]

-----------------------------------------------------------------------------
(* Building blocks *)

Spend(field, bound) == /\ budget[field] < bound
                       /\ budget' = [budget EXCEPT ![field] = @ + 1]
Act   == Spend("acts", MaxActs)
Night == Spend("sleeps", MaxSleeps)
Fault == Spend("faults", MaxFaults)
Fine  == UNCHANGED budget

Up    == pc \notin {"down", "off"}
Running == login # "asleep"                        \* processes are not frozen
At(step) == pc = step /\ Running

Goto(step) == pc' = step /\ UNCHANGED <<run, d, broken>>
Ended(okay) == /\ pc' = "idle" /\ run' = NoRun
               /\ d' = [d EXCEPT !.retry = ~okay]
End(okay)   == Ended(okay) /\ broken' = (broken \/ run.saw)
Refuse(okay) == Ended(okay) /\ broken' = TRUE    \* what speaks against powering off

\* The process is gone, with its inhibitor and its subscriptions.
Dead == /\ run' = NoRun /\ d' = Fresh /\ fd' = FALSE /\ inbox' = <<>>

\* A failed write of the file.  The try of _apply makes it a retry; raised from the
\* steady branch it ends the callback, and GLib drops a timeout whose callback raised.
WriteFails ==
  /\ Fault /\ pc' = "idle" /\ run' = NoRun /\ UNCHANGED <<store, broken>>
  /\ d' = IF run.steady THEN [d EXCEPT !.ticking = @ /\ run.by # "tick"]
                        ELSE [d EXCEPT !.retry = TRUE]
Writes(s) == store' = s /\ Fine

Usable == store.phase \in Phases
Cleared == [store EXCEPT !.deadline = NoDeadline]        \* _clear_auto_poweroff

\* Deliberate bug: the charger stops the machine from powering off, not the deadline.
DroppedButForCharger == IF cond.ac THEN store ELSE Cleared
\* What sync_auto_poweroff writes if it must not power off.
Dropped == Cleared

\* Deliberate bug: seconds where load expects minutes.
ArmedInSeconds == [store EXCEPT !.deadline = [minutes |-> 60 * cond.setting, boot |-> boot,
                                              past |-> FALSE]]
Armed == [store EXCEPT !.deadline = [minutes |-> cond.setting, boot |-> boot, past |-> FALSE]]

\* panelctl power: done; or not seen to succeed, when it acted, did not or acts later.
SetProfile(p, next) ==
  \/ profile' = p /\ Fine /\ Goto(next) /\ UNCHANGED late
  \/ /\ Fault /\ End(FALSE)
     /\ \/ profile' = p /\ UNCHANGED late
        \/ UNCHANGED <<profile, late>>
        \/ late = "none" /\ late' = p /\ UNCHANGED profile

\* Parts that most handler steps leave alone.
Quiet == UNCHANGED <<inbox, system, history>>
Rest  == Quiet /\ UNCHANGED <<fd, profile, late>>

-----------------------------------------------------------------------------
(* The main loop *)

\* _acquire_sleep_delay; logind refuses while it prepares for sleep.  The five
\* seconds before the next attempt are left to the next tick.
Inhibit(held) == \/ fd' = (held \/ login = "awake") /\ Fine
                 \/ ~held /\ login = "awake" /\ Fault /\ fd' = FALSE

Look(by) == pc' = "look" /\ run' = [NoRun EXCEPT !.by = by]

\* prepare_sleep(False): cancel, release, acquire anew, then apply.
WakeUp(by) == /\ d' = [d EXCEPT !.polling = FALSE, !.preparing = FALSE, !.retry = TRUE]
              /\ Inhibit(FALSE) /\ Look(by)

\* Deliberate bug: a completion signal that was missed is not asked for.
TickDeaf == /\ At("idle") /\ d.ticking /\ ~d.preparing
            /\ Inhibit(fd) /\ Look("tick") /\ UNCHANGED <<d, store, panel, profile, late, broken>>
            /\ Quiet

\* _tick: a preparation that polls is left alone; otherwise logind is asked whether
\* a completion signal was missed.
Tick ==
  /\ At("idle") /\ d.ticking
  /\ \/ ~d.preparing /\ Inhibit(fd) /\ Look("tick") /\ UNCHANGED d
     \/ d.preparing /\ ~(d.polling /\ ~d.finished) /\ login = "awake" /\ WakeUp("tick")
  /\ Quiet /\ UNCHANGED <<store, panel, profile, late, broken>>

\* _on_signal and _on_sleep_signal.
Receive ==
  /\ At("idle") /\ inbox # <<>> /\ inbox' = Tail(inbox)
  /\ CASE Head(inbox) = "lid" ->
            d' = [d EXCEPT !.debounce = @ \/ ~d.preparing] /\ Fine /\ UNCHANGED <<pc, run, fd>>
       [] Head(inbox) = "sleep" /\ d.preparing -> Fine /\ UNCHANGED <<pc, run, d, fd>>
       [] Head(inbox) = "sleep" /\ ~d.preparing ->
            /\ d' = [d EXCEPT !.preparing = TRUE, !.polling = FALSE, !.debounce = FALSE,
                              !.started = FALSE, !.finished = FALSE, !.overdue = FALSE]
            /\ pc' = "prepare" /\ Fine /\ UNCHANGED <<run, fd>>
       [] Head(inbox) = "wake" -> WakeUp("signal")
  /\ UNCHANGED <<store, panel, profile, late, broken, system, history>>

\* _after_debounce.
Debounced ==
  /\ At("idle") /\ d.debounce
  /\ d' = [d EXCEPT !.debounce = FALSE]
  /\ Inhibit(fd) /\ Look("signal")
  /\ Quiet /\ UNCHANGED <<store, panel, profile, late, broken>>

\* _apply: the lid; an open one is acted on at once with the lid mode last seen.  A
\* closed one has the mode asked for, which may be five seconds old while it stays
\* closed, and is then read again: what it opened meanwhile counts, as does that mode.
\* Then at most one of the controller's operations.
LookFails == Fault /\ pc' = "idle" /\ run' = NoRun /\ d' = [d EXCEPT !.retry = TRUE]

Conclude(m) ==
  LET first   == d.lid = "none"
      now     == IF lid THEN "closed" ELSE "open"
      recover == d.retry \/ (~lid /\ store.phase # "none")
      act     == first \/ now # d.lid \/ recover \/ (lid /\ m # d.mode)
      ready   == ~lid /\ (~act \/ (first /\ ~recover))
  IN /\ d' = [d EXCEPT !.lid = now, !.mode = m, !.retry = @ /\ ~ready]
     /\ IF ready THEN pc' = "idle" /\ run' = NoRun
        ELSE /\ pc' = IF ~lid THEN "clear" ELSE IF ~act THEN "keep"
                      ELSE IF m = "connected" THEN "claim" ELSE "drop"
             /\ run' = [run EXCEPT !.steady = ~act, !.saw = ~lid \/ m # "connected"]

Decide ==
  /\ \/ At("look") /\ LookFails
     \/ At("look") /\ ~lid /\ Conclude(d.mode) /\ Fine
     \/ At("look") /\ lid /\ pc' = "ask" /\ Fine /\ UNCHANGED <<run, d>>
     \/ At("ask") /\ LookFails
     \/ At("ask") /\ Conclude(cond.mode) /\ Fine
     \/ At("ask") /\ Conclude("unknown") /\ Fault
     \/ At("ask") /\ d.lid = "closed" /\ Conclude(d.mode) /\ Fine
  /\ UNCHANGED <<store, panel, broken>> /\ Rest

-----------------------------------------------------------------------------
(* The panels *)

BlankFails == Fault /\ panel' \in {panel, "off"}

\* Deliberate bug: an unchanged lid needs no look at the panels.
KeepTrusting == At("keep") /\ Goto("sync") /\ Fine /\ UNCHANGED <<panel, store>> /\ Rest

\* keep_display_off.
Keep ==
  /\ At("keep")
  /\ \/ panel' = "off" /\ Fine /\ Goto("sync")
     \/ /\ panel # "off" /\ BlankFails /\ pc' = "sync" /\ run' = [run EXCEPT !.ok = FALSE]
        /\ UNCHANGED <<d, broken>>
  /\ UNCHANGED store /\ Rest

\* blank_displays, in close; step "dim" if the lid mode is not "connected".
Blank ==
  /\ At("blank") \/ At("dim")
  /\ \/ /\ panel' = "off" /\ Fine
        /\ pc' = IF pc = "blank" THEN "recheck" ELSE "clear"
        /\ run' = [run EXCEPT !.wake = pc = "blank"] /\ UNCHANGED <<d, broken>>
     \/ BlankFails /\ End(FALSE)
  /\ UNCHANGED store /\ Rest

\* wake_display, in open.
Wake ==
  /\ At("wake")
  /\ \/ panel' = "on" /\ Fine /\ Goto("restore")
     \/ Fault /\ panel' \in {panel, "on"} /\ End(FALSE)
  /\ UNCHANGED store /\ Rest

-----------------------------------------------------------------------------
(* LightStandbyController.close *)

Claim ==
  /\ At("claim")
  /\ \/ store.phase # "none" /\ Fine /\ Goto("blank") /\ UNCHANGED store
     \/ /\ store.phase = "none" /\ Goto("blank")
        /\ Writes([Missing EXCEPT
             !.restore = profile,
             !.phase = IF profile \notin Managed THEN "unmanaged"
                       ELSE IF profile = "powersave" THEN "baseline" ELSE "pending"])
     \/ store.phase = "none" /\ WriteFails
  /\ UNCHANGED panel /\ Rest

\* The lid again, after the seconds that blanking took.
Recheck ==
  /\ At("recheck")
  /\ \/ Fault /\ End(FALSE)
     \/ /\ ~lid /\ Fine /\ pc' = "clear" /\ run' = [run EXCEPT !.saw = TRUE]
        /\ UNCHANGED <<d, broken>>
     \/ lid /\ Fine /\ IF Usable THEN Goto("own") ELSE End(TRUE)
  /\ UNCHANGED <<store, panel>> /\ Rest

\* Whose profile is it?  Only the one that was recorded is lowered.
Own ==
  /\ At("own")
  /\ LET phase == IF store.phase = "pending"
                    THEN IF profile = "powersave" THEN "owned"
                         ELSE IF profile = store.restore THEN "pending" ELSE "external"
                  ELSE IF store.phase = "owned" /\ profile # "powersave" THEN "external"
                  ELSE store.phase
     IN \/ phase = "pending" /\ Fine /\ Goto("lower") /\ UNCHANGED store
        \/ phase # "pending" /\ Goto("sync") /\ Writes([store EXCEPT !.phase = phase])
        \/ phase # store.phase /\ WriteFails
  /\ UNCHANGED panel /\ Rest

Lower == /\ At("lower") /\ SetProfile("powersave", "lowered")
         /\ UNCHANGED <<fd, store, panel>> /\ Quiet

Lowered ==
  /\ At("lowered")
  /\ \/ profile # "powersave" /\ Fine /\ End(FALSE) /\ UNCHANGED store
     \/ profile = "powersave" /\ Goto("sync") /\ Writes([store EXCEPT !.phase = "owned"])
     \/ profile = "powersave" /\ WriteFails
  /\ UNCHANGED panel /\ Rest

\* close(connected=False): sync_auto_poweroff(lid_closed=False) comes first.
Drop ==
  /\ At("drop")
  /\ \/ Goto("dim") /\ Writes(IF Usable THEN Cleared ELSE store)
     \/ Usable /\ store # Cleared /\ WriteFails
  /\ UNCHANGED panel /\ Rest

-----------------------------------------------------------------------------
(* sync_auto_poweroff *)

MayPowerOff == d.mode = "connected" /\ cond.setting # 0 /\ ~cond.ac

\* Arm, keep or drop the deadline; a reason that cannot be read drops it too.
Sync ==
  /\ At("sync")
  /\ \/ ~Usable /\ Fine /\ End(run.ok /\ store.phase = "none") /\ UNCHANGED store
     \/ /\ Usable
        /\ \/ ~MayPowerOff /\ Writes(Dropped) /\ Refuse(run.ok)
           \/ ~MayPowerOff /\ store # Cleared /\ WriteFails
           \/ MayPowerOff /\ Fault /\ store' = Dropped /\ Refuse(run.ok)
           \/ /\ MayPowerOff
              /\ IF store.deadline.minutes # cond.setting \/ store.deadline.boot # boot
                   THEN \/ /\ Writes(Armed)
                           /\ Ended(run.ok) /\ broken' = FALSE
                        \/ WriteFails
                   ELSE /\ Fine /\ UNCHANGED store
                        /\ IF store.deadline.past THEN Goto("final") ELSE End(run.ok)
  /\ UNCHANGED panel /\ Rest

\* The deadline is due: lid, charger and setting once more, ...
Final ==
  /\ At("final")
  /\ \/ Fault /\ End(FALSE) /\ UNCHANGED store
     \/ LET off == ~lid \/ cond.ac \/ cond.setting = 0
            same == cond.setting = store.deadline.minutes
        IN \/ ~off /\ same /\ Fine /\ Goto("poweroff") /\ UNCHANGED store
           \/ off /\ Writes(Dropped) /\ Refuse(run.ok)
           \/ ~off /\ ~same /\ Writes(Armed) /\ End(run.ok)
           \/ (off \/ ~same) /\ WriteFails
  /\ UNCHANGED panel /\ Rest

\* ... and login1's PowerOff, by a call of its own.
PowerOff ==
  /\ At("poweroff")
  /\ \/ Fine /\ pc' = "off" /\ Dead /\ UNCHANGED broken
     \/ Fault /\ End(FALSE) /\ UNCHANGED <<fd, inbox>>
  /\ UNCHANGED <<store, panel, profile, late, system, history>>

-----------------------------------------------------------------------------
(* LightStandbyController.open *)

AfterClear == IF run.wake THEN "wake" ELSE "restore"

\* The deadline is dropped before anything can fail.
Clear ==
  /\ At("clear")
  /\ \/ Goto(AfterClear) /\ Writes(IF Usable THEN Cleared ELSE store)
     \/ Usable /\ store # Cleared /\ WriteFails
  /\ UNCHANGED panel /\ Rest

\* Only a profile this service may have lowered is put back.
Restore ==
  /\ At("restore")
  /\ LET should == /\ store.phase \in Lowering /\ profile = "powersave"
                   /\ store.restore \in Managed \ {"powersave"}
     IN \/ ~Usable /\ Fine /\ End(TRUE) /\ UNCHANGED store
        \/ should /\ Goto("raise") /\ Writes([store EXCEPT !.phase = "restore-pending"])
        \/ Usable /\ ~should /\ Writes(Missing) /\ End(TRUE)
        \/ Usable /\ WriteFails
  /\ UNCHANGED panel /\ Rest

\* Deliberate bug: the record goes although the profile was not seen to be back.
RaiseForgetting == /\ At("raise") /\ End(TRUE) /\ store' = Missing
                   /\ \/ profile' = store.restore /\ Fine
                      \/ UNCHANGED profile /\ Fault
                   /\ UNCHANGED <<fd, panel, late>> /\ Quiet

Raise == /\ At("raise") /\ SetProfile(store.restore, "raised")
         /\ UNCHANGED <<fd, store, panel>> /\ Quiet

Raised ==
  /\ At("raised")
  /\ \/ profile # store.restore /\ Fine /\ End(FALSE) /\ UNCHANGED store
     \/ profile = store.restore /\ Writes(Missing) /\ End(TRUE)
     \/ profile = store.restore /\ WriteFails
  /\ UNCHANGED panel /\ Rest

-----------------------------------------------------------------------------
(* Before sleep *)

\* _finish_prepare: the inhibitor goes, whatever came of it.
Finish == /\ d' = [d EXCEPT !.finished = TRUE] /\ fd' = FALSE
          /\ pc' = "idle" /\ UNCHANGED <<run, broken>>

\* _prepare_step, first half: ask KWin once, do not wait for it.
Prepare ==
  /\ At("prepare")
  /\ \/ (d.overdue \/ ~lid) /\ Fine /\ Finish /\ UNCHANGED panel
     \/ Fault /\ Finish /\ UNCHANGED panel
     \/ /\ ~d.overdue /\ lid
        /\ pc' = "judge" /\ d' = [d EXCEPT !.started = TRUE] /\ UNCHANGED <<run, fd, broken>>
        /\ \/ (d.started \/ panel # "on") /\ Fine /\ UNCHANGED panel
           \/ ~d.started /\ panel = "on" /\ Fine /\ panel' = "fading"
           \/ ~d.started /\ panel = "on" /\ Fault /\ UNCHANGED panel
  /\ UNCHANGED <<store, profile, late>> /\ Quiet

\* Deliberate bug: a preparation that is not done yet is not looked at again.
JudgeOnce ==
  /\ At("judge")
  /\ \/ (d.overdue \/ panel = "off") /\ Fine /\ Finish
     \/ ~d.overdue /\ panel # "off" /\ Fine /\ pc' = "idle" /\ UNCHANGED <<d, run, fd, broken>>
  /\ UNCHANGED <<store, panel, profile, late>> /\ Quiet

\* Second half: done if dark or open, else poll again in 75 ms.
Judge ==
  /\ At("judge")
  /\ \/ (d.overdue \/ panel = "off") /\ Fine /\ Finish
     \/ Fault /\ Finish
     \/ /\ ~d.overdue /\ panel # "off" /\ Fine
        /\ pc' = "idle" /\ d' = [d EXCEPT !.polling = TRUE] /\ UNCHANGED <<run, fd, broken>>
  /\ UNCHANGED <<store, panel, profile, late>> /\ Quiet

\* The 75 ms source.  prepare_sleep and _cancel_prepare remove it with its generation.
Poll ==
  /\ At("idle") /\ d.polling /\ Fine
  /\ IF d.preparing /\ ~d.finished THEN pc' = "prepare" ELSE UNCHANGED pc
  /\ d' = [d EXCEPT !.polling = FALSE]
  /\ UNCHANGED <<run, fd, store, panel, profile, late, broken>> /\ Quiet

PrepareExpires ==
  /\ Up /\ Running /\ d.preparing /\ ~d.finished /\ ~d.overdue
  /\ d' = [d EXCEPT !.overdue = TRUE]
  /\ UNCHANGED <<pc, run, fd, store, panel, profile, late, broken, budget>> /\ Quiet

-----------------------------------------------------------------------------
(* The process: systemd restarts it on failure *)

\* A kill in the middle of a profile command may leave its effect to come.
Crash ==
  /\ Up /\ Running /\ Spend("crashes", MaxCrashes)
  /\ pc' = "down" /\ Dead
  /\ \/ UNCHANGED late
     \/ pc = "lower" /\ late = "none" /\ late' = "powersave"
     \/ pc = "raise" /\ late = "none" /\ late' = store.restore
  /\ lost' = (lost \/ (panel # "on" /\ ~Usable))
  /\ UNCHANGED <<store, panel, profile, broken, system, wanted>>

\* run(): subscribe, ask whether logind is preparing, apply.
Start ==
  /\ At("down")
  /\ IF login = "awake" THEN Inhibit(FALSE) /\ Look("signal") /\ UNCHANGED d
                        ELSE /\ d' = [d EXCEPT !.preparing = TRUE] /\ pc' = "idle"
                             /\ Fine /\ UNCHANGED <<run, fd>>
  /\ Quiet /\ UNCHANGED <<store, panel, profile, late, broken>>

-----------------------------------------------------------------------------
(* The world *)

Daemon == <<pc, run, d, fd, store, broken>>
Tell(signal) == inbox' = IF Up THEN Append(inbox, signal) ELSE inbox

LidMoves == /\ Spend("lids", MaxLids) /\ lid' = ~lid /\ Tell("lid")
            /\ UNCHANGED <<Daemon, panel, profile, late, cond, login, boot, boost, history>>

\* Charger, setting and lid mode.
ConditionsChange ==
  /\ Act
  /\ \/ cond' = [cond EXCEPT !.ac = ~@]
     \/ \E t \in (Timeouts \cup {0}) \ {cond.setting} : cond' = [cond EXCEPT !.setting = t]
     \/ \E m \in {"connected", "sleep"} \ {cond.mode} : cond' = [cond EXCEPT !.mode = m]
  /\ UNCHANGED <<Daemon, inbox, panel, profile, late, lid, login, boot, boost, history>>

\* Somebody wants profile p.  Nobody can tell a powersave that the user chose from
\* the one the service set, and a choice may meet a command under way.
Ambiguous(p) == \/ p = "powersave" /\ store.phase \in Lowering
                \/ pc \in {"lower", "raise"} \/ late # "none"
Wants(p) == profile' = p /\ wanted' = IF Ambiguous(p) THEN "any" ELSE p

UserPicks ==
  /\ Act /\ \E p \in Choices \ {profile} : Wants(p)
  /\ UNCHANGED <<Daemon, inbox, panel, late, lid, cond, login, boot, boost, lost>>

\* A game session that raises the profile, and what it puts back when it ends.
GameStarts ==
  /\ Act /\ boost = "none" /\ profile \in Managed \ {"performance"}
  /\ boost' = profile /\ profile' = "performance"
  /\ wanted' = IF Ambiguous("performance") \/ store.phase \in Lowering THEN "any"
                                                                       ELSE "performance"
  /\ UNCHANGED <<Daemon, inbox, panel, late, lid, cond, login, boot, lost>>
GameEnds ==
  /\ boost # "none" /\ boost' = "none"
  /\ IF profile = "performance" THEN Wants(boost) ELSE wanted' = "any" /\ UNCHANGED profile
  /\ UNCHANGED <<Daemon, inbox, panel, late, lid, cond, login, boot, lost, budget>>

LateLands == /\ late # "none" /\ profile' = late /\ late' = "none" /\ wanted' = "any"
             /\ UNCHANGED <<Daemon, inbox, panel, system, lost, budget>>

\* KWin's transition ends; the desktop or an input event lights the panels.
Fade    == /\ panel = "fading" /\ panel' = "off"
           /\ UNCHANGED <<Daemon, inbox, profile, late, system, history, budget>>
Relight == /\ Night /\ panel # "on" /\ panel' = "on"
           /\ UNCHANGED <<Daemon, inbox, profile, late, system, history>>

DeadlinePasses == /\ store.deadline.boot = boot /\ ~store.deadline.past
                  /\ store' = [store EXCEPT !.deadline.past = TRUE]
                  /\ UNCHANGED <<pc, run, d, fd, broken, inbox, panel, profile, late, system,
                                 history, budget>>

\* logind: a request to sleep waits for the inhibitor, at most five seconds.
Logind(from, to) == /\ login = from /\ login' = to
                    /\ UNCHANGED <<Daemon, profile, late, lid, cond, boot, boost, history>>
RequestSleep == Night /\ pc # "off" /\ Logind("awake", "delaying") /\ Tell("sleep") /\ UNCHANGED panel
Suspend      == Fine /\ Logind("delaying", "asleep") /\ UNCHANGED <<inbox, panel>>
WakesUp      == /\ \/ Fine /\ Tell("wake")
                   \/ Fault /\ UNCHANGED inbox        \* a signal nobody saw
                /\ \/ Logind("delaying", "awake") /\ UNCHANGED panel
                   \/ Logind("asleep", "awake") /\ panel' \in {panel, "on"}

\* The machine loses power, or is restarted; and boots again.
PowerCut ==
  /\ pc # "off" /\ Spend("crashes", MaxCrashes) /\ boot < MaxBoots /\ pc' = "off" /\ Dead
  /\ UNCHANGED <<store, panel, profile, late, broken, system, history>>
BootUp ==
  /\ pc = "off" /\ boot < MaxBoots /\ boot' = boot + 1 /\ pc' = "down"
  /\ panel' = "on" /\ login' = "awake" /\ late' = "none" /\ boost' = "none"
  /\ wanted' = IF boost # "none" \/ late # "none" THEN "any" ELSE wanted
  /\ UNCHANGED <<run, d, fd, inbox, store, profile, broken, lid, cond, lost, budget>>

-----------------------------------------------------------------------------

Handler ==
  \/ Decide \/ Keep \/ Sync \/ Final \/ PowerOff \/ Drop \/ Blank
  \/ Claim \/ Recheck \/ Own \/ Lower \/ Lowered
  \/ Clear \/ Wake \/ Restore \/ Raise \/ Raised \/ Prepare \/ Judge

World ==
  \/ LidMoves \/ ConditionsChange \/ UserPicks \/ GameStarts \/ GameEnds \/ LateLands
  \/ Relight \/ DeadlinePasses \/ RequestSleep \/ Suspend \/ WakesUp

Next ==
  \/ Tick \/ Receive \/ Debounced \/ Poll \/ Handler \/ PrepareExpires \/ Fade
  \/ Crash \/ Start \/ PowerCut \/ BootUp \/ World

Spec == Init /\ [][Next]_vars

\* The main loop dispatches every ready source in turn, calls return (their timeouts
\* are failures), systemd restarts the service, and KWin ends its transitions.
FairSpec == /\ Spec
            /\ WF_vars(Handler) /\ WF_vars(Start) /\ WF_vars(Tick) /\ WF_vars(Poll)
            /\ SF_vars(Receive \/ Debounced)
            /\ WF_vars(PrepareExpires) /\ WF_vars(Fade)

-----------------------------------------------------------------------------
(* Properties *)

\* The profile in force is the one that user and game want, or powersave with a
\* record that names what is wanted, through retries, kills, boots and a lid that
\* moves at any moment: what was lowered is not forgotten, and a choice the service
\* finds at its look at the profile is kept (close 679, open 719).  A choice that falls
\* between that look and the command (684, 729), or meets a command that outlived its
\* four seconds, the code overwrites: it leaves "wanted" open, as do a powersave chosen
\* and a game that raises the profile while the service has it lowered.
WantedProfileIsKept ==
  \/ wanted = "any" \/ profile = wanted
  \/ profile = "powersave" /\ store.phase \in Lowering /\ store.restore = wanted

\* A deadline of this boot has seen nothing that speaks against it: once a handler has
\* seen the lid open, another lid mode, the charger, the setting "never" or one that it
\* could not read, and has come to its end with no write failing, that deadline is gone,
\* also if waking the panels or the profile failed (open, sync_auto_poweroff).  The
\* machine is powered off only by a deadline of this boot that has passed.
DeadlineIsCurrent ==
  /\ store.deadline.minutes # 0 /\ store.deadline.boot = boot => ~broken
  /\ pc = "poweroff" => /\ store.deadline.minutes # 0 /\ store.deadline.boot = boot
                        /\ store.deadline.past

Settled == pc # "off" /\ login = "awake" /\ ~lost

\* However lid, sleep, failures and restarts interleaved: in the end the panels follow
\* the lid, and with an open lid the file is gone, unless the poll of the main loop
\* has died (_tick, _apply, prepare_sleep).
LidIsFollowed ==
  <>[](Settled /\ d.ticking) =>
    <>[](IF lid THEN panel # "on" ELSE panel = "on" /\ ~Usable)

\* logind is not kept waiting: what holds the inhibitor lets go of it, in time or after
\* its own four seconds (_prepare_step).
SleepGoesAhead == login = "delaying" /\ fd ~> login # "delaying" \/ ~fd

\* After any sleep, missed signal or restart the service delays the next sleep again.
DelayIsTaken == <>[](Settled /\ d.ticking) => <>[]fd
=============================================================================

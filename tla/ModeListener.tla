------------------------------ MODULE ModeListener ------------------------------
(***************************************************************************)
(* components/inputplumber/pocketds-mode-listener.py: the root service     *)
(* that turns InputPlumber's press and release signals of Menu, View and   *)
(* '=' into actions.  View takes part in two chords: with '=' it switches  *)
(* the input mode, with Menu it asks for, and then confirms, the end of a  *)
(* game.  Alone, View and '=' act on release.  While the controller test   *)
(* has the pad (its gate file) nothing acts, and what was held is          *)
(* forgotten.                                                              *)
(*                                                                         *)
(* One main loop handles one signal or timer at a time; a handler may wait *)
(* up to a second for a command while keys, gate and mode move on.         *)
(***************************************************************************)
EXTENDS Naturals, Sequences

CONSTANTS
  MaxPresses,  \* bound: presses of keys
  MaxRepeats,  \* bound: samples that arrive again by the second Guide path
  MaxTests,    \* bound: controller tests
  MaxQueue,    \* bound: signals that wait for the main loop
  MaxFaults    \* bound: lost signals, failing commands and restarts of the service

ASSUME ListenerBounds == {MaxPresses, MaxRepeats, MaxTests, MaxQueue, MaxFaults} \subseteq Nat

Exits == {"menu", "view"}            \* EXIT_ACTIONS
Pair  == {"view", "equals"}          \* MODE_ACTIONS
Keys  == Exits \cup Pair

VARIABLES
  pc,          \* where the handler is; "idle": in the main loop
  key,         \* the key of the signal in hand, and whether it is pressed
  pressed,
  suppress,    \* suppress_single
  inbox,       \* signals not yet dispatched
  held,        \* [exit, mode]: EXIT_HELD and MODE_HELD
  exit,        \* [latched, consumed]: EXIT_CHORD_LATCHED, EXIT_VIEW_CONSUMED
  confirm,     \* EXIT_CONFIRM_UNTIL lies ahead
  latched,     \* MODE_CHORD_LATCHED
  reset,       \* MODE_RESET_SOURCE is armed
  keys,        \* keys that are down
  gate,        \* the controller test has the pad
  observed,    \* the 50 ms source has run since the gate closed
  budget,      \* [presses, repeats, tests, faults] used so far
  seen,        \* history: keys down by the signals handled so far
  tap,         \* history: what became of the press of View or '='
  apart,       \* history: Menu and View were both up since the last prompt
  fresh,       \* history: View and '=' were both up, or a handler broke off at View's press,
               \* since the last switch
  excused       \* history: a handler overslept a test, or broke off at View's press

hand    == <<key, pressed, suppress>>
chords  == <<held, exit, confirm, latched, reset>>
world   == <<keys, gate, observed>>
history == <<seen, tap, apart, fresh, excused>>
vars    == <<pc, hand, inbox, chords, world, budget, history>>

None(K)  == [k \in K |-> FALSE]
Full(h)  == \A k \in DOMAIN h : h[k]
Empty(h) == \A k \in DOMAIN h : ~h[k]
\* "none": not pressed, or its single action was sent; "spoilt": not to be sent
Taps == {"none", "alone", "spoilt"}

TypeOK ==
  /\ pc \in {"idle", "exit", "ask", "mode", "toggle", "status", "send"}
  /\ key \in Keys /\ {pressed, suppress, confirm, latched, reset, gate, observed,
                      apart, fresh, excused} \subseteq BOOLEAN
  /\ inbox \in Seq(Keys \X BOOLEAN)
  /\ held \in [exit : [Exits -> BOOLEAN], mode : [Pair -> BOOLEAN]]
  /\ exit \in [latched : BOOLEAN, consumed : BOOLEAN]
  /\ keys \in [Keys -> BOOLEAN] /\ seen \in [Keys -> BOOLEAN] /\ tap \in [Pair -> Taps]
  /\ budget \in [presses : Nat, repeats : Nat, tests : Nat, faults : Nat]
  /\ pc = "mode" => key \in Pair
  /\ pc \in {"exit", "ask"} => exit.latched
  /\ pc = "status" => ~held.mode[key]
  /\ latched \/ ~Empty(held.mode) => reset

Init ==
  /\ pc = "idle" /\ key = "menu" /\ pressed = FALSE /\ suppress = FALSE /\ inbox = <<>>
  /\ held = [exit |-> None(Exits), mode |-> None(Pair)]
  /\ exit = [latched |-> FALSE, consumed |-> FALSE]
  /\ confirm = FALSE /\ latched = FALSE /\ reset = FALSE
  /\ keys = None(Keys) /\ gate = FALSE /\ observed = FALSE
  /\ budget = [presses |-> 0, repeats |-> 0, tests |-> 0, faults |-> 0]
  /\ seen = None(Keys) /\ tap = [k \in Pair |-> "none"]
  /\ apart = TRUE /\ fresh = TRUE /\ excused = FALSE

-----------------------------------------------------------------------------
(* Building blocks *)

Spend(field, bound) == /\ budget[field] < bound
                       /\ budget' = [budget EXCEPT ![field] = @ + 1]
Fault == Spend("faults", MaxFaults)
Fine  == UNCHANGED budget

Goto(step) == /\ pc' = step
              /\ IF step = "idle" THEN key' = "menu" /\ pressed' = FALSE /\ suppress' = FALSE
                                  ELSE UNCHANGED hand
Quiet      == UNCHANGED <<inbox, world, history>>

\* Deliberate bug: the timer goes, and what was held stays.
ClearModeHalf == latched' = FALSE /\ reset' = FALSE /\ UNCHANGED held

\* clear_mode_chord.
ClearMode == /\ held' = [held EXCEPT !.mode = None(Pair)]
             /\ latched' = FALSE /\ reset' = FALSE

\* clear_controller_test_chords.
Forget == /\ held' = [exit |-> None(Exits), mode |-> None(Pair)]
          /\ exit' = [latched |-> FALSE, consumed |-> FALSE]
          /\ confirm' = FALSE /\ latched' = FALSE /\ reset' = FALSE

\* After update_exit_chord: View goes on to update_mode_chord.
AfterExit(consumed) ==
  IF key = "view" THEN pc' = "mode" /\ suppress' = consumed /\ UNCHANGED <<key, pressed>>
                  ELSE Goto("idle")

\* A command that cannot be started ends the handler: View's press stays half done.
\* The chord of '=' and View may then start anew under a View that was never let go.
BreaksOff == /\ Fault /\ Goto("idle")
             /\ excused' = (excused \/ key = "view") /\ fresh' = (fresh \/ key = "view")
Ends      == Fine /\ UNCHANGED <<excused, fresh>>

-----------------------------------------------------------------------------
(* The main loop *)

\* History of a signal: a press counts as a tap of its own if no key of a chord is down.
Partners(k) == IF k = "view" THEN {"menu", "equals"} ELSE {"view"}
Observe(k, down) ==
  LET now == [seen EXCEPT ![k] = down] IN
  /\ seen' = now
  /\ tap' = [p \in Pair |->
       IF p = k /\ down /\ ~seen[k]
         THEN IF \E q \in Partners(k) : now[q] THEN "spoilt" ELSE "alone"
       ELSE IF k \in Partners(p) /\ now[p] /\ down THEN "spoilt" ELSE tap[p]]
  /\ apart' = (apart \/ (~now["menu"] /\ ~now["view"]))
  /\ fresh' = (fresh \/ (~now["view"] /\ ~now["equals"]))

\* Deliberate bug: Menu is let go and pressed again under a held View: a chord anew.
ExitUnlatched(h) == [latched |-> Full(h), consumed |-> ~Empty(h) /\ (exit.consumed \/ Full(h))]

\* The latch of the exit chord is only released with both keys.
ExitLatch(h) == [latched  |-> ~Empty(h) /\ (exit.latched \/ Full(h)),
                 consumed |-> ~Empty(h) /\ (exit.consumed \/ (Full(h) /\ ~exit.latched))]

\* on_input_event and update_exit_chord.
Receive ==
  /\ pc = "idle" /\ inbox # <<>> /\ inbox' = Tail(inbox) /\ Fine
  /\ LET k == Head(inbox)[1]
         down == Head(inbox)[2]
         h == [held.exit EXCEPT ![k] = down]
     IN /\ Observe(k, down)
        /\ \/ gate /\ Forget /\ Goto("idle")
           \/ /\ ~gate /\ key' = k /\ pressed' = down /\ UNCHANGED <<confirm, latched, reset>>
              /\ IF k = "equals"
                   THEN pc' = "mode" /\ suppress' = FALSE /\ UNCHANGED <<held, exit>>
                   ELSE /\ held' = [held EXCEPT !.exit = h] /\ exit' = ExitLatch(h)
                        /\ suppress' = (k = "view" /\ exit.consumed)
                        /\ pc' = IF Full(h) /\ ~exit.latched THEN "exit"
                                 ELSE IF k = "view" THEN "mode" ELSE "idle"
  /\ UNCHANGED <<world, excused>>

\* observe_controller_test_gate, every 50 ms.
TickBlind == /\ pc = "idle" /\ gate /\ observed' = TRUE        \* deliberate bug
             /\ UNCHANGED <<pc, hand, inbox, chords, keys, gate,
                            budget, history>>
Tick == /\ pc = "idle" /\ gate /\ Forget /\ observed' = TRUE
        /\ UNCHANGED <<pc, hand, inbox, keys, gate, budget, history>>

\* expire_mode_chord: ten seconds without a signal of View or '='.
Expire == /\ pc = "idle" /\ reset /\ ClearMode
          /\ seen' = [k \in Keys |-> k \notin Pair /\ seen[k]]
          /\ tap' = [k \in Pair |-> "none"] /\ fresh' = TRUE
          /\ UNCHANGED <<pc, hand, inbox, exit, confirm, world, apart, excused, budget>>

-----------------------------------------------------------------------------
(* Menu and View *)

\* handle_exit_chord: a chord within the window ends the game, ...
ExitChord ==
  /\ pc = "exit"
  /\ \/ gate /\ Forget /\ AfterExit(FALSE) /\ Ends
     \/ /\ ~gate /\ confirm' = FALSE /\ UNCHANGED <<held, exit, latched, reset>>
        /\ \/ confirm /\ AfterExit(exit.consumed) /\ Ends
           \/ confirm /\ BreaksOff
           \/ ~confirm /\ Goto("ask") /\ Ends
  /\ UNCHANGED <<inbox, world, seen, tap, apart>>

\* ... any other asks whether there is a game, for up to a second, and if so opens the
\* window with a prompt.
Ask ==
  /\ pc = "ask"
  /\ \/ AfterExit(exit.consumed) /\ Ends /\ UNCHANGED <<confirm, apart>>
     \/ confirm' = TRUE /\ apart' = FALSE /\ (BreaksOff \/ (AfterExit(exit.consumed) /\ Ends))
  /\ UNCHANGED <<inbox, held, exit, latched, reset, world, seen, tap>>

-----------------------------------------------------------------------------
(* View and '=' *)

\* Deliberate bug: the timer starts with the chord instead of the first key.
ModeArmedLate(h) == reset \/ Full(h)
ModeArmed(h) == TRUE

\* update_mode_chord.
Mode ==
  /\ pc = "mode" /\ Fine
  /\ LET h == [held.mode EXCEPT ![key] = pressed]
         silent == pressed \/ latched \/ suppress
     IN IF held.mode[key] = pressed THEN Goto("idle") /\ UNCHANGED chords
        ELSE /\ UNCHANGED <<exit, confirm>>
             /\ IF Full(h) \/ ~silent \/ ~Empty(h)
                  THEN /\ held' = [held EXCEPT !.mode = h] /\ reset' = ModeArmed(h)
                       /\ latched' = (latched \/ Full(h))
                  ELSE ClearMode
             /\ Goto(IF Full(h) THEN IF latched THEN "idle" ELSE "toggle"
                     ELSE IF silent THEN "idle" ELSE "status")
  /\ Quiet

\* toggle_input_mode: starts pocketds-toggle-joymouse and does not wait for it.
Toggle ==
  /\ pc = "toggle" /\ Goto("idle")
  /\ \/ gate /\ Forget /\ Fine /\ UNCHANGED fresh
     \/ ~gate /\ Fine /\ fresh' = FALSE /\ UNCHANGED chords
     \/ ~gate /\ Fault /\ UNCHANGED <<chords, fresh>>
  /\ UNCHANGED <<inbox, world, seen, tap, apart, excused>>

\* handle_view_single, handle_equals_single: pocketds-input-mode status, at most 1 s.
\* '=' acts in gamepad mode only, View in both, and neither if the mode is not known.
Status == /\ pc = "status" /\ Fine /\ UNCHANGED chords /\ Quiet
          /\ \E mode \in {"gamepad", "joymouse", "unknown"} :
               Goto(IF mode = "gamepad" \/ (mode = "joymouse" /\ key = "view")
                      THEN "send" ELSE "idle")

\* send_gamepad_click or invoke_kwin_shortcut.
Send ==
  /\ pc = "send" /\ Goto("idle")
  /\ \/ gate /\ Forget /\ Fine /\ UNCHANGED tap
     \/ ~gate /\ Fine /\ tap' = [tap EXCEPT ![key] = "none"] /\ UNCHANGED chords
     \/ ~gate /\ Fault /\ UNCHANGED <<chords, tap>>
  /\ UNCHANGED <<inbox, world, seen, apart, fresh, excused>>

-----------------------------------------------------------------------------
(* The world *)

Listener == <<pc, hand, chords>>
Emit(k)  == Len(inbox) < MaxQueue /\ inbox' = Append(inbox, <<k, keys'[k]>>)

Press(k) ==
  /\ ~keys[k] /\ keys' = [keys EXCEPT ![k] = TRUE]
  /\ Spend("presses", MaxPresses) /\ Emit(k)
  /\ UNCHANGED <<Listener, gate, observed, history>>

\* A release; InputPlumber may lose it with its targets or when it restarts.
Let(k) ==
  /\ keys[k] /\ keys' = [keys EXCEPT ![k] = FALSE]
  /\ \/ Emit(k) /\ Fine
     \/ Fault /\ UNCHANGED inbox
  /\ UNCHANGED <<Listener, gate, observed, history>>

\* The second Guide path, MCU or composite device.
Repeat ==
  /\ Spend("repeats", MaxRepeats) /\ UNCHANGED keys /\ Emit("equals")
  /\ UNCHANGED <<Listener, gate, observed, history>>

\* The five seconds of the prompt are over.
WindowPasses == /\ pc = "idle" /\ confirm /\ confirm' = FALSE
                /\ UNCHANGED <<pc, hand, inbox, held, exit, latched, reset, world, budget, history>>

\* A controller test: whatever was pressed before its end counts no more.  It lasts long
\* enough for an idle main loop to dispatch what was queued and to see the gate (50 ms),
\* but a handler may wait for a command all the while.
GateCloses ==
  /\ ~gate /\ gate' = TRUE /\ observed' = FALSE /\ Spend("tests", MaxTests)
  /\ UNCHANGED <<Listener, inbox, keys, history>>
GateOpens ==
  /\ gate /\ gate' = FALSE
  /\ fresh' = TRUE /\ seen' = None(Keys) /\ tap' = [k \in Pair |-> "spoilt"]
  /\ \/ pc = "idle" /\ observed /\ inbox = <<>> /\ UNCHANGED excused
     \/ pc \in {"ask", "status"} /\ excused' = TRUE
  /\ UNCHANGED <<Listener, inbox, keys, observed, apart, budget>>

\* The service is restarted: a new process knows of no key.
Restart ==
  /\ pc = "idle" /\ Fault /\ Forget /\ inbox' = <<>> /\ UNCHANGED <<pc, hand>>
  /\ seen' = None(Keys) /\ tap' = [k \in Pair |-> "spoilt"] /\ fresh' = TRUE /\ apart' = TRUE
  /\ UNCHANGED <<world, excused>>

-----------------------------------------------------------------------------

Handler == ExitChord \/ Ask \/ Mode \/ Toggle \/ Status \/ Send
World   == \/ \E k \in Keys : Press(k) \/ Let(k)
           \/ Repeat \/ WindowPasses \/ GateCloses \/ GateOpens
Next    == Handler \/ Receive \/ Tick \/ Expire \/ World \/ Restart

Spec == Init /\ [][Next]_vars

\* Handlers end (their commands have a timeout), signals are dispatched, timers fire.
FairSpec == Spec /\ WF_vars(Handler) /\ WF_vars(Receive) /\ WF_vars(Expire)

-----------------------------------------------------------------------------
(* Properties *)

\* A single action is sent for one tap of its own key: once for a press, whatever the
\* second path repeats, never if another key of a chord was down meanwhile, and never
\* for a press from before a controller test, unless a handler overslept that test or broke
\* off in the middle of View's press.
SinglesAreTaps ==
  pc = "send" /\ ~gate => tap[key] = "alone" \/ excused

\* A chord acts once.  The game is ended by a second chord only, after Menu and View
\* were both let go since the prompt; and after a switch of the mode View and '=' are
\* both let go, or ten seconds or a test pass, or the handler of View's press breaks off,
\* before the next.
ChordsActOnce ==
  /\ pc = "exit" /\ ~gate /\ confirm => apart
  /\ pc = "toggle" /\ ~gate => fresh

\* Lost releases, repeats and restarts leave no half of the mode chord behind: when the
\* keys are quiet, ten seconds later nothing is held, latched or armed.
GestureHeals == <>[](Empty(held.mode) /\ ~latched /\ ~reset)
=============================================================================

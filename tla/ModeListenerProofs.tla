-------------------------- MODULE ModeListenerProofs --------------------------
(***************************************************************************)
(* Proofs about the mode listener, for any number of key presses,          *)
(* repeated samples, controller tests, waiting signals and faults.         *)
(***************************************************************************)
EXTENDS ModeListener, SequenceTheorems, TLAPS

-----------------------------------------------------------------------------
(* Data *)

\* The keys by name.
LEMMA KeysAre ==
  /\ Keys = {"menu", "view", "equals"} /\ Pair = {"view", "equals"} /\ Exits = {"menu", "view"}
  /\ "menu" \in Keys /\ "view" \in Keys /\ "equals" \in Keys
  /\ "view" \in Pair /\ "equals" \in Pair /\ "menu" \in Exits /\ "view" \in Exits
BY DEF Keys, Pair, Exits

\* What is held of a chord.
LEMMA Chords ==
  /\ \A h \in [Pair -> BOOLEAN] : /\ Full(h) <=> h["view"] /\ h["equals"]
                                  /\ Empty(h) <=> ~h["view"] /\ ~h["equals"]
  /\ \A h \in [Exits -> BOOLEAN] : /\ Full(h) <=> h["menu"] /\ h["view"]
                                   /\ Empty(h) <=> ~h["menu"] /\ ~h["view"]
BY DEF Full, Empty, Pair, Exits

\* Nothing held.
LEMMA NoneHeld ==
  /\ None(Pair) \in [Pair -> BOOLEAN] /\ Empty(None(Pair)) /\ ~Full(None(Pair))
  /\ None(Exits) \in [Exits -> BOOLEAN] /\ Empty(None(Exits)) /\ ~Full(None(Exits))
  /\ None(Keys) \in [Keys -> BOOLEAN] /\ \A k \in Keys : ~None(Keys)[k]
BY DEF None, Full, Empty, Pair, Exits, Keys

\* One fault, press, repeat or test more keeps the count a count.
LEMMA SpendType ==
  ASSUME TypeOK, NEW f \in {"presses", "repeats", "tests", "faults"}, NEW b, Spend(f, b)
  PROVE  budget' \in [presses : Nat, repeats : Nat, tests : Nat, faults : Nat]
BY DEF TypeOK, Spend

-----------------------------------------------------------------------------
(* Type correctness *)

Booleans == /\ pressed \in BOOLEAN /\ suppress \in BOOLEAN /\ confirm \in BOOLEAN
            /\ latched \in BOOLEAN /\ reset \in BOOLEAN /\ gate \in BOOLEAN
            /\ observed \in BOOLEAN /\ apart \in BOOLEAN /\ fresh \in BOOLEAN
            /\ excused \in BOOLEAN

LEMMA TypeIs == TypeOK => Booleans /\ held.mode \in [Pair -> BOOLEAN]
                          /\ held.exit \in [Exits -> BOOLEAN]
BY DEF TypeOK, Booleans

LEMMA InitType == Init => TypeOK
<1> SUFFICES ASSUME Init PROVE TypeOK
  OBVIOUS
<1>1. tap \in [Pair -> Taps]
  BY DEF Init, Taps
<1>2. inbox \in Seq(Keys \X BOOLEAN)
  BY DEF Init
<1>3. budget \in [presses : Nat, repeats : Nat, tests : Nat, faults : Nat]
  BY DEF Init
<1>4. /\ keys \in [Keys -> BOOLEAN] /\ seen \in [Keys -> BOOLEAN]
      /\ held \in [exit : [Exits -> BOOLEAN], mode : [Pair -> BOOLEAN]] /\ Empty(held.mode)
  BY NoneHeld DEF Init
<1> QED  BY <1>1, <1>2, <1>3, <1>4, KeysAre DEF Init, TypeOK

LEMMA GotoType ==
  ASSUME TypeOK, NEW s, Goto(s)
  PROVE  key' \in Keys /\ pressed' \in BOOLEAN /\ suppress' \in BOOLEAN /\ pc' = s
         /\ (s # "idle" => key' = key)
BY KeysAre DEF TypeOK, Goto, hand

LEMMA ObserveType ==
  ASSUME TypeOK, NEW k \in Keys, NEW d \in BOOLEAN, Observe(k, d)
  PROVE  /\ seen' \in [Keys -> BOOLEAN] /\ tap' \in [Pair -> Taps]
         /\ apart' \in BOOLEAN /\ fresh' \in BOOLEAN
<1>1. seen' \in [Keys -> BOOLEAN]
  BY DEF Observe, TypeOK
<1>2. \A p \in Pair : tap[p] \in Taps
  BY DEF TypeOK
<1>3. tap' \in [Pair -> Taps]
  BY <1>2 DEF Observe, Taps
<1>4. apart' \in BOOLEAN /\ fresh' \in BOOLEAN
  BY DEF Observe, TypeOK
<1> QED  BY <1>1, <1>3, <1>4

-----------------------------------------------------------------------------
(* What the handlers do to the chords *)

Holds == [exit : [Exits -> BOOLEAN], mode : [Pair -> BOOLEAN]]
Latches == [latched : BOOLEAN, consumed : BOOLEAN]

\* Nothing is held or latched any more.
LEMMA Forgets ==
  ASSUME Forget
  PROVE  /\ held' \in Holds /\ held'.mode = None(Pair) /\ held'.exit = None(Exits)
         /\ exit' \in Latches /\ exit'.latched = FALSE /\ exit'.consumed = FALSE
         /\ confirm' = FALSE /\ latched' = FALSE /\ reset' = FALSE
BY NoneHeld DEF Forget, Holds, Latches

\* Nothing of the mode chord is held or latched any more.
LEMMA Clears ==
  ASSUME TypeOK, ClearMode
  PROVE  /\ held' \in Holds /\ held'.mode = None(Pair) /\ held'.exit = held.exit
         /\ latched' = FALSE /\ reset' = FALSE
<1>1. held' = [held EXCEPT !.mode = None(Pair)]
  BY DEF ClearMode
<1>2. held \in Holds
  BY DEF TypeOK, Holds
<1>3. held' \in Holds /\ held'.mode = None(Pair) /\ held'.exit = held.exit
  BY <1>1, <1>2, NoneHeld DEF Holds
<1> QED  BY <1>3 DEF ClearMode

\* One key of the mode chord changes.
ModeNow == [held.mode EXCEPT ![key] = pressed]
LEMMA ModeNowIs ==
  ASSUME TypeOK, key \in Pair
  PROVE  /\ ModeNow \in [Pair -> BOOLEAN] /\ ModeNow[key] = pressed
         /\ \A p \in Pair : p # key => ModeNow[p] = held.mode[p]
<1>1. held.mode \in [Pair -> BOOLEAN] /\ pressed \in BOOLEAN
  BY TypeIs DEF Booleans
<1> QED  BY <1>1 DEF ModeNow

LEMMA ModeDoes ==
  ASSUME TypeOK, Mode
  PROVE  /\ pc = "mode" /\ key \in Pair /\ UNCHANGED <<exit, confirm, inbox, world, history, budget>>
         /\ held' \in Holds /\ held'.exit = held.exit
         /\ \/ held.mode[key] = pressed /\ UNCHANGED chords /\ pc' = "idle"
            \/ /\ held.mode[key] # pressed /\ held'.mode = ModeNow /\ reset' = TRUE /\ Full(ModeNow)
               /\ latched' = TRUE /\ pc' = IF latched THEN "idle" ELSE "toggle"
            \/ /\ held.mode[key] # pressed /\ held'.mode = ModeNow /\ reset' = TRUE /\ ~Full(ModeNow)
               /\ latched' = latched
               /\ pc' = IF pressed \/ latched \/ suppress THEN "idle" ELSE "status"
            \/ /\ held.mode[key] # pressed /\ held'.mode = None(Pair) /\ reset' = FALSE /\ latched' = FALSE
               /\ ~Full(ModeNow) /\ Empty(ModeNow) /\ pc' = "idle" /\ (latched \/ suppress)
         /\ pc' = "status" => key' = key
<1>1. pc = "mode" /\ key \in Pair /\ UNCHANGED <<inbox, world, history, budget>>
  BY DEF Mode, TypeOK, Fine, Quiet
<1>2. held \in Holds
  BY DEF TypeOK, Holds
<1>3. ModeNow \in [Pair -> BOOLEAN] /\ ModeNow[key] = pressed
  BY <1>1, ModeNowIs
<1>4. latched \in BOOLEAN /\ pressed \in BOOLEAN /\ suppress \in BOOLEAN
  BY TypeIs DEF Booleans
<1>5. CASE held.mode[key] = pressed
  <2>1. UNCHANGED chords /\ Goto("idle")
    BY <1>5 DEF Mode
  <2> QED  BY <1>1, <1>2, <1>5, <2>1, GotoType DEF chords
<1>6. CASE held.mode[key] # pressed
  <2> DEFINE silent == pressed \/ latched \/ suppress
  <2>1. /\ UNCHANGED <<exit, confirm>>
        /\ IF Full(ModeNow) \/ ~silent \/ ~Empty(ModeNow)
             THEN /\ held' = [held EXCEPT !.mode = ModeNow] /\ reset' = ModeArmed(ModeNow)
                  /\ latched' = (latched \/ Full(ModeNow))
             ELSE ClearMode
        /\ Goto(IF Full(ModeNow) THEN IF latched THEN "idle" ELSE "toggle"
                ELSE IF silent THEN "idle" ELSE "status")
    BY <1>6 DEF Mode, ModeNow
  <2>2. /\ pc' = IF Full(ModeNow) THEN IF latched THEN "idle" ELSE "toggle"
                 ELSE IF silent THEN "idle" ELSE "status"
        /\ pc' = "status" => key' = key
    BY <2>1, GotoType
  <2>3. CASE Full(ModeNow) \/ ~silent \/ ~Empty(ModeNow)
    <3>1. held' = [held EXCEPT !.mode = ModeNow] /\ reset' = TRUE /\ latched' = (latched \/ Full(ModeNow))
      BY <2>1, <2>3 DEF ModeArmed
    <3>2. held' \in Holds /\ held'.mode = ModeNow /\ held'.exit = held.exit
      BY <3>1, <1>2, <1>3 DEF Holds
    <3>3. Full(ModeNow) \in BOOLEAN
      BY DEF Full
    <3> HIDE DEF ModeNow
    <3>5. CASE Full(ModeNow)
      <4>1. latched' = TRUE
        BY <3>5, <3>1, <1>4
      <4> QED  BY <3>5, <3>1, <3>2, <4>1, <2>1, <2>2, <1>1, <1>6, <1>4
    <3>6. CASE ~Full(ModeNow)
      <4>1. latched' = latched
        BY <3>6, <3>1, <1>4
      <4> QED  BY <4>1, <3>6, <3>1, <3>2, <2>1, <2>2, <1>1, <1>6, <1>4
    <3> QED  BY <3>5, <3>6
  <2>4. CASE ~(Full(ModeNow) \/ ~silent \/ ~Empty(ModeNow))
    <3>1. ClearMode
      BY <2>1, <2>4
    <3>2. pressed => ~Empty(ModeNow)
      BY <1>1, <1>3, <1>4 DEF Empty
    <3> QED  BY <3>1, <3>2, Clears, <2>1, <2>2, <2>4, <1>1, <1>6, <1>4
  <2> QED  BY <2>3, <2>4
<1> QED  BY <1>5, <1>6

\* A handler of Menu or View goes on to the mode chord, or it is done.
LEMMA AfterExitDoes ==
  ASSUME TypeOK, NEW c \in BOOLEAN, AfterExit(c)
  PROVE  /\ pc' = IF key = "view" THEN "mode" ELSE "idle"
         /\ key = "view" => key' = "view" /\ pressed' = pressed /\ suppress' = c
         /\ key' \in Keys /\ pressed' \in BOOLEAN /\ suppress' \in BOOLEAN
BY GotoType, KeysAre, TypeIs DEF AfterExit, Booleans, TypeOK

\* A handler that ends before its command, or whose command fails.
LEMMA HandlerEnds ==
  ASSUME TypeOK
  PROVE  /\ BreaksOff => /\ pc' = "idle" /\ excused' = (excused \/ key = "view")
                         /\ fresh' = (fresh \/ key = "view")
         /\ Ends => UNCHANGED <<budget, excused, fresh>>
BY GotoType DEF BreaksOff, Ends, Fine

\* What the handler of the exit chord does: it forgets, ends the game, breaks off or asks.
LEMMA ExitChordDoes ==
  ASSUME TypeOK, ExitChord
  PROVE  /\ pc = "exit" /\ UNCHANGED <<inbox, world, seen, tap, apart>>
         /\ key' \in Keys /\ pressed' \in BOOLEAN /\ suppress' \in BOOLEAN
         /\ \/ /\ gate /\ Forget /\ UNCHANGED <<budget, excused, fresh>>
               /\ pc' = IF key = "view" THEN "mode" ELSE "idle"
               /\ key = "view" => key' = "view" /\ pressed' = pressed /\ suppress' = FALSE
            \/ /\ ~gate /\ confirm' = FALSE /\ UNCHANGED <<held, exit, latched, reset>>
               /\ UNCHANGED <<budget, excused, fresh>>
               /\ pc' = IF key = "view" THEN "mode" ELSE "idle"
               /\ key = "view" => key' = "view" /\ pressed' = pressed /\ suppress' = exit.consumed
            \/ /\ ~gate /\ confirm' = FALSE /\ UNCHANGED <<held, exit, latched, reset>>
               /\ pc' = "idle" /\ excused' = (excused \/ key = "view")
               /\ fresh' = (fresh \/ key = "view") /\ Fault
            \/ /\ ~gate /\ ~confirm /\ confirm' = FALSE /\ UNCHANGED <<held, exit, latched, reset>>
               /\ UNCHANGED <<budget, excused, fresh>>
               /\ pc' = "ask" /\ UNCHANGED hand
<1>1. exit.consumed \in BOOLEAN
  BY DEF TypeOK
<1>2. CASE gate /\ Forget /\ AfterExit(FALSE) /\ Ends
  BY <1>2, AfterExitDoes, HandlerEnds DEF ExitChord
<1>3. CASE ~gate /\ confirm' = FALSE /\ UNCHANGED <<held, exit, latched, reset>>
           /\ confirm /\ AfterExit(exit.consumed) /\ Ends
  BY <1>1, <1>3, AfterExitDoes, HandlerEnds DEF ExitChord
<1>4. CASE ~gate /\ confirm' = FALSE /\ UNCHANGED <<held, exit, latched, reset>> /\ confirm /\ BreaksOff
  BY <1>4, HandlerEnds, GotoType DEF ExitChord, BreaksOff
<1>5. CASE ~gate /\ confirm' = FALSE /\ UNCHANGED <<held, exit, latched, reset>>
           /\ ~confirm /\ Goto("ask") /\ Ends
  <2>1. UNCHANGED hand /\ pc' = "ask"
    BY <1>5 DEF Goto
  <2> QED  BY <1>5, <2>1, HandlerEnds, GotoType DEF ExitChord
<1> QED  BY <1>2, <1>3, <1>4, <1>5 DEF ExitChord

\* What follows the answer to the question whether there is a game.
LEMMA AskDoes ==
  ASSUME TypeOK, Ask
  PROVE  /\ pc = "ask" /\ UNCHANGED <<inbox, held, exit, latched, reset, world, seen, tap>>
         /\ key' \in Keys /\ pressed' \in BOOLEAN /\ suppress' \in BOOLEAN
         /\ \/ UNCHANGED <<confirm, apart>> \/ (confirm' = TRUE /\ apart' = FALSE)
         /\ \/ /\ UNCHANGED <<budget, excused, fresh>>
               /\ pc' = IF key = "view" THEN "mode" ELSE "idle"
               /\ key = "view" => key' = "view" /\ pressed' = pressed /\ suppress' = exit.consumed
            \/ /\ pc' = "idle" /\ excused' = (excused \/ key = "view")
               /\ fresh' = (fresh \/ key = "view") /\ Fault
<1>1. exit.consumed \in BOOLEAN
  BY DEF TypeOK
<1>2. CASE AfterExit(exit.consumed) /\ Ends
  BY <1>1, <1>2, AfterExitDoes, HandlerEnds DEF Ask
<1>3. CASE BreaksOff
  BY <1>3, HandlerEnds, GotoType DEF Ask, BreaksOff
<1> QED  BY <1>2, <1>3 DEF Ask

\* What a signal does: under the gate all is forgotten; '=' goes to the mode chord, Menu
\* and View through the exit chord.
LEMMA ReceiveDoes ==
  ASSUME TypeOK, Receive
  PROVE  /\ pc = "idle" /\ UNCHANGED <<world, excused, budget>>
         /\ inbox' \in Seq(Keys \X BOOLEAN)
         /\ key' \in Keys /\ pressed' \in BOOLEAN /\ suppress' \in BOOLEAN
         /\ \E k \in Keys, down \in BOOLEAN :
              /\ Observe(k, down)
              /\ \/ gate /\ Forget /\ pc' = "idle"
                 \/ /\ ~gate /\ k = "equals" /\ key' = k /\ pressed' = down /\ suppress' = FALSE
                    /\ pc' = "mode" /\ UNCHANGED <<held, exit, confirm, latched, reset>>
                 \/ /\ ~gate /\ k \in Exits /\ key' = k /\ pressed' = down
                    /\ UNCHANGED <<confirm, latched, reset>>
                    /\ held' \in Holds /\ held'.mode = held.mode /\ held'.exit[k] = down
                    /\ \A q \in Exits : q # k => held'.exit[q] = held.exit[q]
                    /\ exit' \in Latches /\ exit' = ExitLatch(held'.exit)
                    /\ suppress' = (k = "view" /\ exit.consumed)
                    /\ pc' = IF Full(held'.exit) /\ ~exit.latched THEN "exit"
                             ELSE IF k = "view" THEN "mode" ELSE "idle"
<1>1. PICK k \in Keys, down \in BOOLEAN : Head(inbox) = <<k, down>>
  <2>1. inbox \in Seq(Keys \X BOOLEAN) /\ inbox # <<>>
    BY DEF TypeOK, Receive
  <2>2. Head(inbox) \in Keys \X BOOLEAN
    BY <2>1, HeadTailProperties
  <2> QED  BY <2>2
<1>2. inbox' \in Seq(Keys \X BOOLEAN)
  <2>1. inbox \in Seq(Keys \X BOOLEAN) /\ inbox # <<>> /\ inbox' = Tail(inbox)
    BY DEF TypeOK, Receive
  <2> QED  BY <2>1, HeadTailProperties
<1> DEFINE h == [held.exit EXCEPT ![k] = down]
<1>3. /\ Observe(k, down) /\ pc = "idle" /\ UNCHANGED <<world, excused, budget>>
      /\ \/ gate /\ Forget /\ Goto("idle")
         \/ /\ ~gate /\ key' = k /\ pressed' = down /\ UNCHANGED <<confirm, latched, reset>>
            /\ IF k = "equals"
                 THEN pc' = "mode" /\ suppress' = FALSE /\ UNCHANGED <<held, exit>>
                 ELSE /\ held' = [held EXCEPT !.exit = h] /\ exit' = ExitLatch(h)
                      /\ suppress' = (k = "view" /\ exit.consumed)
                      /\ pc' = IF Full(h) /\ ~exit.latched THEN "exit"
                               ELSE IF k = "view" THEN "mode" ELSE "idle"
  BY <1>1 DEF Receive, Fine
<1>4. CASE gate /\ Forget /\ Goto("idle")
  <2>1. pc' = "idle" /\ key' \in Keys /\ pressed' \in BOOLEAN /\ suppress' \in BOOLEAN
    BY <1>4, GotoType
  <2> QED  BY <1>2, <1>3, <1>4, <2>1
<1>5. CASE ~gate /\ k = "equals"
  BY <1>2, <1>3, <1>5
<1>6. CASE ~gate /\ k # "equals"
  <2>1. k \in Exits
    BY <1>6, KeysAre
  <2>2. held \in Holds /\ exit \in Latches
    BY DEF TypeOK, Holds, Latches
  <2>3. /\ h \in [Exits -> BOOLEAN] /\ h[k] = down
        /\ \A q \in Exits : q # k => h[q] = held.exit[q]
    BY <2>1, <2>2 DEF Holds
  <2> HIDE DEF h
  <2>4. held' = [held EXCEPT !.exit = h]
    BY <1>3, <1>6
  <2>5. held' \in Holds /\ held'.mode = held.mode /\ held'.exit = h
    BY <2>2, <2>3, <2>4 DEF Holds
  <2>6. Full(h) \in BOOLEAN /\ Empty(h) \in BOOLEAN
    BY DEF Full, Empty
  <2>7. ExitLatch(h) \in Latches
    BY <2>2, <2>6 DEF ExitLatch, Latches
  <2>8. /\ ~gate /\ k \in Exits /\ key' = k /\ pressed' = down /\ UNCHANGED <<confirm, latched, reset>>
        /\ exit' = ExitLatch(h) /\ suppress' = (k = "view" /\ exit.consumed)
        /\ pc' = IF Full(h) /\ ~exit.latched THEN "exit" ELSE IF k = "view" THEN "mode" ELSE "idle"
    BY <1>3, <1>6, <2>1
  <2>9. suppress' \in BOOLEAN
    BY <2>8, <2>2 DEF Latches
  <2> QED  BY <1>2, <1>3, <2>3, <2>5, <2>7, <2>8, <2>9
<1> QED  BY <1>3, <1>4, <1>5, <1>6

-----------------------------------------------------------------------------
(* Every step keeps the types *)

LEMMA TickType == ASSUME TypeOK, Tick PROVE TypeOK'
BY Forgets, NoneHeld, KeysAre DEF TypeOK, Tick, Holds, Latches, history, hand

LEMMA ExpireType == ASSUME TypeOK, Expire PROVE TypeOK'
BY Clears, NoneHeld, KeysAre DEF TypeOK, Expire, Holds, history, hand, world, Taps

LEMMA ReceiveType == ASSUME TypeOK, Receive PROVE TypeOK'
<1>1. PICK k \in Keys, down \in BOOLEAN :
        /\ Observe(k, down)
        /\ \/ gate /\ Forget /\ pc' = "idle"
           \/ /\ ~gate /\ k = "equals" /\ key' = k /\ pressed' = down /\ suppress' = FALSE
              /\ pc' = "mode" /\ UNCHANGED <<held, exit, confirm, latched, reset>>
           \/ /\ ~gate /\ k \in Exits /\ key' = k /\ pressed' = down
              /\ UNCHANGED <<confirm, latched, reset>>
              /\ held' \in Holds /\ held'.mode = held.mode /\ held'.exit[k] = down
              /\ \A q \in Exits : q # k => held'.exit[q] = held.exit[q]
              /\ exit' \in Latches /\ exit' = ExitLatch(held'.exit)
              /\ suppress' = (k = "view" /\ exit.consumed)
              /\ pc' = IF Full(held'.exit) /\ ~exit.latched THEN "exit"
                       ELSE IF k = "view" THEN "mode" ELSE "idle"
  BY ReceiveDoes
<1>2. /\ pc = "idle" /\ UNCHANGED <<world, excused, budget>> /\ inbox' \in Seq(Keys \X BOOLEAN)
      /\ key' \in Keys /\ pressed' \in BOOLEAN /\ suppress' \in BOOLEAN
  BY ReceiveDoes
<1>3. seen' \in [Keys -> BOOLEAN] /\ tap' \in [Pair -> Taps] /\ apart' \in BOOLEAN /\ fresh' \in BOOLEAN
  BY <1>1, ObserveType
<1>4. CASE gate /\ Forget /\ pc' = "idle"
  BY <1>2, <1>3, <1>4, Forgets, NoneHeld DEF TypeOK, Holds, Latches, world
<1>5. CASE /\ ~gate /\ k = "equals" /\ key' = k /\ pc' = "mode"
           /\ UNCHANGED <<held, exit, confirm, latched, reset>>
  BY <1>2, <1>3, <1>5, KeysAre DEF TypeOK, world
<1>6. CASE /\ ~gate /\ k \in Exits /\ key' = k /\ UNCHANGED <<confirm, latched, reset>>
           /\ held' \in Holds /\ held'.mode = held.mode
           /\ exit' \in Latches /\ exit' = ExitLatch(held'.exit)
           /\ pc' = IF Full(held'.exit) /\ ~exit.latched THEN "exit"
                    ELSE IF k = "view" THEN "mode" ELSE "idle"
  <2>1. Full(held'.exit) => ~Empty(held'.exit)
    BY <1>6, Chords DEF Holds
  <2>2. pc' = "exit" => exit'.latched
    BY <1>6, <2>1 DEF ExitLatch
  <2>3. /\ pc' \in {"idle", "exit", "mode"} /\ (pc' = "mode" => key' \in Pair)
    BY <1>6, KeysAre
  <2> QED  BY <1>2, <1>3, <1>6, <2>2, <2>3 DEF TypeOK, world, Holds, Latches
<1> QED  BY <1>1, <1>4, <1>5, <1>6

\* A handler that has its types, and whose chords are forgotten or left alone.
LEMMA HandlerType ==
  ASSUME TypeOK, UNCHANGED <<inbox, world>>, pc' \in {"idle", "mode"},
         key' \in Keys, pressed' \in BOOLEAN, suppress' \in BOOLEAN, pc' = "mode" => key' = "view",
         Forget \/ (UNCHANGED <<held, exit, latched, reset>> /\ confirm' \in BOOLEAN),
         UNCHANGED seen, tap' \in [Pair -> Taps], apart' \in BOOLEAN, fresh' \in BOOLEAN,
         excused' \in BOOLEAN,
         budget' \in [presses : Nat, repeats : Nat, tests : Nat, faults : Nat]
  PROVE  TypeOK'
<1>1. CASE Forget
  BY <1>1, Forgets, NoneHeld, KeysAre DEF TypeOK, Holds, Latches, world
<1>2. CASE UNCHANGED <<held, exit, latched, reset>> /\ confirm' \in BOOLEAN
  BY <1>2, KeysAre DEF TypeOK, world
<1> QED  BY <1>1, <1>2

LEMMA ExitChordType == ASSUME TypeOK, ExitChord PROVE TypeOK'
<1>1. /\ UNCHANGED <<inbox, world, seen, tap, apart>> /\ pc = "exit"
      /\ key' \in Keys /\ pressed' \in BOOLEAN /\ suppress' \in BOOLEAN
  BY ExitChordDoes
<1>2. tap' \in [Pair -> Taps] /\ apart' \in BOOLEAN
  BY <1>1 DEF TypeOK
<1>3. excused' \in BOOLEAN /\ fresh' \in BOOLEAN
  BY ExitChordDoes, TypeIs DEF Booleans
<1>4. budget' \in [presses : Nat, repeats : Nat, tests : Nat, faults : Nat]
  BY ExitChordDoes, SpendType DEF Fault, TypeOK
<1>5. CASE pc' = "ask"
  <2>1. UNCHANGED <<hand, held, exit, latched, reset>> /\ confirm' = FALSE
    BY <1>5, ExitChordDoes
  <2> QED  BY <1>1, <1>3, <1>4, <1>5, <2>1 DEF TypeOK, hand, world
<1>6. CASE pc' # "ask"
  <2>1. /\ pc' \in {"idle", "mode"} /\ (pc' = "mode" => key' = "view")
        /\ Forget \/ (UNCHANGED <<held, exit, latched, reset>> /\ confirm' \in BOOLEAN)
    BY <1>6, ExitChordDoes
  <2>2. UNCHANGED <<inbox, world>> /\ UNCHANGED seen
    BY <1>1
  <2> QED  BY <1>1, <1>2, <1>3, <1>4, <2>1, <2>2, HandlerType
<1> QED  BY <1>5, <1>6

LEMMA AskType == ASSUME TypeOK, Ask PROVE TypeOK'
<1>1. /\ UNCHANGED <<inbox, world>> /\ UNCHANGED seen /\ UNCHANGED <<held, exit, latched, reset>>
      /\ key' \in Keys /\ pressed' \in BOOLEAN /\ suppress' \in BOOLEAN
  BY AskDoes
<1>2. tap' \in [Pair -> Taps] /\ apart' \in BOOLEAN /\ confirm' \in BOOLEAN
  BY AskDoes DEF TypeOK
<1>3. excused' \in BOOLEAN /\ fresh' \in BOOLEAN
  BY AskDoes, TypeIs DEF Booleans
<1>4. budget' \in [presses : Nat, repeats : Nat, tests : Nat, faults : Nat]
  BY AskDoes, SpendType DEF Fault, TypeOK
<1>5. pc' \in {"idle", "mode"} /\ (pc' = "mode" => key' = "view")
  BY AskDoes
<1> QED  BY <1>1, <1>2, <1>3, <1>4, <1>5, HandlerType

LEMMA ModeType == ASSUME TypeOK, Mode PROVE TypeOK'
<1>1. key' \in Keys /\ pressed' \in BOOLEAN /\ suppress' \in BOOLEAN
  BY GotoType, TypeIs DEF Mode
<1>2. held.mode \in [Pair -> BOOLEAN] /\ key \in Pair
  BY TypeIs, ModeDoes
<1>3. ModeNow \in [Pair -> BOOLEAN] /\ ModeNow[key] = pressed
  BY <1>2, ModeNowIs
<1>4. CASE UNCHANGED chords /\ pc' = "idle"
  <2>1. UNCHANGED <<inbox, world, history, budget>>
    BY ModeDoes
  <2> QED  BY <1>1, <1>4, <2>1 DEF TypeOK, world, history, chords
<1>5. CASE held'.mode = ModeNow /\ reset' = TRUE /\ latched' \in BOOLEAN /\ (pc' = "status" => ~pressed)
  <2>1. /\ UNCHANGED <<exit, confirm, inbox, world, history, budget>> /\ held' \in Holds
        /\ pc' \in {"idle", "toggle", "status"} /\ (pc' = "status" => key' = key)
    BY ModeDoes
  <2>2. pc' = "status" => ~held'.mode[key']
    BY <2>1, <1>3, <1>5
  <2> QED  BY <1>1, <1>5, <2>1, <2>2 DEF TypeOK, world, history, Holds
<1>6. CASE held'.mode = None(Pair) /\ pc' = "idle" /\ latched' = FALSE /\ reset' = FALSE
  BY <1>1, <1>6, ModeDoes, NoneHeld DEF TypeOK, world, history, Holds
<1>7. latched \in BOOLEAN
  BY TypeIs DEF Booleans
<1> QED  BY <1>4, <1>5, <1>6, <1>7, ModeDoes

\* What toggling the mode leaves behind.
LEMMA ToggleDoes ==
  ASSUME TypeOK, Toggle
  PROVE  /\ pc = "toggle" /\ UNCHANGED <<inbox, world, seen, tap, apart, excused>>
         /\ pc' = "idle" /\ key' \in Keys /\ pressed' \in BOOLEAN /\ suppress' \in BOOLEAN
         /\ (gate /\ Forget /\ fresh' = fresh) \/ (~gate /\ UNCHANGED chords /\ fresh' \in BOOLEAN)
         /\ budget' \in [presses : Nat, repeats : Nat, tests : Nat, faults : Nat]
<1>1. budget' \in [presses : Nat, repeats : Nat, tests : Nat, faults : Nat]
  BY SpendType DEF Toggle, Fault, Fine, TypeOK
<1>2. fresh \in BOOLEAN
  BY TypeIs DEF Booleans
<1> QED  BY <1>1, <1>2, GotoType DEF Toggle

LEMMA ToggleType == ASSUME TypeOK, Toggle PROVE TypeOK'
<1>1. /\ UNCHANGED <<inbox, world>> /\ UNCHANGED seen
      /\ tap' \in [Pair -> Taps] /\ apart' \in BOOLEAN /\ excused' \in BOOLEAN /\ fresh' \in BOOLEAN
      /\ pc' = "idle" /\ key' \in Keys /\ pressed' \in BOOLEAN /\ suppress' \in BOOLEAN
      /\ budget' \in [presses : Nat, repeats : Nat, tests : Nat, faults : Nat]
  BY ToggleDoes DEF TypeOK
<1>2. Forget \/ (UNCHANGED <<held, exit, latched, reset>> /\ confirm' \in BOOLEAN)
  BY ToggleDoes, TypeIs DEF chords, Booleans
<1> QED  BY <1>1, <1>2, HandlerType

LEMMA StatusType == ASSUME TypeOK, Status PROVE TypeOK'
BY GotoType DEF TypeOK, Status, Fine, Quiet, chords, history, world

\* What sending a single action leaves behind: the tap is spent.
LEMMA SendDoes ==
  ASSUME TypeOK, Send
  PROVE  /\ pc = "send" /\ UNCHANGED <<inbox, world, seen, apart, fresh, excused>>
         /\ pc' = "idle" /\ key' \in Keys /\ pressed' \in BOOLEAN /\ suppress' \in BOOLEAN
         /\ tap' \in [Pair -> Taps] /\ \A p \in Pair : p # key => tap'[p] = tap[p]
         /\ (gate /\ Forget) \/ (~gate /\ UNCHANGED chords)
         /\ budget' \in [presses : Nat, repeats : Nat, tests : Nat, faults : Nat]
<1>1. budget' \in [presses : Nat, repeats : Nat, tests : Nat, faults : Nat]
  BY SpendType DEF Send, Fault, Fine, TypeOK
<1>2. tap' \in [Pair -> Taps] /\ \A p \in Pair : p # key => tap'[p] = tap[p]
  <2>1. tap \in [Pair -> Taps] /\ (tap' = tap \/ tap' = [tap EXCEPT ![key] = "none"])
    BY DEF TypeOK, Send
  <2> QED  BY <2>1 DEF Taps
<1> QED  BY <1>1, <1>2, GotoType DEF Send

LEMMA SendType == ASSUME TypeOK, Send PROVE TypeOK'
<1>1. /\ UNCHANGED <<inbox, world>> /\ UNCHANGED seen
      /\ tap' \in [Pair -> Taps] /\ apart' \in BOOLEAN /\ excused' \in BOOLEAN /\ fresh' \in BOOLEAN
      /\ pc' = "idle" /\ key' \in Keys /\ pressed' \in BOOLEAN /\ suppress' \in BOOLEAN
      /\ budget' \in [presses : Nat, repeats : Nat, tests : Nat, faults : Nat]
  BY SendDoes, TypeIs DEF Booleans
<1>2. Forget \/ (UNCHANGED <<held, exit, latched, reset>> /\ confirm' \in BOOLEAN)
  BY SendDoes, TypeIs DEF chords, Booleans
<1> QED  BY <1>1, <1>2, HandlerType

\* The world leaves the listener alone, but for the window of the prompt.
LEMMA WorldDoes ==
  ASSUME TypeOK, World
  PROVE  /\ UNCHANGED <<pc, hand, held, exit, latched, reset>> /\ (confirm' = confirm \/ ~confirm')
         /\ (UNCHANGED <<gate, observed, history>> \/ GateCloses \/ GateOpens)
BY DEF World, Press, Let, Repeat, WindowPasses, GateCloses, GateOpens, Listener, chords, world

LEMMA WorldType == ASSUME TypeOK, World PROVE TypeOK'
<1>1. \A k \in Keys : Emit(k) /\ keys' \in [Keys -> BOOLEAN] => inbox' \in Seq(Keys \X BOOLEAN)
  <2> SUFFICES ASSUME NEW k \in Keys, Emit(k), keys' \in [Keys -> BOOLEAN]
               PROVE  inbox' \in Seq(Keys \X BOOLEAN)
    OBVIOUS
  <2>1. <<k, keys'[k]>> \in Keys \X BOOLEAN /\ inbox \in Seq(Keys \X BOOLEAN)
    BY DEF TypeOK
  <2> QED  BY <2>1, AppendProperties DEF Emit
<1>2. ASSUME NEW k \in Keys, Press(k) \/ Let(k)
      PROVE  TypeOK'
  <2>1. keys' \in [Keys -> BOOLEAN]
    BY <1>2 DEF Press, Let, TypeOK
  <2>2. inbox' \in Seq(Keys \X BOOLEAN)
    BY <1>1, <1>2, <2>1 DEF Press, Let, TypeOK
  <2>3. budget' \in [presses : Nat, repeats : Nat, tests : Nat, faults : Nat]
    BY <1>2, SpendType DEF Press, Let, Fault, Fine, TypeOK
  <2>4. UNCHANGED <<Listener, gate, observed, history>>
    BY <1>2 DEF Press, Let
  <2> QED  BY <2>1, <2>2, <2>3, <2>4 DEF TypeOK, Listener, history, hand, chords
<1>3. CASE Repeat
  <2>1. keys' \in [Keys -> BOOLEAN] /\ inbox' \in Seq(Keys \X BOOLEAN)
    BY <1>1, <1>3, KeysAre DEF Repeat, TypeOK
  <2> QED  BY <1>3, <2>1, SpendType DEF TypeOK, Repeat, Listener, history, hand, chords
<1>4. CASE WindowPasses
  BY <1>4 DEF TypeOK, WindowPasses, history, hand, world
<1>5. CASE GateCloses
  BY <1>5, SpendType DEF TypeOK, GateCloses, Listener, history, hand, chords
<1>6. CASE GateOpens
  <2>1. tap' \in [Pair -> Taps] /\ excused' \in BOOLEAN
    BY <1>6 DEF GateOpens, Taps, TypeOK
  <2> QED  BY <1>6, <2>1, NoneHeld DEF TypeOK, GateOpens, Listener, hand, chords
<1> QED  BY <1>2, <1>3, <1>4, <1>5, <1>6 DEF World

LEMMA RestartType == ASSUME TypeOK, Restart PROVE TypeOK'
<1>1. tap' \in [Pair -> Taps] /\ seen' \in [Keys -> BOOLEAN]
  BY NoneHeld DEF Restart, Taps
<1> QED  BY <1>1, Forgets, NoneHeld, SpendType DEF TypeOK, Restart, Fault, hand, world, Holds, Latches

LEMMA StepType ==
  ASSUME TypeOK, [Next]_vars
  PROVE  TypeOK'
<1>1. CASE Handler
  BY <1>1, ExitChordType, AskType, ModeType, ToggleType, StatusType, SendType DEF Handler
<1>2. CASE UNCHANGED vars
  BY <1>2 DEF vars, hand, chords, world, history, TypeOK
<1> QED  BY <1>1, <1>2, ReceiveType, TickType, ExpireType, WorldType, RestartType DEF Next

\* TypeOK: whatever the keys, the tests and the faults do, the listener's state and what is
\* remembered of it are of their types, and something held or latched has its timer armed.
THEOREM TypeCorrect == Spec => []TypeOK
<1>1. Spec => []TypeOK
  BY InitType, StepType, PTL DEF Spec
<1> QED  BY <1>1

-----------------------------------------------------------------------------
(* A chord acts once *)

\* The signal in hand has not reached the mode chord.
Reading == pc \in {"exit", "ask", "mode"}

\* Where a handler is tells what it works on, and two keys held make a chord.
Placed == /\ pc \in {"status", "send"} => key \in Pair /\ ~held.mode[key]
          /\ pc \in {"exit", "ask"} => key \in Exits /\ pressed
          /\ exit.consumed = exit.latched
          /\ Full(held.mode) => latched
          /\ Full(held.exit) => exit.latched

\* Once the main loop has seen the gate, nothing is left of what was held before.
Rested == gate /\ observed => /\ pc = "idle" /\ Empty(held.mode) /\ Empty(held.exit)
                              /\ ~latched /\ ~confirm /\ ~exit.latched

\* A prompt that stands keeps the latch of the exit chord until both keys were up.
Prompted == /\ ~gate => \A k \in Exits : seen[k] => held.exit[k]
            /\ confirm => exit.latched \/ apart
            /\ pc = "exit" /\ confirm => apart

\* A switch keeps the latch of the mode chord until both keys were up.
Switched ==
  /\ ~gate /\ Reading /\ seen[key] => pressed
  /\ ~gate /\ ~fresh => /\ latched
                        /\ \A p \in Pair : seen[p] /\ ~(Reading /\ key = p) => held.mode[p]
  /\ pc = "mode" /\ ~gate /\ ~pressed /\ (\A p \in Pair : p # key => ~held.mode[p]) => fresh
  /\ pc = "toggle" => latched /\ Full(held.mode) /\ (~gate => fresh)

ChordInv == TypeOK /\ Placed /\ Rested /\ Prompted /\ Switched

LEMMA InitChord == Init => ChordInv
<1> SUFFICES ASSUME Init PROVE ChordInv
  OBVIOUS
<1>1. TypeOK
  BY InitType
<1>2. /\ pc = "idle" /\ ~gate /\ held.mode = None(Pair) /\ held.exit = None(Exits) /\ ~confirm /\ fresh
      /\ exit.latched = FALSE /\ exit.consumed = FALSE /\ seen = None(Keys)
  BY DEF Init
<1>3. Placed /\ Rested /\ Prompted /\ Switched
  BY <1>2, NoneHeld, KeysAre DEF Placed, Rested, Prompted, Switched, Reading
<1> QED  BY <1>1, <1>3 DEF ChordInv

\* Where all is forgotten under the gate, nothing of a chord remains.
LEMMA ForgetChord ==
  ASSUME Forget, gate', pc' \in {"idle", "mode"}, observed' => pc' = "idle"
  PROVE  Placed' /\ Rested' /\ Prompted' /\ Switched'
BY Forgets, NoneHeld DEF Placed, Rested, Prompted, Switched, Reading

LEMMA TickChord == ASSUME ChordInv, Tick PROVE Placed' /\ Rested' /\ Prompted' /\ Switched'
BY ForgetChord DEF Tick

LEMMA ExpireChord == ASSUME ChordInv, Expire PROVE Placed' /\ Rested' /\ Prompted' /\ Switched'
<1>1. /\ pc = "idle" /\ pc' = "idle" /\ UNCHANGED <<exit, confirm, gate, observed, apart>> /\ fresh' = TRUE
      /\ \A k \in Exits : seen'[k] => seen[k]
  BY KeysAre DEF Expire, world
<1>2. held'.mode = None(Pair) /\ held'.exit = held.exit /\ latched' = FALSE
  BY Clears DEF Expire, ChordInv
<1> QED  BY <1>1, <1>2, NoneHeld DEF ChordInv, Placed, Rested, Prompted, Switched, Reading

LEMMA ReceiveChord == ASSUME ChordInv, Receive PROVE Placed' /\ Rested' /\ Prompted' /\ Switched'
<1>1. PICK k \in Keys, down \in BOOLEAN :
        /\ Observe(k, down)
        /\ \/ gate /\ Forget /\ pc' = "idle"
           \/ /\ ~gate /\ k = "equals" /\ key' = k /\ pressed' = down /\ suppress' = FALSE
              /\ pc' = "mode" /\ UNCHANGED <<held, exit, confirm, latched, reset>>
           \/ /\ ~gate /\ k \in Exits /\ key' = k /\ pressed' = down
              /\ UNCHANGED <<confirm, latched, reset>>
              /\ held' \in Holds /\ held'.mode = held.mode /\ held'.exit[k] = down
              /\ \A q \in Exits : q # k => held'.exit[q] = held.exit[q]
              /\ exit' \in Latches /\ exit' = ExitLatch(held'.exit)
              /\ suppress' = (k = "view" /\ exit.consumed)
              /\ pc' = IF Full(held'.exit) /\ ~exit.latched THEN "exit"
                       ELSE IF k = "view" THEN "mode" ELSE "idle"
  BY ReceiveDoes DEF ChordInv
<1>2. pc = "idle" /\ UNCHANGED <<gate, observed>>
  BY ReceiveDoes DEF ChordInv, world
<1>3. CASE gate /\ Forget /\ pc' = "idle"
  BY <1>2, <1>3, ForgetChord
<1>4. CASE ~gate
  <2>1. /\ seen' \in [Keys -> BOOLEAN] /\ seen'[k] = down
        /\ \A q \in Keys : q # k => seen'[q] = seen[q]
    BY <1>1 DEF Observe, ChordInv, TypeOK
  <2>2. /\ apart' = (apart \/ (~seen'["menu"] /\ ~seen'["view"]))
        /\ fresh' = (fresh \/ (~seen'["view"] /\ ~seen'["equals"]))
    BY <1>1 DEF Observe
  <2>3. /\ key' = k /\ pressed' = down /\ UNCHANGED <<confirm, latched>> /\ held'.mode = held.mode
        /\ pc' \in {"idle", "exit", "mode"} /\ (k \in Pair => pc' \in {"exit", "mode"})
        /\ (pc' = "mode" => k \in Pair)
    BY <1>1, <1>4, KeysAre
  <2>4. Rested'
    BY <1>2, <1>4 DEF Rested
  <2>5. Switched'
    <3>1. ~gate' /\ Reading' /\ seen'[key'] => pressed'
      BY <2>1, <2>3
    <3>2. ASSUME ~fresh'
          PROVE  /\ latched'
                 /\ \A p \in Pair : seen'[p] /\ ~(Reading' /\ key' = p) => held'.mode[p]
      <4>1. ~fresh /\ latched
        BY <1>4, <2>2, <3>2 DEF ChordInv, Switched
      <4>2. ASSUME NEW p \in Pair, seen'[p], ~(Reading' /\ key' = p) PROVE held'.mode[p]
        <5>1. p # k /\ p \in Keys
          BY <4>2, <2>3, KeysAre DEF Reading
        <5>2. seen[p]
          BY <5>1, <4>2, <2>1
        <5> QED  BY <5>2, <4>1, <1>2, <1>4, <2>3 DEF ChordInv, Switched, Reading
      <4> QED  BY <4>1, <4>2, <2>3
    <3>3. ASSUME pc' = "mode", ~pressed', \A p \in Pair : p # key' => ~held'.mode[p], ~fresh'
          PROVE  FALSE
      <4>1. k \in Pair /\ ~down
        BY <2>3, <3>3
      <4>2. ASSUME NEW p \in Pair PROVE ~seen'[p]
        BY <4>1, <3>2, <3>3, <2>1, <2>3
      <4> QED  BY <4>2, <2>2, <3>3, KeysAre
    <3> QED  BY <3>1, <3>2, <3>3, <2>3, <1>2 DEF Switched
  <2>6. Placed' /\ Prompted'
    <3>1. CASE k = "equals" /\ UNCHANGED <<held, exit>> /\ pc' = "mode"
      BY <1>4, <3>1, <2>1, <2>2, <2>3, KeysAre DEF ChordInv, Placed, Prompted
    <3>2. CASE /\ k \in Exits /\ held' \in Holds /\ held'.exit[k] = down
               /\ \A q \in Exits : q # k => held'.exit[q] = held.exit[q]
               /\ exit' = ExitLatch(held'.exit)
               /\ pc' = IF Full(held'.exit) /\ ~exit.latched THEN "exit"
                        ELSE IF k = "view" THEN "mode" ELSE "idle"
      <4>1. held'.exit \in [Exits -> BOOLEAN] /\ held.exit \in [Exits -> BOOLEAN]
            /\ exit.latched \in BOOLEAN
        BY <3>2, TypeIs DEF Holds, ChordInv, TypeOK
      <4>2. Full(held'.exit) \in BOOLEAN /\ Empty(held'.exit) \in BOOLEAN /\ (Full(held'.exit) => ~Empty(held'.exit))
        BY <4>1, Chords DEF Full, Empty
      <4>3. /\ exit'.latched = (~Empty(held'.exit) /\ (exit.latched \/ Full(held'.exit)))
            /\ exit'.consumed = exit'.latched
        BY <3>2, <4>1, <4>2 DEF ExitLatch, ChordInv, Placed
      <4>4. \A q \in Exits : seen'[q] => held'.exit[q]
        BY <1>4, <3>2, <2>1, <4>1, KeysAre DEF ChordInv, Prompted
      <4>5. confirm' => exit'.latched \/ apart'
        <5> SUFFICES ASSUME confirm', ~exit'.latched PROVE apart'
          BY <4>3, <4>1, <4>2
        <5>1. CASE apart
          BY <5>1, <2>2
        <5>2. CASE ~apart
          <6>1. exit.latched
            BY <5>2, <2>3 DEF ChordInv, Prompted
          <6>2. Empty(held'.exit)
            BY <6>1, <4>3
          <6>3. ~seen'["menu"] /\ ~seen'["view"]
            BY <6>2, <4>4, <4>1, Chords, KeysAre
          <6> QED  BY <6>3, <2>2
        <5> QED  BY <5>1, <5>2
      <4>6. pc' = "exit" => Full(held'.exit) /\ ~exit.latched
        BY <3>2
      <4>7. pc' = "exit" /\ confirm' => apart'
        BY <4>6, <2>2, <2>3 DEF ChordInv, Prompted
      <4>8. pc' = "exit" => pressed' /\ key' \in Exits
        BY <4>6, <3>2, <2>3, <4>1 DEF Full
      <4> QED  BY <4>3, <4>2, <4>4, <4>5, <4>7, <4>8, <2>3, <1>4, <1>2 DEF ChordInv, Placed, Prompted
    <3> QED  BY <3>1, <3>2, <1>1, <1>4
  <2> QED  BY <2>4, <2>5, <2>6
<1> QED  BY <1>1, <1>3, <1>4

LEMMA ExitChordChord == ASSUME ChordInv, ExitChord PROVE Placed' /\ Rested' /\ Prompted' /\ Switched'
<1>1. pc = "exit" /\ UNCHANGED <<gate, observed, seen, apart>> /\ key \in Exits /\ pressed /\ exit.latched
  BY ExitChordDoes DEF ChordInv, Placed, TypeOK, world
<1>2. ~(gate /\ observed)
  BY <1>1 DEF ChordInv, Rested
<1>3. CASE /\ gate /\ Forget /\ pc' = IF key = "view" THEN "mode" ELSE "idle"
  BY <1>1, <1>2, <1>3, ForgetChord
<1>4. CASE /\ ~gate /\ confirm' = FALSE /\ UNCHANGED <<held, exit, latched, reset>> /\ fresh' = fresh
           /\ pc' = IF key = "view" THEN "mode" ELSE "idle"
           /\ key = "view" => key' = "view" /\ pressed' = pressed
  BY <1>1, <1>4, KeysAre DEF ChordInv, Placed, Rested, Prompted, Switched, Reading
<1>5. CASE /\ ~gate /\ confirm' = FALSE /\ UNCHANGED <<held, exit, latched, reset>>
           /\ pc' = "idle" /\ fresh' = (fresh \/ key = "view")
  BY <1>1, <1>5, KeysAre DEF ChordInv, Placed, Rested, Prompted, Switched, Reading
<1>6. CASE /\ ~gate /\ confirm' = FALSE /\ UNCHANGED <<held, exit, latched, reset>>
           /\ pc' = "ask" /\ UNCHANGED <<key, pressed, fresh>>
  BY <1>1, <1>6, KeysAre DEF ChordInv, Placed, Rested, Prompted, Switched, Reading
<1> QED  BY <1>3, <1>4, <1>5, <1>6, ExitChordDoes DEF ChordInv, hand

LEMMA AskChord == ASSUME ChordInv, Ask PROVE Placed' /\ Rested' /\ Prompted' /\ Switched'
<1>1. /\ pc = "ask" /\ UNCHANGED <<gate, observed, seen, held, exit, latched>>
      /\ key \in Exits /\ pressed /\ exit.latched
  BY AskDoes DEF ChordInv, Placed, TypeOK, world
<1>2. ~(gate /\ observed)
  BY <1>1 DEF ChordInv, Rested
<1>3. Rested' /\ Prompted'
  <2>1. pc' # "exit"
    BY AskDoes DEF ChordInv
  <2> QED  BY <1>1, <1>2, <2>1 DEF ChordInv, Rested, Prompted
<1>4. CASE /\ fresh' = fresh /\ pc' = IF key = "view" THEN "mode" ELSE "idle"
           /\ key = "view" => key' = "view" /\ pressed' = pressed
  BY <1>1, <1>3, <1>4, KeysAre DEF ChordInv, Placed, Switched, Reading
<1>5. CASE pc' = "idle" /\ fresh' = (fresh \/ key = "view")
  BY <1>1, <1>3, <1>5, KeysAre DEF ChordInv, Placed, Switched, Reading
<1> QED  BY <1>4, <1>5, AskDoes DEF ChordInv

LEMMA ModeChord == ASSUME ChordInv, Mode PROVE Placed' /\ Rested' /\ Prompted' /\ Switched'
<1>1. /\ pc = "mode" /\ key \in Pair /\ UNCHANGED <<exit, confirm, gate, observed, seen, apart, fresh>>
      /\ held'.exit = held.exit /\ TypeOK
      /\ pc' \in {"idle", "toggle", "status"} /\ (pc' = "status" => key' = key)
  BY ModeDoes DEF ChordInv, world, history
<1>2. ~(gate /\ observed)
  BY <1>1 DEF ChordInv, Rested
<1>3. held.mode \in [Pair -> BOOLEAN] /\ pressed \in BOOLEAN /\ latched \in BOOLEAN
  BY <1>1, TypeIs DEF Booleans
<1>4. PICK h : h = ModeNow
  OBVIOUS
<1>5. /\ h \in [Pair -> BOOLEAN] /\ h[key] = pressed
      /\ \A p \in Pair : p # key => h[p] = held.mode[p]
  BY <1>1, <1>4, ModeNowIs
<1>6. Rested' /\ Prompted'
  BY <1>1, <1>2 DEF ChordInv, Rested, Prompted
<1>7. ASSUME ~gate, ~fresh, NEW p \in Pair, seen[p] PROVE h[p]
  BY <1>1, <1>5, <1>7 DEF ChordInv, Switched, Reading
<1>8. CASE held.mode[key] = pressed /\ UNCHANGED chords /\ pc' = "idle"
  <2>1. UNCHANGED <<held, latched>> /\ \A p \in Pair : h[p] = held.mode[p]
    BY <1>5, <1>8 DEF chords
  <2> QED  BY <1>1, <1>6, <1>7, <1>8, <2>1 DEF ChordInv, Placed, Switched, Reading
<1>9. CASE held'.mode = h /\ Full(h) /\ latched' = TRUE /\ pc' = IF latched THEN "idle" ELSE "toggle"
  <2>1. ~gate /\ ~fresh => latched
    BY DEF ChordInv, Switched
  <2> QED  BY <1>1, <1>3, <1>6, <1>7, <1>9, <2>1 DEF ChordInv, Placed, Switched, Reading
<1>10. CASE held'.mode = h /\ ~Full(h) /\ latched' = latched /\ pc' = IF pressed \/ latched \/ suppress THEN "idle" ELSE "status"
  <2>1. pc' = "status" => ~h[key]
    BY <1>5, <1>10
  <2> QED  BY <1>1, <1>6, <1>7, <1>10, <2>1 DEF ChordInv, Placed, Switched, Reading
<1>11. CASE held'.mode = None(Pair) /\ latched' = FALSE /\ Empty(h) /\ pc' = "idle"
  <2>1. ~gate => fresh
    <3> SUFFICES ASSUME ~gate PROVE fresh
      OBVIOUS
    <3>1. ~h["view"] /\ ~h["equals"]
      BY <1>5, <1>11, Chords
    <3>2. ~pressed /\ \A p \in Pair : p # key => ~held.mode[p]
      BY <1>1, <1>5, <3>1, KeysAre
    <3> QED  BY <1>1, <3>2 DEF ChordInv, Switched
  <2> QED  BY <1>1, <1>6, <1>11, <2>1, NoneHeld DEF ChordInv, Placed, Switched, Reading
<1> QED  BY <1>1, <1>4, <1>8, <1>9, <1>10, <1>11, ModeDoes

LEMMA ToggleChord == ASSUME ChordInv, Toggle PROVE Placed' /\ Rested' /\ Prompted' /\ Switched'
<1>1. pc = "toggle" /\ pc' = "idle" /\ UNCHANGED <<gate, observed, seen, apart>>
  BY ToggleDoes DEF ChordInv, world
<1>2. CASE gate /\ Forget
  BY <1>1, <1>2, ForgetChord
<1>3. CASE ~gate /\ UNCHANGED chords
  <2>1. \A p \in Pair : held.mode[p]
    BY <1>1, TypeIs, Chords, KeysAre DEF ChordInv, Switched
  <2> QED  BY <1>1, <1>3, <2>1 DEF chords, ChordInv, Placed, Rested, Prompted, Switched, Reading
<1> QED  BY <1>2, <1>3, ToggleDoes DEF ChordInv

LEMMA StatusChord == ASSUME ChordInv, Status PROVE Placed' /\ Rested' /\ Prompted' /\ Switched'
<1>1. /\ pc = "status" /\ pc' \in {"send", "idle"} /\ (pc' = "send" => key' = key)
      /\ UNCHANGED <<chords, world, history>>
  BY GotoType DEF ChordInv, Status, Quiet
<1> QED  BY <1>1 DEF chords, world, history, ChordInv, Placed, Rested, Prompted, Switched, Reading

LEMMA SendChord == ASSUME ChordInv, Send PROVE Placed' /\ Rested' /\ Prompted' /\ Switched'
<1>1. pc = "send" /\ pc' = "idle" /\ UNCHANGED <<gate, observed, seen, apart, fresh>>
  BY SendDoes DEF ChordInv, world
<1>2. CASE gate /\ Forget
  BY <1>1, <1>2, ForgetChord
<1>3. CASE ~gate /\ UNCHANGED chords
  BY <1>1, <1>3 DEF chords, ChordInv, Placed, Rested, Prompted, Switched, Reading
<1> QED  BY <1>2, <1>3, SendDoes DEF ChordInv

LEMMA WorldChord == ASSUME ChordInv, World PROVE Placed' /\ Rested' /\ Prompted' /\ Switched'
<1>1. UNCHANGED <<pc, hand, held, exit, latched>> /\ (confirm' = confirm \/ ~confirm')
  BY WorldDoes DEF ChordInv
<1>2. CASE UNCHANGED <<gate, observed, history>>
  BY <1>1, <1>2 DEF hand, history, ChordInv, Placed, Rested, Prompted, Switched, Reading
<1>3. CASE GateCloses
  BY <1>1, <1>3 DEF GateCloses, hand, history, ChordInv, Placed, Rested, Prompted, Switched, Reading
<1>4. CASE GateOpens
  BY <1>1, <1>4, NoneHeld, KeysAre
     DEF GateOpens, hand, ChordInv, TypeOK, Placed, Rested, Prompted, Switched, Reading
<1> QED  BY <1>2, <1>3, <1>4, WorldDoes DEF ChordInv

LEMMA RestartChord == ASSUME ChordInv, Restart PROVE Placed' /\ Rested' /\ Prompted' /\ Switched'
<1>1. /\ Forget /\ pc' = "idle" /\ UNCHANGED <<gate, observed>> /\ seen' = None(Keys)
      /\ fresh' = TRUE /\ apart' = TRUE
  BY DEF Restart, world
<1> QED  BY <1>1, Forgets, NoneHeld, KeysAre DEF Placed, Rested, Prompted, Switched, Reading

LEMMA StepChord == ASSUME ChordInv, [Next]_vars PROVE ChordInv'
<1>1. TypeOK'
  BY StepType DEF ChordInv
<1>2. CASE UNCHANGED vars
  <2>1. Placed' /\ Rested' /\ Prompted' /\ Switched'
    BY <1>2 DEF vars, hand, chords, world, history, ChordInv, Placed, Rested, Prompted, Switched, Reading
  <2> QED  BY <1>1, <2>1 DEF ChordInv
<1>3. CASE Next
  <2>1. Placed' /\ Rested' /\ Prompted' /\ Switched'
    BY <1>3, ExitChordChord, AskChord, ModeChord, ToggleChord, StatusChord, SendChord, ReceiveChord,
       TickChord, ExpireChord, WorldChord, RestartChord DEF Next, Handler
  <2> QED  BY <1>1, <2>1 DEF ChordInv
<1> QED  BY <1>2, <1>3

LEMMA ChordInvHolds == Spec => []ChordInv
BY InitChord, StepChord, PTL DEF Spec

\* ChordsActOnce: the game is ended by a second chord only, after Menu and View were both
\* let go since the prompt, and the mode is switched again only after View and '=' were.
THEOREM ChordsActOnceHolds == Spec => []ChordsActOnce
<1>1. ChordInv => ChordsActOnce
  BY DEF ChordInv, Prompted, Switched, ChordsActOnce
<1> QED  BY <1>1, ChordInvHolds, PTL

-----------------------------------------------------------------------------
(* A single action is one tap of its own *)

\* The key it makes the mode chord with.
Other(p) == IF p = "view" THEN "equals" ELSE "view"

\* The signal in hand is of p and has not reached the mode chord.
InHand(p) == Reading /\ key = p

\* What keeps a held key from a wrong action: it was tapped alone, or a latch swallows it.
Settled(p) == tap[p] = "alone" \/ latched \/ (p = "view" /\ exit.consumed)

\* The chords know of every key that is down, but for the signal in hand; View is held
\* for the mode only while it is held for the exit.
Known == /\ ~gate /\ Reading => /\ seen[key] = pressed
                                /\ key = "view" => held.exit["view"] = pressed
         /\ ~gate => \A p \in Pair : seen[p] /\ ~InHand(p) => held.mode[p]
         /\ ~gate /\ held.mode["view"] => held.exit["view"] \/ (InHand("view") /\ ~pressed)

\* A held key is settled, or the press in hand makes the chord that settles it.
Held == ~gate => \A p \in Pair :
          /\ held.mode[p] /\ ~InHand(p) => Settled(p) \/ (InHand(Other(p)) /\ pressed)
          /\ InHand(p) /\ pressed => Settled(p) \/ held.mode[Other(p)]

\* What is let go, and what is then sent, was tapped alone.
Sent == /\ pc = "mode" /\ ~pressed /\ held.mode[key] => tap[key] = "alone" \/ latched \/ suppress
        /\ pc \in {"status", "send"} => tap[key] = "alone"

Single == ~excused => Known /\ Held /\ Sent
SingleInv == ChordInv /\ Single

LEMMA OtherIs == \A p \in Pair : /\ Other(p) \in Pair /\ Other(p) # p /\ Other(Other(p)) = p
                                 /\ \A q \in Pair : q # p => q = Other(p)
BY DEF Other, Pair

LEMMA InitSingle == Init => Single
<1> SUFFICES ASSUME Init PROVE Single
  OBVIOUS
<1>1. pc = "idle" /\ held.mode = None(Pair) /\ seen = None(Keys)
  BY DEF Init
<1> QED  BY <1>1, NoneHeld, KeysAre DEF Single, Known, Held, Sent, Reading, InHand, None

\* Nothing is due where nothing is held and nothing in hand.
LEMMA NothingDue ==
  ASSUME pc' = "idle", held'.mode = None(Pair), \A p \in Pair : ~seen'[p]
  PROVE  Known' /\ Held' /\ Sent'
BY NoneHeld, KeysAre DEF Known, Held, Sent, Reading, InHand, None

\* Under the gate only what is being let go or sent matters.
LEMMA GateSingle ==
  ASSUME gate', pc' = "idle" \/ (pc' = "mode" /\ pressed')
  PROVE  Known' /\ Held' /\ Sent'
BY DEF Known, Held, Sent

LEMMA TickSingle == ASSUME SingleInv, Tick PROVE Single'
BY GateSingle DEF Tick, Single

LEMMA RestartSingle == ASSUME SingleInv, Restart PROVE Single'
<1>1. Forget /\ pc' = "idle" /\ seen' = None(Keys)
  BY DEF Restart
<1> QED  BY <1>1, Forgets, NoneHeld, NothingDue, KeysAre DEF Single

LEMMA ExpireSingle == ASSUME SingleInv, Expire PROVE Single'
<1>1. pc' = "idle" /\ \A p \in Pair : ~seen'[p]
  BY KeysAre DEF Expire
<1>2. held'.mode = None(Pair)
  BY Clears DEF Expire, SingleInv, ChordInv
<1> QED  BY <1>1, <1>2, NothingDue DEF Single

\* What a signal makes of a tap.
LEMMA ObserveDoes ==
  ASSUME TypeOK, NEW k \in Keys, NEW down \in BOOLEAN, Observe(k, down)
  PROVE  /\ seen' \in [Keys -> BOOLEAN] /\ seen'[k] = down /\ \A q \in Keys : q # k => seen'[q] = seen[q]
         /\ \A p \in Pair :
              /\ ~down => tap'[p] = tap[p]
              /\ p = k /\ seen[k] => tap'[p] = tap[p]
              /\ p # k /\ k \notin Partners(p) => tap'[p] = tap[p]
              /\ p # k /\ ~seen'[p] => tap'[p] = tap[p]
              /\ p = k /\ down /\ ~seen[k] => tap'[p] = "alone" \/ \E q \in Partners(k) : seen'[q]
<1>1. seen' = [seen EXCEPT ![k] = down] /\ seen \in [Keys -> BOOLEAN]
  BY DEF Observe, TypeOK
<1>2. seen' \in [Keys -> BOOLEAN] /\ seen'[k] = down /\ \A q \in Keys : q # k => seen'[q] = seen[q]
  BY <1>1
<1>3. PICK now : now = seen'
  OBVIOUS
<1>4. tap' = [p \in Pair |->
       IF p = k /\ down /\ ~seen[k]
         THEN IF \E q \in Partners(k) : now[q] THEN "spoilt" ELSE "alone"
       ELSE IF k \in Partners(p) /\ now[p] /\ down THEN "spoilt" ELSE tap[p]]
  BY <1>1, <1>3 DEF Observe
<1>5. \A p \in Pair : tap'[p] =
       IF p = k /\ down /\ ~seen[k]
         THEN IF \E q \in Partners(k) : now[q] THEN "spoilt" ELSE "alone"
       ELSE IF k \in Partners(p) /\ now[p] /\ down THEN "spoilt" ELSE tap[p]
  BY <1>4
<1>6. \A p \in Pair : p \notin Partners(p)
  BY DEF Partners, Pair
<1> QED  BY <1>2, <1>3, <1>5, <1>6

\* A signal is taken in hand: it settles its own key, or spoils it together with a chord.
LEMMA ReceiveSingle == ASSUME SingleInv, Receive PROVE Single'
<1>1. PICK k \in Keys, down \in BOOLEAN :
        /\ Observe(k, down)
        /\ \/ gate /\ Forget /\ pc' = "idle"
           \/ /\ ~gate /\ k = "equals" /\ key' = k /\ pressed' = down /\ suppress' = FALSE
              /\ pc' = "mode" /\ UNCHANGED <<held, exit, confirm, latched, reset>>
           \/ /\ ~gate /\ k \in Exits /\ key' = k /\ pressed' = down
              /\ UNCHANGED <<confirm, latched, reset>>
              /\ held' \in Holds /\ held'.mode = held.mode /\ held'.exit[k] = down
              /\ \A q \in Exits : q # k => held'.exit[q] = held.exit[q]
              /\ exit' \in Latches /\ exit' = ExitLatch(held'.exit)
              /\ suppress' = (k = "view" /\ exit.consumed)
              /\ pc' = IF Full(held'.exit) /\ ~exit.latched THEN "exit"
                       ELSE IF k = "view" THEN "mode" ELSE "idle"
  BY ReceiveDoes DEF SingleInv, ChordInv
<1>2. pc = "idle" /\ gate' = gate /\ excused' = excused
  BY ReceiveDoes DEF SingleInv, ChordInv, world
<1>3. CASE gate /\ pc' = "idle"
  BY <1>2, <1>3, GateSingle DEF Single
<1>4. CASE ~gate /\ ~excused
  <2>1. /\ seen' \in [Keys -> BOOLEAN] /\ seen'[k] = down /\ \A q \in Keys : q # k => seen'[q] = seen[q]
        /\ \A p \in Pair :
             /\ ~down => tap'[p] = tap[p]
             /\ p = k /\ seen[k] => tap'[p] = tap[p]
             /\ p # k /\ k \notin Partners(p) => tap'[p] = tap[p]
             /\ p # k /\ ~seen'[p] => tap'[p] = tap[p]
             /\ p = k /\ down /\ ~seen[k] => tap'[p] = "alone" \/ \E q \in Partners(k) : seen'[q]
    BY <1>1, ObserveDoes DEF SingleInv, ChordInv
  <2>2. /\ \A p \in Pair : seen[p] => held.mode[p]
        /\ held.mode["view"] => held.exit["view"]
        /\ \A p \in Pair : held.mode[p] => Settled(p)
    BY <1>2, <1>4 DEF SingleInv, Single, Known, Held, Reading, InHand
  <2>3. \A q \in Exits : seen'[q] => held'.exit[q]
    BY <1>1, <1>2, <1>4, ReceiveChord DEF SingleInv, Prompted
  <2>4. CASE /\ k = "equals" /\ key' = k /\ pressed' = down /\ pc' = "mode"
             /\ UNCHANGED <<held, exit, latched>>
    <3>1. Known'
      BY <1>2, <1>4, <2>1, <2>2, <2>4, KeysAre DEF Known, Reading, InHand
    <3>2. held.mode["view"] => Settled("view")' \/ down
      BY <2>1, <2>2, <2>4, KeysAre DEF Settled
    <3>3. seen'["view"] => held.mode["view"]
      BY <2>1, <2>2, <2>4, KeysAre
    <3>4. ASSUME down PROVE Settled("equals")' \/ held.mode["view"]
      <4>1. CASE seen[k]
        BY <4>1, <2>1, <2>2, <2>4, KeysAre DEF Settled
      <4>2. CASE ~seen[k]
        BY <4>2, <3>3, <3>4, <2>1, <2>4, KeysAre DEF Settled, Partners
      <4> QED  BY <4>1, <4>2
    <3>5. Held'
      BY <3>2, <3>4, <1>2, <1>4, <2>4, KeysAre DEF Held, Reading, InHand, Other
    <3>6. Sent'
      BY <2>1, <2>2, <2>4, KeysAre DEF Sent, Settled
    <3> QED  BY <3>1, <3>5, <3>6 DEF Single
  <2>5. CASE /\ k \in Exits /\ key' = k /\ pressed' = down /\ UNCHANGED latched
             /\ held' \in Holds /\ held'.mode = held.mode /\ held'.exit[k] = down
             /\ \A q \in Exits : q # k => held'.exit[q] = held.exit[q]
             /\ exit' \in Latches /\ exit' = ExitLatch(held'.exit)
             /\ suppress' = (k = "view" /\ exit.consumed)
             /\ pc' = IF Full(held'.exit) /\ ~exit.latched THEN "exit"
                      ELSE IF k = "view" THEN "mode" ELSE "idle"
    <3>1. /\ pc' \in {"idle", "exit", "mode"} /\ (k = "view" => pc' \in {"exit", "mode"})
          /\ (pc' = "mode" => k = "view")
      BY <2>5
    <3>2. held'.exit \in [Exits -> BOOLEAN] /\ held'.exit["view"] \in BOOLEAN /\ exit.consumed \in BOOLEAN
      BY <2>5, KeysAre DEF Holds, SingleInv, ChordInv, TypeOK
    <3>3. /\ held'.exit["view"] /\ exit.consumed => exit'.consumed
          /\ held'.exit["view"] /\ held'.exit["menu"] => exit'.consumed
      <4>1. exit.consumed = exit.latched
        BY DEF SingleInv, ChordInv, Placed
      <4>2. exit'.consumed = (~Empty(held'.exit) /\ (exit.consumed \/ (Full(held'.exit) /\ ~exit.latched)))
        BY <2>5 DEF ExitLatch
      <4>3. Full(held'.exit) \in BOOLEAN /\ Empty(held'.exit) \in BOOLEAN
        BY DEF Full, Empty
      <4> QED  BY <3>2, <4>1, <4>2, <4>3, Chords
    <3>4. Known'
      <4>1. pc' \in {"exit", "ask", "mode"} => seen'[key'] = pressed'
        BY <2>1, <2>5
      <4>2. key' = "view" => held'.exit["view"] = pressed'
        BY <2>5
      <4>3. ASSUME NEW p \in Pair, seen'[p], ~(pc' \in {"exit", "ask", "mode"} /\ key' = p)
            PROVE  held'.mode[p]
        <5>1. p # k /\ p \in Keys
          BY <4>3, <3>1, <2>5, KeysAre
        <5> QED  BY <5>1, <4>3, <2>1, <2>2, <2>5
      <4>4. held'.mode["view"] => held'.exit["view"] \/ (pc' \in {"exit", "ask", "mode"} /\ key' = "view" /\ ~pressed')
        BY <2>2, <2>5, <3>1, KeysAre
      <4> QED  BY <4>1, <4>2, <4>3, <4>4 DEF Known, Reading, InHand
    <3>5. CASE k = "view"
      <4>1. ASSUME ~down PROVE \A p \in Pair : tap'[p] = tap[p]
        BY <4>1, <2>1
      <4>2. held.mode["equals"] => Settled("equals")' \/ down
        BY <4>1, <2>2, <2>5, <2>1, KeysAre DEF Settled
      <4>3. ASSUME down PROVE Settled("view")' \/ held.mode["equals"]
        <5>1. held'.exit["view"]
          BY <4>3, <3>5, <2>5
        <5>2. CASE seen["view"]
          <6>1. tap'["view"] = tap["view"] /\ Settled("view")
            BY <5>2, <3>5, <2>1, <2>2, KeysAre
          <6> QED  BY <6>1, <5>1, <3>3, <2>5 DEF Settled
        <5>3. CASE ~seen["view"]
          <6>1. tap'["view"] = "alone" \/ seen'["menu"] \/ seen'["equals"]
            BY <5>3, <4>3, <3>5, <2>1, KeysAre DEF Partners
          <6>2. seen'["equals"] => held.mode["equals"]
            BY <3>5, <2>1, <2>2, KeysAre
          <6>3. seen'["menu"] => exit'.consumed
            BY <5>1, <2>3, <3>3, KeysAre
          <6> QED  BY <6>1, <6>2, <6>3 DEF Settled
        <5> QED  BY <5>2, <5>3
      <4>4. Held'
        BY <4>2, <4>3, <3>5, <3>1, <2>5, KeysAre DEF Held, Reading, InHand, Other
      <4>5. Sent'
        BY <4>1, <3>1, <3>5, <2>2, <2>5, KeysAre DEF Sent, Settled
      <4> QED  BY <3>4, <4>4, <4>5 DEF Single
    <3>6. CASE k = "menu"
      <4>1. tap'["equals"] = tap["equals"]
        BY <3>6, <2>1, KeysAre DEF Partners
      <4>2. ASSUME held.mode["view"] PROVE Settled("view")'
        <5>1. held'.exit["view"]
          BY <4>2, <2>2, <2>5, <3>6, KeysAre
        <5>2. CASE down
          <6>1. exit'.consumed
            BY <5>1, <5>2, <2>5, <3>3, <3>6
          <6> QED  BY <6>1 DEF Settled
        <5>3. CASE ~down
          <6>1. tap'["view"] = tap["view"] /\ Settled("view")
            BY <5>3, <4>2, <2>1, <2>2, KeysAre
          <6> QED  BY <6>1, <5>1, <3>3, <2>5 DEF Settled
        <5> QED  BY <5>2, <5>3
      <4>3. held.mode["equals"] => Settled("equals")'
        BY <4>1, <2>2, <2>5, KeysAre DEF Settled
      <4>4. Held'
        BY <4>2, <4>3, <3>6, <2>5, KeysAre DEF Held, InHand
      <4>5. Sent'
        BY <3>1, <3>6 DEF Sent
      <4> QED  BY <3>4, <4>4, <4>5 DEF Single
    <3> QED  BY <3>5, <3>6, <2>5, KeysAre
  <2> QED  BY <2>4, <2>5, <1>1, <1>4
<1>5. CASE excused
  BY <1>2, <1>5 DEF Single
<1> QED  BY <1>1, <1>3, <1>4, <1>5

\* A handler of Menu or View hands View over to the mode chord, or ends without it.
LEMMA HandOver ==
  ASSUME SingleInv, ~gate, pc \in {"exit", "ask"}, UNCHANGED <<gate, held, latched, seen, tap>>,
         exit' = exit, ~excused,
         \/ /\ key = "view" /\ key' = "view" /\ pressed' = pressed /\ pc' \in {"ask", "mode"}
         \/ /\ key = "menu" /\ pc' = "idle"
         \/ /\ key = "menu" /\ key' = "menu" /\ pressed' = pressed /\ pc' = "ask"
  PROVE  Single'
<1>1. Known /\ Held /\ key \in Exits /\ pressed
  BY DEF SingleInv, Single, ChordInv, Placed
<1>2. CASE key = "view" /\ key' = "view" /\ pressed' = pressed /\ pc' \in {"ask", "mode"}
  BY <1>1, <1>2 DEF Single, Known, Held, Sent, Reading, InHand, Settled
<1>3. CASE key = "menu" /\ pc' = "idle"
  <2>1. \A p \in Pair : ~InHand(p) /\ ~InHand(p)'
    BY <1>3, KeysAre DEF InHand, Reading
  <2> QED  BY <1>1, <1>3, <2>1, OtherIs, KeysAre DEF Single, Known, Held, Sent, Reading, Settled
<1>4. CASE key = "menu" /\ key' = "menu" /\ pressed' = pressed /\ pc' = "ask"
  BY <1>1, <1>4 DEF Single, Known, Held, Sent, Reading, InHand, Settled
<1> QED  BY <1>2, <1>3, <1>4

LEMMA ExitChordSingle == ASSUME SingleInv, ExitChord PROVE Single'
<1>1. pc = "exit" /\ UNCHANGED <<gate, seen, tap>> /\ key \in Exits /\ pressed
  BY ExitChordDoes DEF SingleInv, ChordInv, Placed, world
<1>2. CASE /\ gate /\ pc' = IF key = "view" THEN "mode" ELSE "idle"
           /\ key = "view" => key' = "view" /\ pressed' = pressed
  BY <1>1, <1>2, GateSingle DEF Single
<1>3. CASE ~gate /\ ~excused'
  <2>1. UNCHANGED <<held, exit, latched>> /\ ~excused
    <3>1. UNCHANGED <<held, exit, latched>>
      BY <1>3, ExitChordDoes DEF SingleInv, ChordInv
    <3>2. excused' = excused \/ excused' = (excused \/ key = "view")
      BY ExitChordDoes DEF SingleInv, ChordInv
    <3>3. excused \in BOOLEAN
      BY TypeIs DEF Booleans, SingleInv, ChordInv
    <3> QED  BY <1>3, <3>1, <3>2, <3>3
  <2>2. \/ /\ key = "view" /\ key' = "view" /\ pressed' = pressed /\ pc' \in {"ask", "mode"}
        \/ /\ key = "menu" /\ pc' = "idle"
        \/ /\ key = "menu" /\ key' = "menu" /\ pressed' = pressed /\ pc' = "ask"
    <3>1. key \in {"menu", "view"} /\ (~excused' => ~excused)
      BY <1>1, <2>1, KeysAre
    <3>2. CASE /\ pc' = IF key = "view" THEN "mode" ELSE "idle"
               /\ key = "view" => key' = "view" /\ pressed' = pressed
      BY <3>1, <3>2
    <3>3. CASE pc' = "idle" /\ excused' = (excused \/ key = "view")
      BY <1>3, <3>1, <3>3
    <3>4. CASE pc' = "ask" /\ UNCHANGED hand
      BY <3>1, <3>4 DEF hand
    <3> QED  BY <1>3, <3>2, <3>3, <3>4, ExitChordDoes DEF SingleInv, ChordInv
  <2>3. UNCHANGED <<gate, held, latched, seen, tap>> /\ exit' = exit
    BY <1>1, <2>1
  <2> QED  BY <1>1, <1>3, <2>1, <2>2, <2>3, HandOver
<1> QED  BY <1>2, <1>3, ExitChordDoes DEF SingleInv, ChordInv, Single

LEMMA AskSingle == ASSUME SingleInv, Ask PROVE Single'
<1>1. pc = "ask" /\ UNCHANGED <<gate, held, exit, latched, seen, tap>> /\ key \in Exits /\ pressed
  BY AskDoes DEF SingleInv, ChordInv, Placed, world
<1>2. CASE gate
  <2>1. pc' = "idle" \/ (pc' = "mode" /\ pressed')
    BY <1>1, AskDoes, KeysAre DEF SingleInv, ChordInv
  <2> QED  BY <1>1, <1>2, <2>1, GateSingle DEF Single
<1>3. CASE ~gate /\ ~excused'
  <2>1. ~excused /\ exit' = exit
    <3>1. excused' = excused \/ excused' = (excused \/ key = "view")
      BY AskDoes DEF SingleInv, ChordInv
    <3>2. excused \in BOOLEAN
      BY TypeIs DEF Booleans, SingleInv, ChordInv
    <3> QED  BY <1>1, <1>3, <3>1, <3>2
  <2>2. \/ /\ key = "view" /\ key' = "view" /\ pressed' = pressed /\ pc' \in {"ask", "mode"}
        \/ /\ key = "menu" /\ pc' = "idle"
    <3>1. key \in {"menu", "view"}
      BY <1>1, KeysAre
    <3>2. CASE /\ pc' = IF key = "view" THEN "mode" ELSE "idle"
               /\ key = "view" => key' = "view" /\ pressed' = pressed
      BY <3>1, <3>2
    <3>3. CASE pc' = "idle" /\ excused' = (excused \/ key = "view")
      BY <1>3, <3>1, <3>3
    <3> QED  BY <3>2, <3>3, AskDoes DEF SingleInv, ChordInv
  <2>3. UNCHANGED <<gate, held, latched, seen, tap>>
    BY <1>1
  <2> QED  BY <1>1, <1>3, <2>1, <2>2, <2>3, HandOver
<1> QED  BY <1>2, <1>3 DEF Single

LEMMA ModeSingle == ASSUME SingleInv, Mode PROVE Single'
<1>1. /\ pc = "mode" /\ key \in Pair /\ UNCHANGED <<exit, gate, seen, tap, excused>>
      /\ held'.exit = held.exit /\ TypeOK
      /\ pc' \in {"idle", "toggle", "status"} /\ (pc' = "status" => key' = key)
  BY ModeDoes DEF SingleInv, ChordInv, world, history
<1>2. held.mode \in [Pair -> BOOLEAN] /\ pressed \in BOOLEAN /\ latched \in BOOLEAN
  BY <1>1, TypeIs DEF Booleans
<1>3. PICK h : h = ModeNow
  OBVIOUS
<1>4. PICK o : o = Other(key)
  OBVIOUS
<1>5. /\ h \in [Pair -> BOOLEAN] /\ h[key] = pressed /\ o \in Pair /\ o # key /\ h[o] = held.mode[o]
      /\ \A p \in Pair : p = key \/ p = o
      /\ Full(h) <=> pressed /\ held.mode[o]
      /\ Empty(h) <=> ~pressed /\ ~held.mode[o]
      /\ Full(held.mode) <=> held.mode[key] /\ held.mode[o]
  BY <1>1, <1>2, <1>3, <1>4, ModeNowIs, OtherIs, Chords, KeysAre
<1>6. \A p \in Pair : ~InHand(p)'
  BY <1>1 DEF InHand, Reading
<1> SUFFICES ASSUME ~excused PROVE Known' /\ Held' /\ Sent'
  BY <1>1 DEF Single
<1>7. Known /\ Held /\ Sent
  BY DEF SingleInv, Single
<1>8. ASSUME ~gate
      PROVE  /\ seen[key] = pressed /\ (key = "view" => held.exit["view"] = pressed)
             /\ seen[o] => held.mode[o]
             /\ o = "view" /\ held.mode[o] => held.exit["view"]
             /\ held.mode[o] => Settled(o) \/ pressed
             /\ pressed => Settled(key) \/ held.mode[o]
  BY <1>1, <1>4, <1>5, <1>7, <1>8, OtherIs DEF Known, Held, Reading, InHand
<1>9. ASSUME NEW m, held'.mode = m, m[o] => h[o], m[key] => pressed,
             ~gate => (seen[key] => m[key]) /\ (seen[o] => m[o])
      PROVE  Known'
  <2>1. gate \/ (held'.mode["view"] => held'.exit["view"])
    BY <1>1, <1>5, <1>8, <1>9, KeysAre
  <2>2. gate \/ \A p \in Pair : seen'[p] => held'.mode[p]
    BY <1>1, <1>5, <1>9
  <2>3. ~Reading'
    BY <1>1 DEF Reading
  <2> QED  BY <1>1, <2>1, <2>2, <2>3 DEF Known
<1>10. ASSUME ~gate => \A p \in Pair : held'.mode[p] => Settled(p)'
       PROVE  Held'
  BY <1>1, <1>6, <1>10 DEF Held
<1>11. CASE held.mode[key] = pressed /\ UNCHANGED chords /\ pc' = "idle"
  <2>1. held' = held /\ latched' = latched /\ exit' = exit
    BY <1>11 DEF chords
  <2>2. Known'
    BY <1>5, <1>8, <1>9, <1>11, <2>1
  <2>3. pressed /\ held.mode[o] => latched
    BY <1>5, <1>11 DEF SingleInv, ChordInv, Placed
  <2>4. Held'
    BY <1>1, <1>5, <1>8, <1>10, <1>11, <2>1, <2>3 DEF Settled
  <2> QED  BY <1>11, <2>2, <2>4 DEF Sent
<1>12. CASE held'.mode = h /\ Full(h) /\ latched' = TRUE /\ pc' # "status"
  <2>1. Known'
    BY <1>5, <1>8, <1>9, <1>12
  <2>2. Held'
    BY <1>10, <1>12 DEF Settled
  <2> QED  BY <1>1, <1>12, <2>1, <2>2 DEF Sent
<1>13. CASE /\ held.mode[key] # pressed /\ held'.mode = h /\ ~Full(h) /\ latched' = latched
            /\ pc' = IF pressed \/ latched \/ suppress THEN "idle" ELSE "status"
  <2>1. Known'
    BY <1>5, <1>8, <1>9, <1>13
  <2>2. Held'
    BY <1>1, <1>5, <1>8, <1>10, <1>13 DEF Settled
  <2>3. pc' = "status" => held.mode[key] /\ ~pressed /\ ~latched /\ ~suppress
    BY <1>1, <1>2, <1>13
  <2>4. Sent'
    <3>1. pc' = "status" => tap[key] = "alone"
      BY <1>1, <1>7, <2>3 DEF Sent
    <3>2. pc' # "mode" /\ pc' # "send" /\ tap' = tap
      BY <1>1
    <3> QED  BY <1>1, <3>1, <3>2 DEF Sent
  <2> QED  BY <2>1, <2>2, <2>4
<1>14. CASE held'.mode = None(Pair) /\ Empty(h) /\ pc' = "idle"
  <2>1. \A p \in Pair : ~None(Pair)[p]
    BY DEF None
  <2>2. Known'
    <3>1. PICK m : m = None(Pair)
      OBVIOUS
    <3>2. ~m[o] /\ ~m[key] /\ held'.mode = m
      BY <1>1, <1>5, <1>14, <2>1, <3>1
    <3>3. ~gate => ~seen[key] /\ ~seen[o]
      BY <1>5, <1>8, <1>14
    <3> QED  BY <1>9, <3>2, <3>3
  <2>3. Held'
    BY <1>10, <1>14, <2>1
  <2> QED  BY <1>14, <2>2, <2>3 DEF Sent
<1> QED  BY <1>1, <1>3, <1>11, <1>12, <1>13, <1>14, ModeDoes

LEMMA ToggleSingle == ASSUME SingleInv, Toggle PROVE Single'
<1>1. pc = "toggle" /\ pc' = "idle" /\ UNCHANGED <<gate, seen, tap, excused>>
  BY ToggleDoes DEF SingleInv, ChordInv, world
<1>2. CASE gate
  BY <1>1, <1>2, GateSingle DEF Single
<1>3. CASE ~gate /\ UNCHANGED chords
  BY <1>1, <1>3 DEF chords, SingleInv, Single, Known, Held, Sent, Reading, InHand, Settled
<1> QED  BY <1>2, <1>3, ToggleDoes DEF SingleInv, ChordInv

LEMMA StatusSingle == ASSUME SingleInv, Status PROVE Single'
<1>1. /\ pc = "status" /\ pc' \in {"send", "idle"} /\ (pc' = "send" => key' = key)
      /\ UNCHANGED <<chords, world, history>>
  BY GotoType DEF SingleInv, ChordInv, Status, Quiet
<1> QED  BY <1>1 DEF chords, world, history, SingleInv, Single, Known, Held, Sent, Reading, InHand, Settled

LEMMA SendSingle == ASSUME SingleInv, Send PROVE Single'
<1>1. /\ pc = "send" /\ pc' = "idle" /\ UNCHANGED <<gate, seen, excused>>
      /\ \A p \in Pair : p # key => tap'[p] = tap[p]
  BY SendDoes DEF SingleInv, ChordInv, world
<1>2. ~held.mode[key]
  BY <1>1 DEF SingleInv, ChordInv, Placed
<1>3. CASE gate
  BY <1>1, <1>3, GateSingle DEF Single
<1>4. CASE ~gate /\ UNCHANGED chords
  <2>1. UNCHANGED <<held, exit, latched>>
    BY <1>4 DEF chords
  <2>2. \A p \in Pair : held.mode[p] => tap'[p] = tap[p]
    BY <1>1, <1>2
  <2> QED  BY <1>1, <1>4, <2>1, <2>2 DEF SingleInv, Single, Known, Held, Sent, Reading, InHand, Settled
<1> QED  BY <1>3, <1>4, SendDoes DEF SingleInv, ChordInv

LEMMA WorldSingle == ASSUME SingleInv, World PROVE Single'
<1>1. UNCHANGED <<pc, key, pressed, suppress, held, exit, latched>>
  BY WorldDoes DEF SingleInv, ChordInv, hand
<1>2. CASE UNCHANGED <<gate, observed, history>>
  BY <1>1, <1>2 DEF history, SingleInv, Single, Known, Held, Sent, Reading, InHand, Settled
<1>3. CASE GateCloses
  BY <1>1, <1>3 DEF GateCloses, history, SingleInv, Single, Known, Held, Sent, Reading, InHand, Settled
<1>4. CASE GateOpens
  <2>1. CASE excused' = TRUE
    BY <2>1 DEF Single
  <2>2. CASE pc = "idle" /\ observed
    <3>1. gate /\ seen' = None(Keys)
      BY <1>4 DEF GateOpens
    <3>2. Empty(held.mode)
      BY <2>2, <3>1 DEF SingleInv, ChordInv, Rested
    <3>3. \A p \in Pair : ~held'.mode[p] /\ ~seen'[p]
      BY <1>1, <3>1, <3>2, Chords, NoneHeld, KeysAre, TypeIs DEF SingleInv, ChordInv
    <3> QED  BY <1>1, <2>2, <3>3, KeysAre DEF Single, Known, Held, Sent, Reading, InHand
  <2> QED  BY <1>4, <2>1, <2>2 DEF GateOpens
<1> QED  BY <1>2, <1>3, <1>4, WorldDoes DEF SingleInv, ChordInv

LEMMA StepSingle == ASSUME SingleInv, [Next]_vars PROVE SingleInv'
<1>1. ChordInv'
  BY StepChord DEF SingleInv
<1>2. CASE UNCHANGED vars
  <2>1. Single'
    BY <1>2 DEF vars, hand, chords, world, history, SingleInv, Single, Known, Held, Sent, Reading,
                InHand, Settled
  <2> QED  BY <1>1, <2>1 DEF SingleInv
<1>3. CASE Next
  <2>1. Single'
    BY <1>3, ExitChordSingle, AskSingle, ModeSingle, ToggleSingle, StatusSingle, SendSingle,
       ReceiveSingle, TickSingle, ExpireSingle, WorldSingle, RestartSingle DEF Next, Handler
  <2> QED  BY <1>1, <2>1 DEF SingleInv
<1> QED  BY <1>2, <1>3

\* SinglesAreTaps: what is sent for View or '=' is one tap of that key alone, unless a handler
\* overslept a controller test or broke off at View's press.
THEOREM SinglesAreTapsHolds == Spec => []SinglesAreTaps
<1>1. Init => SingleInv
  BY InitChord, InitSingle DEF SingleInv
<1>2. SingleInv => SinglesAreTaps
  BY DEF SingleInv, Single, Sent, SinglesAreTaps
<1> QED  BY <1>1, <1>2, StepSingle, PTL DEF Spec
=============================================================================

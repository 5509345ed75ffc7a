--------------------------- MODULE LightStandbyProofs ---------------------------
(***************************************************************************)
(* Proofs about light standby, for any set of power-off times with a       *)
(* longest one, any profiles to choose from, and any number of lids,       *)
(* acts, sleeps, faults, kills and boots.                                  *)
(***************************************************************************)
EXTENDS LightStandby, SequenceTheorems, TLAPS

-----------------------------------------------------------------------------
(* Data *)

Steps == {"idle", "look", "ask", "keep", "sync", "final", "poweroff", "drop", "dim", "claim",
          "blank", "recheck", "own", "lower", "lowered", "clear", "wake", "restore",
          "raise", "raised", "prepare", "judge", "down", "off"}
Lids    == [lid : {"none", "open", "closed"}, mode : Modes, retry : BOOLEAN, ticking : BOOLEAN,
            debounce : BOOLEAN, preparing : BOOLEAN, polling : BOOLEAN, started : BOOLEAN,
            finished : BOOLEAN, overdue : BOOLEAN]
Spent   == [lids : Nat, acts : Nat, sleeps : Nat, faults : Nat, crashes : Nat]
Signals == {"lid", "sleep", "wake"}

\* The state of the service, of its file, and of the world around.
ServiceType == /\ pc \in Steps /\ run \in Locals /\ d \in Lids /\ broken \in BOOLEAN
               /\ fd \in BOOLEAN /\ inbox \in Seq(Signals)
WorldType   == /\ panel \in {"on", "fading", "off"} /\ profile \in Profiles
               /\ lid \in BOOLEAN /\ lost \in BOOLEAN
               /\ cond \in [ac : BOOLEAN, setting : Timeouts \cup {0}, mode : {"connected", "sleep"}]
               /\ login \in {"awake", "delaying", "asleep"} /\ boot \in 1..MaxBoots
               /\ boost \in Profiles \cup {"none"} /\ wanted \in Profiles \cup {"any"}
LateType    == late \in Managed \cup {"none"}

LEMMA TypeIs == TypeOK <=> ServiceType /\ WorldType /\ LateType /\ store \in Files /\ budget \in Spent
BY DEF TypeOK, ServiceType, WorldType, LateType, Steps, Lids, Spent, Signals

LEMMA BootIs == MaxBoots \in Nat /\ MaxBoots # 0 /\ 1 \in 1..MaxBoots /\ 0 \in 0..MaxBoots
BY StandbyBounds

LEMMA FreshIs == Fresh \in Lids /\ NoRun \in Locals /\ NoRun.saw = FALSE /\ Fresh.mode # "connected"
BY DEF Fresh, Lids, NoRun, Locals, Modes

LEMMA MissingIs ==
  /\ NoDeadline \in Deadlines /\ NoDeadline.minutes = 0 /\ NoDeadline.boot = 0
  /\ Missing \in Files /\ Missing.phase = "none" /\ Missing.deadline = NoDeadline
  /\ Unreadable \in Files /\ Unreadable.phase = "bad" /\ Unreadable.deadline = NoDeadline
<1>1. NoDeadline \in Deadlines /\ NoDeadline.minutes = 0 /\ NoDeadline.boot = 0
  BY BootIs DEF NoDeadline, Deadlines
<1>2. Missing \in Files /\ Missing.phase = "none" /\ Missing.deadline = NoDeadline
  BY <1>1 DEF Missing, Files, Profiles
<1>3. Unreadable \in Files /\ Unreadable.phase = "bad" /\ Unreadable.deadline = NoDeadline
  BY <1>2 DEF Unreadable, Files
<1> QED  BY <1>1, <1>2, <1>3

LEMMA StoreIs ==
  ASSUME store \in Files
  PROVE  /\ store.restore \in Profiles /\ store.phase \in Phases \cup {"none", "bad"}
         /\ store.deadline \in Deadlines
BY DEF Files

\* Without its deadline the file keeps whose profile it is.
LEMMA ClearedIs ==
  ASSUME store \in Files
  PROVE  /\ Cleared \in Files /\ Cleared.phase = store.phase /\ Cleared.restore = store.restore
         /\ Cleared.deadline.minutes = 0 /\ Cleared.deadline.boot = 0
<1>1. /\ Cleared \in Files /\ Cleared.phase = store.phase /\ Cleared.restore = store.restore
      /\ Cleared.deadline = NoDeadline
  BY MissingIs DEF Cleared, Files
<1> QED  BY <1>1, MissingIs

\* So it does with a new one.
LEMMA ArmedIs ==
  ASSUME store \in Files, WorldType
  PROVE  /\ Armed \in Files /\ Armed.phase = store.phase /\ Armed.restore = store.restore
         /\ Armed.deadline.minutes = cond.setting /\ Armed.deadline.boot = boot
<1> DEFINE D == [minutes |-> cond.setting, boot |-> boot, past |-> FALSE]
<1>1. cond.setting \in Timeouts \cup {0} /\ boot \in 0..MaxBoots
  BY BootIs DEF WorldType
<1>2. D \in Deadlines /\ D.minutes = cond.setting /\ D.boot = boot
  BY <1>1 DEF Deadlines
<1>3. Armed = [store EXCEPT !.deadline = D]
  BY DEF Armed
<1> HIDE DEF D
<1>4. Armed \in Files /\ Armed.phase = store.phase /\ Armed.restore = store.restore /\ Armed.deadline = D
  BY <1>2, <1>3 DEF Files
<1> QED  BY <1>2, <1>4

\* A new phase leaves the rest of the file.
LEMMA PhaseIs ==
  ASSUME NEW s \in Files, NEW f \in Phases \cup {"none", "bad"}, NEW t, t = [s EXCEPT !.phase = f]
  PROVE  t \in Files /\ t.phase = f /\ t.restore = s.restore /\ t.deadline = s.deadline
BY DEF Files

-----------------------------------------------------------------------------
(* How a handler ends or goes on *)

LEMMA SpendType ==
  ASSUME budget \in Spent, NEW f \in {"lids", "acts", "sleeps", "faults", "crashes"}, NEW b, Spend(f, b)
  PROVE  budget' \in Spent
BY DEF Spent, Spend

LEMMA FaultType == ASSUME budget \in Spent, Fault \/ Fine \/ Act \/ Night PROVE budget' \in Spent
BY SpendType DEF Fault, Fine, Act, Night

LEMMA GotoIs ==
  ASSUME ServiceType, NEW s \in Steps, Goto(s)
  PROVE  pc' = s /\ run' = run /\ d' = d /\ broken' = broken
BY DEF Goto

LEMMA EndIs ==
  ASSUME ServiceType, NEW okay \in BOOLEAN, End(okay)
  PROVE  /\ pc' = "idle" /\ run' = NoRun /\ run' \in Locals /\ d' \in Lids /\ d'.mode = d.mode
         /\ broken' = (broken \/ run.saw) /\ broken' \in BOOLEAN
<1>1. d' = [d EXCEPT !.retry = ~okay] /\ d \in Lids
  BY DEF End, Ended, ServiceType
<1>2. d' \in Lids /\ d'.mode = d.mode
  BY <1>1 DEF Lids
<1> QED  BY <1>2, FreshIs DEF End, Ended, ServiceType, Locals

LEMMA WriteFailsIs ==
  ASSUME ServiceType, WriteFails
  PROVE  /\ pc' = "idle" /\ run' = NoRun /\ run' \in Locals /\ d' \in Lids /\ d'.mode = d.mode
         /\ store' = store /\ broken' = broken /\ broken' \in BOOLEAN /\ Fault
<1>1. /\ d \in Lids /\ run.steady \in BOOLEAN
      /\ d' = IF run.steady THEN [d EXCEPT !.ticking = @ /\ run.by # "tick"]
                            ELSE [d EXCEPT !.retry = TRUE]
  BY DEF WriteFails, ServiceType, Locals
<1>2. CASE d' = [d EXCEPT !.retry = TRUE]
  BY <1>1, <1>2, FreshIs DEF Lids, WriteFails, ServiceType
<1>3. CASE d' = [d EXCEPT !.ticking = @ /\ run.by # "tick"]
  <2>1. (d.ticking /\ run.by # "tick") \in BOOLEAN
    OBVIOUS
  <2>2. d' \in Lids /\ d'.mode = d.mode
    BY <1>1, <1>3, <2>1 DEF Lids
  <2> QED  BY <2>2, FreshIs DEF WriteFails, ServiceType
<1> QED  BY <1>1, <1>2, <1>3

LEMMA LookIs ==
  ASSUME NEW by \in {"tick", "signal"}, Look(by)
  PROVE  pc' = "look" /\ run' \in Locals /\ ~run'.saw
<1>1. NoRun \in Locals /\ NoRun.saw = FALSE
  BY FreshIs
<1>2. run' = [NoRun EXCEPT !.by = by] /\ pc' = "look"
  BY DEF Look
<1>3. PICK r \in Locals : r = NoRun
  BY <1>1
<1>4. run' = [r EXCEPT !.by = by]
  BY <1>2, <1>3
<1>5. run' \in Locals /\ run'.saw = r.saw
  BY <1>4 DEF Locals
<1> QED  BY <1>1, <1>2, <1>3, <1>5

LEMMA InhibitIs ==
  ASSUME ServiceType, budget \in Spent, NEW held \in BOOLEAN, Inhibit(held)
  PROVE  fd' \in BOOLEAN /\ budget' \in Spent
BY FaultType DEF Inhibit

LEMMA WakeUpIs ==
  ASSUME ServiceType, budget \in Spent, NEW by \in {"tick", "signal"}, WakeUp(by)
  PROVE  /\ pc' = "look" /\ run' \in Locals /\ ~run'.saw /\ d' \in Lids
         /\ fd' \in BOOLEAN /\ budget' \in Spent
<1>1. d' = [d EXCEPT !.polling = FALSE, !.preparing = FALSE, !.retry = TRUE] /\ d \in Lids
  BY DEF WakeUp, ServiceType
<1>2. d' \in Lids
  BY <1>1 DEF Lids
<1>3. pc' = "look" /\ run' \in Locals /\ ~run'.saw
  BY LookIs DEF WakeUp
<1>4. fd' \in BOOLEAN /\ budget' \in Spent
  BY InhibitIs DEF WakeUp
<1> QED  BY <1>2, <1>3, <1>4

LEMMA DeadIs ==
  ASSUME Dead
  PROVE  run' = NoRun /\ run' \in Locals /\ d' \in Lids /\ fd' \in BOOLEAN /\ inbox' \in Seq(Signals)
<1>1. <<>> \in Seq(Signals)
  OBVIOUS
<1>2. run' = NoRun /\ d' = Fresh /\ fd' = FALSE /\ inbox' = <<>>
  BY DEF Dead
<1> QED  BY <1>1, <1>2, FreshIs

-----------------------------------------------------------------------------
(* What the handlers do to the service and its file *)

\* On to another step, to the end of the handler, or out of it by a failed write.
Goes(s) == /\ pc' = s /\ run' \in Locals /\ run'.saw = run.saw
           /\ d' \in Lids /\ d'.mode = d.mode /\ broken' = broken
Ends    == /\ pc' = "idle" /\ run' = NoRun /\ run' \in Locals
           /\ d' \in Lids /\ d'.mode = d.mode /\ broken' = (broken \/ run.saw)
Against == /\ pc' = "idle" /\ run' = NoRun /\ run' \in Locals
           /\ d' \in Lids /\ d'.mode = d.mode /\ broken' = TRUE
Stops   == /\ pc' = "idle" /\ run' = NoRun /\ run' \in Locals
           /\ d' \in Lids /\ d'.mode = d.mode /\ broken' = broken /\ store' = store

Panels == panel' \in {"on", "fading", "off"} /\ budget' \in Spent

LEMMA GoesOn ==
  ASSUME ServiceType, NEW s \in Steps, Goto(s)
  PROVE  Goes(s)
BY GotoIs DEF Goes, ServiceType, Locals

LEMMA EndsNow == ASSUME ServiceType, NEW okay \in BOOLEAN, End(okay) PROVE Ends
BY EndIs DEF Ends

LEMMA AgainstNow == ASSUME ServiceType, NEW okay \in BOOLEAN, Refuse(okay) PROVE Against
<1>1. d' = [d EXCEPT !.retry = ~okay] /\ d \in Lids
  BY DEF Refuse, Ended, ServiceType
<1>2. d' \in Lids /\ d'.mode = d.mode
  BY <1>1 DEF Lids
<1> QED  BY <1>2, FreshIs DEF Refuse, Ended, Against

LEMMA StopsNow == ASSUME ServiceType, WriteFails PROVE Stops
BY WriteFailsIs DEF Stops

\* What comes of the looks at the lid.
LEMMA ConcludeDoes ==
  ASSUME TypeOK, NEW m \in Modes, Conclude(m)
  PROVE  /\ run' \in Locals /\ d' \in Lids
         /\ pc' \in {"idle", "clear", "keep", "claim", "drop"}
         /\ pc' = "claim" => ~run'.saw
         /\ pc' = "keep" /\ run'.saw => d'.mode # "connected"
<1>1. d \in Lids /\ run \in Locals /\ WorldType
  BY TypeIs DEF ServiceType
<1> DEFINE first   == d.lid = "none"
           now     == IF lid THEN "closed" ELSE "open"
           recover == d.retry \/ (~lid /\ store.phase # "none")
           act     == first \/ now # d.lid \/ recover \/ (lid /\ m # d.mode)
           ready   == ~lid /\ (~act \/ (first /\ ~recover))
           saw     == ~lid \/ m # "connected"
<1>2. /\ d' = [d EXCEPT !.lid = now, !.mode = m, !.retry = @ /\ ~ready]
      /\ IF ready THEN pc' = "idle" /\ run' = NoRun
         ELSE /\ pc' = IF ~lid THEN "clear" ELSE IF ~act THEN "keep"
                       ELSE IF m = "connected" THEN "claim" ELSE "drop"
              /\ run' = [run EXCEPT !.steady = ~act, !.saw = saw]
  BY DEF Conclude
<1>3. /\ now \in {"open", "closed"} /\ act \in BOOLEAN /\ ready \in BOOLEAN /\ saw \in BOOLEAN
      /\ (d.retry /\ ~ready) \in BOOLEAN /\ (~act) \in BOOLEAN /\ lid \in BOOLEAN
  BY <1>1 DEF Lids, WorldType
<1>4. ~saw <=> lid /\ m = "connected"
  BY <1>3
<1> HIDE DEF now, act, ready, saw
<1>5. d' \in Lids /\ d'.mode = m
  BY <1>1, <1>2, <1>3 DEF Lids
<1>6. CASE ready
  BY <1>2, <1>5, <1>6, FreshIs
<1>7. CASE ~ready
  <2>1. run' \in Locals /\ run'.saw = saw
    BY <1>1, <1>2, <1>3, <1>7 DEF Locals
  <2>2. pc' = IF ~lid THEN "clear" ELSE IF ~act THEN "keep"
              ELSE IF m = "connected" THEN "claim" ELSE "drop"
    BY <1>2, <1>7
  <2> QED  BY <1>3, <1>4, <1>5, <2>1, <2>2
<1> QED  BY <1>6, <1>7

LEMMA DecideDoes ==
  ASSUME TypeOK, Decide
  PROVE  /\ pc \in {"look", "ask"} /\ Rest /\ store' = store /\ Panels /\ broken' = broken
         /\ pc' \in {"idle", "ask", "clear", "keep", "claim", "drop"} /\ run' \in Locals /\ d' \in Lids
         /\ pc' = "ask" => pc = "look" /\ run' = run
         /\ pc' = "claim" => ~run'.saw
         /\ pc' = "keep" /\ run'.saw => d'.mode # "connected"
<1>1. /\ ServiceType /\ WorldType /\ budget \in Spent /\ d \in Lids /\ run \in Locals
      /\ panel \in {"on", "fading", "off"} /\ cond.mode \in Modes /\ d.mode \in Modes
      /\ "unknown" \in Modes
  BY TypeIs DEF ServiceType, WorldType, Lids, Modes
<1>2. pc \in {"look", "ask"} /\ Rest /\ store' = store /\ panel' = panel /\ broken' = broken
  BY DEF Decide, At
<1>3. budget' \in Spent
  BY <1>1, FaultType DEF Decide, LookFails
<1>4. CASE LookFails
  <2>1. d' \in Lids
    BY <1>1, <1>4 DEF Lids, LookFails
  <2> QED  BY <1>1, <1>2, <1>3, <1>4, <2>1, FreshIs DEF Panels, LookFails
<1>5. CASE pc = "look" /\ pc' = "ask" /\ UNCHANGED <<run, d>>
  BY <1>1, <1>2, <1>3, <1>5 DEF Panels
<1>6. CASE Conclude(cond.mode) \/ Conclude(d.mode) \/ Conclude("unknown")
  BY <1>1, <1>2, <1>3, <1>6, ConcludeDoes DEF Panels
<1> QED  BY <1>4, <1>5, <1>6 DEF Decide, At

LEMMA KeepDoes ==
  ASSUME TypeOK, Keep
  PROVE  pc = "keep" /\ Rest /\ store' = store /\ Panels /\ Goes("sync")
<1>1. ServiceType /\ WorldType /\ budget \in Spent /\ run \in Locals /\ panel \in {"on", "fading", "off"}
  BY TypeIs DEF ServiceType, WorldType
<1>2. pc = "keep" /\ Rest /\ store' = store
  BY DEF Keep, At
<1>3. CASE panel' = "off" /\ Fine /\ Goto("sync")
  BY <1>1, <1>2, <1>3, GoesOn, FaultType DEF Panels, Steps
<1>4. CASE BlankFails /\ pc' = "sync" /\ run' = [run EXCEPT !.ok = FALSE] /\ UNCHANGED <<d, broken>>
  <2>1. run' \in Locals /\ run'.saw = run.saw
    BY <1>1, <1>4 DEF Locals
  <2>2. panel' \in {"on", "fading", "off"} /\ budget' \in Spent
    BY <1>1, <1>4, FaultType DEF BlankFails
  <2> QED  BY <1>1, <1>2, <1>4, <2>1, <2>2 DEF Goes, Panels, ServiceType
<1> QED  BY <1>3, <1>4 DEF Keep

LEMMA BlankDoes ==
  ASSUME TypeOK, Blank
  PROVE  /\ pc \in {"blank", "dim"} /\ Rest /\ store' = store /\ Panels
         /\ (pc = "blank" /\ Goes("recheck")) \/ (pc = "dim" /\ Goes("clear")) \/ Ends
<1>1. ServiceType /\ WorldType /\ budget \in Spent /\ run \in Locals /\ panel \in {"on", "fading", "off"}
  BY TypeIs DEF ServiceType, WorldType
<1>2. pc \in {"blank", "dim"} /\ Rest /\ store' = store
  BY DEF Blank, At
<1>3. CASE /\ panel' = "off" /\ Fine
           /\ pc' = IF pc = "blank" THEN "recheck" ELSE "clear"
           /\ run' = [run EXCEPT !.wake = pc = "blank"] /\ UNCHANGED <<d, broken>>
  <2>1. run' \in Locals /\ run'.saw = run.saw
    BY <1>1, <1>3 DEF Locals
  <2> QED  BY <1>1, <1>2, <1>3, <2>1, FaultType DEF Panels, Goes, ServiceType
<1>4. CASE BlankFails /\ End(FALSE)
  BY <1>1, <1>2, <1>4, EndsNow, FaultType DEF BlankFails, Panels
<1> QED  BY <1>3, <1>4 DEF Blank

LEMMA WakeDoes ==
  ASSUME TypeOK, Wake
  PROVE  pc = "wake" /\ Rest /\ store' = store /\ Panels /\ (Goes("restore") \/ Ends)
<1>1. ServiceType /\ budget \in Spent /\ panel \in {"on", "fading", "off"}
  BY TypeIs DEF WorldType
<1>2. Goto("restore") => Goes("restore")
  BY <1>1, GoesOn DEF Steps
<1> QED  BY <1>1, <1>2, EndsNow, FaultType DEF Wake, At, Panels

LEMMA ClaimDoes ==
  ASSUME TypeOK, Claim
  PROVE  /\ pc = "claim" /\ Rest /\ Panels
         /\ \/ store' = store /\ Goes("blank")
            \/ Stops
            \/ /\ store.phase = "none" /\ Goes("blank") /\ store' \in Files
               /\ store'.restore = profile /\ store'.deadline = NoDeadline
               /\ store'.phase \in {"unmanaged", "baseline", "pending"}
               /\ store'.phase = "pending" => profile \in Managed \ {"powersave"}
<1>1. ServiceType /\ WorldType /\ budget \in Spent /\ store \in Files
  BY TypeIs
<1>2. pc = "claim" /\ Rest /\ panel' = panel /\ panel \in {"on", "fading", "off"}
  BY <1>1 DEF Claim, At, WorldType
<1>3. Goto("blank") => Goes("blank")
  BY <1>1, GoesOn DEF Steps
<1>4. CASE store.phase # "none" /\ Fine /\ Goto("blank") /\ UNCHANGED store
  BY <1>1, <1>2, <1>3, <1>4, FaultType DEF Panels
<1>5. CASE WriteFails
  BY <1>1, <1>2, <1>5, StopsNow, FaultType DEF Panels, WriteFails
<1>6. CASE /\ store.phase = "none" /\ Goto("blank")
           /\ Writes([Missing EXCEPT
                !.restore = profile,
                !.phase = IF profile \notin Managed THEN "unmanaged"
                          ELSE IF profile = "powersave" THEN "baseline" ELSE "pending"])
  <2> DEFINE f == IF profile \notin Managed THEN "unmanaged"
                  ELSE IF profile = "powersave" THEN "baseline" ELSE "pending"
  <2>1. f \in {"unmanaged", "baseline", "pending"} /\ (f = "pending" => profile \in Managed \ {"powersave"})
    OBVIOUS
  <2>2. f \in Phases \cup {"none", "bad"}
    BY <2>1 DEF Phases, Lowering
  <2>3. store' = [Missing EXCEPT !.restore = profile, !.phase = f] /\ Fine
    BY <1>6 DEF Writes
  <2> HIDE DEF f
  <2>4. profile \in Profiles /\ Missing \in Files /\ Missing.deadline = NoDeadline
    BY <1>1, MissingIs DEF WorldType
  <2>5. store' \in Files /\ store'.restore = profile /\ store'.phase = f /\ store'.deadline = NoDeadline
    BY <2>2, <2>3, <2>4 DEF Files
  <2> QED  BY <1>1, <1>2, <1>3, <1>6, <2>1, <2>3, <2>5, FaultType DEF Panels
<1> QED  BY <1>4, <1>5, <1>6 DEF Claim

LEMMA RecheckDoes ==
  ASSUME TypeOK, Recheck
  PROVE  /\ pc = "recheck" /\ Rest /\ store' = store /\ Panels
         /\ \/ Ends \/ (Goes("own") /\ Usable)
            \/ pc' = "clear" /\ run' \in Locals /\ d' = d /\ broken' = broken
<1>1. ServiceType /\ budget \in Spent /\ run \in Locals /\ panel \in {"on", "fading", "off"}
  BY TypeIs DEF WorldType, ServiceType
<1>2. pc = "recheck" /\ Rest /\ store' = store /\ panel' = panel
  BY DEF Recheck, At
<1>3. Goto("own") => Goes("own")
  BY <1>1, GoesOn DEF Steps
<1>4. run' = [run EXCEPT !.saw = TRUE] => run' \in Locals
  BY <1>1 DEF Locals
<1>5. Fault \/ Fine
  BY DEF Recheck
<1>6. budget' \in Spent
  BY <1>1, <1>5, FaultType
<1> QED  BY <1>1, <1>2, <1>3, <1>4, <1>6, EndsNow DEF Recheck, Panels

LEMMA OwnDoes ==
  ASSUME TypeOK, Own
  PROVE  /\ pc = "own" /\ Rest /\ Panels
         /\ \/ Goes("lower") /\ store' = store /\ store.phase = "pending" /\ profile = store.restore
            \/ Stops
            \/ /\ Goes("sync") /\ store' \in Files /\ store'.restore = store.restore
               /\ store'.deadline = store.deadline
               /\ store'.phase \in Lowering => store.phase \in Lowering
               /\ store.phase \in Lowering /\ store'.phase \notin Lowering =>
                    store'.phase \in Phases /\ profile # "powersave"
               /\ store.phase \notin Lowering => store'.phase = store.phase
<1>1. /\ ServiceType /\ budget \in Spent /\ panel \in {"on", "fading", "off"} /\ store \in Files
      /\ store.phase \in Phases \cup {"none", "bad"}
  BY TypeIs, StoreIs DEF WorldType
<1>2. pc = "own" /\ Rest /\ panel' = panel
  BY DEF Own, At
<1> DEFINE phase == IF store.phase = "pending"
                      THEN IF profile = "powersave" THEN "owned"
                           ELSE IF profile = store.restore THEN "pending" ELSE "external"
                    ELSE IF store.phase = "owned" /\ profile # "powersave" THEN "external"
                    ELSE store.phase
<1>3. /\ phase \in Lowering => store.phase \in Lowering
      /\ store.phase \in Lowering /\ phase \notin Lowering => phase = "external" /\ profile # "powersave"
      /\ store.phase \notin Lowering => phase = store.phase
      /\ phase = "pending" => store.phase = "pending" /\ profile = store.restore
      /\ phase \in Phases \cup {"none", "bad"}
  BY <1>1 DEF Lowering, Phases
<1>4. \/ phase = "pending" /\ Fine /\ Goto("lower") /\ UNCHANGED store
      \/ phase # "pending" /\ Goto("sync") /\ Writes([store EXCEPT !.phase = phase])
      \/ phase # store.phase /\ WriteFails
  BY DEF Own
<1> HIDE DEF phase
<1>5. CASE phase = "pending" /\ Fine /\ Goto("lower") /\ UNCHANGED store
  <2>1. Goes("lower")
    BY <1>1, <1>5, GoesOn DEF Steps
  <2> QED  BY <1>1, <1>2, <1>3, <1>5, <2>1, FaultType DEF Panels
<1>6. CASE WriteFails
  BY <1>1, <1>2, <1>6, StopsNow, FaultType DEF Panels, WriteFails
<1>7. CASE Goto("sync") /\ Writes([store EXCEPT !.phase = phase])
  <2>1. Goes("sync")
    BY <1>1, <1>7, GoesOn DEF Steps
  <2>2. store' = [store EXCEPT !.phase = phase] /\ Fine
    BY <1>7 DEF Writes
  <2>3. /\ store' \in Files /\ store'.phase = phase /\ store'.restore = store.restore
        /\ store'.deadline = store.deadline
    BY <1>1, <1>3, <2>2 DEF Files
  <2>4. budget' \in Spent
    BY <1>1, <2>2, FaultType
  <2>5. "external" \in Phases
    BY DEF Phases
  <2> QED  BY <1>1, <1>2, <1>3, <2>1, <2>3, <2>4, <2>5 DEF Panels
<1> QED  BY <1>4, <1>5, <1>6, <1>7

\* A profile command did its work, or it was not seen to: then it did, did not, or will.
LEMMA SetProfileDoes ==
  ASSUME TypeOK, NEW p, NEW next \in Steps, SetProfile(p, next)
  PROVE  /\ budget' \in Spent
         /\ \/ Goes(next) /\ profile' = p /\ late' = late
            \/ /\ Ends /\ \/ profile' = p /\ late' = late
                          \/ profile' = profile /\ late' = late
                          \/ profile' = profile /\ late' = p
<1>1. ServiceType /\ budget \in Spent
  BY TypeIs
<1> QED  BY <1>1, GoesOn, EndsNow, FaultType DEF SetProfile

LEMMA LoweredDoes ==
  ASSUME TypeOK, Lowered
  PROVE  /\ pc = "lowered" /\ Rest /\ Panels
         /\ \/ Ends /\ store' = store
            \/ Stops
            \/ /\ Goes("sync") /\ store' \in Files /\ store'.restore = store.restore
               /\ store'.deadline = store.deadline /\ store'.phase = "owned"
<1>1. ServiceType /\ budget \in Spent /\ panel \in {"on", "fading", "off"} /\ store \in Files
  BY TypeIs DEF WorldType
<1>2. pc = "lowered" /\ Rest /\ panel' = panel
  BY DEF Lowered, At
<1>3. Writes([store EXCEPT !.phase = "owned"]) =>
        /\ store' \in Files /\ store'.restore = store.restore /\ Fine
        /\ store'.deadline = store.deadline /\ store'.phase = "owned"
  <2> SUFFICES ASSUME store' = [store EXCEPT !.phase = "owned"]
               PROVE  /\ store' \in Files /\ store'.restore = store.restore
                      /\ store'.deadline = store.deadline /\ store'.phase = "owned"
    BY DEF Writes
  <2> QED  BY <1>1 DEF Files, Phases, Lowering
<1>4. Goto("sync") => Goes("sync")
  BY <1>1, GoesOn DEF Steps
<1>5. budget' \in Spent
  BY <1>1, FaultType DEF Lowered, Writes, WriteFails
<1> QED  BY <1>1, <1>2, <1>3, <1>4, <1>5, EndsNow, StopsNow DEF Lowered, Panels

LEMMA UsableIs == Usable <=> store.phase \in Phases
BY DEF Usable

LEMMA DropDoes ==
  ASSUME TypeOK, Drop
  PROVE  /\ pc = "drop" /\ Rest /\ Panels
         /\ Stops \/ (Goes("dim") /\ store' = IF Usable THEN Cleared ELSE store)
<1>1. ServiceType /\ budget \in Spent /\ panel \in {"on", "fading", "off"}
  BY TypeIs DEF WorldType
<1>2. Goto("dim") => Goes("dim")
  BY <1>1, GoesOn DEF Steps
<1>3. budget' \in Spent /\ pc = "drop" /\ Rest /\ panel' = panel
  BY <1>1, FaultType DEF Drop, Writes, WriteFails, At
<1> QED  BY <1>1, <1>2, <1>3, StopsNow DEF Drop, Panels, Writes

LEMMA SyncDoes ==
  ASSUME TypeOK, Sync
  PROVE  /\ pc = "sync" /\ Rest /\ Panels
         /\ \/ ~Usable /\ Ends /\ store' = store
            \/ Against /\ store' = Cleared
            \/ Stops
            \/ /\ Usable /\ store' = Armed /\ broken' = FALSE
               /\ pc' = "idle" /\ run' = NoRun /\ d' \in Lids
            \/ /\ MayPowerOff /\ Usable /\ store' = store /\ (Goes("final") \/ Ends)
               /\ store.deadline.minutes = cond.setting /\ store.deadline.boot = boot
               /\ pc' = "final" => store.deadline.past
<1>1. ServiceType /\ budget \in Spent /\ panel \in {"on", "fading", "off"} /\ d \in Lids /\ run.ok \in BOOLEAN
  BY TypeIs DEF WorldType, ServiceType, Locals
<1>2. pc = "sync" /\ Rest /\ panel' = panel
  BY DEF Sync, At
<1>3. budget' \in Spent
  BY <1>1, FaultType DEF Sync, Writes, WriteFails
<1>4. /\ WriteFails => Stops
      /\ Goto("final") => Goes("final")
      /\ End(run.ok) => Ends
      /\ End(run.ok /\ store.phase = "none") => Ends
      /\ Refuse(run.ok) => Against
  <2>1. (run.ok /\ store.phase = "none") \in BOOLEAN
    OBVIOUS
  <2> QED  BY <1>1, <2>1, StopsNow, GoesOn, EndsNow, AgainstNow DEF Steps
<1>5. d' = [d EXCEPT !.retry = ~run.ok] => d' \in Lids
  BY <1>1 DEF Lids
<1>6. CASE ~Usable /\ Fine /\ End(run.ok /\ store.phase = "none") /\ UNCHANGED store
  BY <1>1, <1>2, <1>3, <1>4, <1>6 DEF Panels
<1>7. CASE WriteFails
  BY <1>1, <1>2, <1>3, <1>4, <1>7 DEF Panels
<1>8. CASE store' = Cleared /\ Refuse(run.ok)
  BY <1>1, <1>2, <1>3, <1>4, <1>8 DEF Panels
<1>9. CASE Usable /\ Writes(Armed) /\ Ended(run.ok) /\ broken' = FALSE
  BY <1>1, <1>2, <1>3, <1>5, <1>9 DEF Panels, Writes, Ended
<1>10. CASE /\ MayPowerOff /\ Usable /\ UNCHANGED store
            /\ \/ Goto("final") /\ store.deadline.past
               \/ End(run.ok)
            /\ store.deadline.minutes = cond.setting /\ store.deadline.boot = boot
  <2>1. CASE Goto("final") /\ store.deadline.past
    BY <1>1, <1>2, <1>3, <1>4, <1>10, <2>1 DEF Panels
  <2>2. CASE End(run.ok)
    BY <1>1, <1>2, <1>3, <1>4, <1>10, <2>2 DEF Panels, Ends
  <2> QED  BY <1>10, <2>1, <2>2
<1> QED  BY <1>6, <1>7, <1>8, <1>9, <1>10 DEF Sync, Writes, Dropped

LEMMA FinalDoes ==
  ASSUME TypeOK, Final
  PROVE  /\ pc = "final" /\ Rest /\ Panels
         /\ \/ store' = store /\ (Ends \/ Goes("poweroff"))
            \/ Against /\ store' = Cleared
            \/ Ends /\ store' = Armed
            \/ Stops
<1>1. ServiceType /\ budget \in Spent /\ panel \in {"on", "fading", "off"} /\ run.ok \in BOOLEAN
  BY TypeIs DEF WorldType, ServiceType, Locals
<1>2. pc = "final" /\ Rest /\ panel' = panel /\ budget' \in Spent
  BY <1>1, FaultType DEF Final, At, Writes, WriteFails
<1>3. /\ WriteFails => Stops
      /\ Goto("poweroff") => Goes("poweroff")
      /\ End(run.ok) => Ends
      /\ End(FALSE) => Ends
      /\ Refuse(run.ok) => Against
  BY <1>1, StopsNow, GoesOn, EndsNow, AgainstNow DEF Steps
<1> QED  BY <1>1, <1>2, <1>3 DEF Final, Panels, Writes, Dropped

LEMMA ClearDoes ==
  ASSUME TypeOK, Clear
  PROVE  /\ pc = "clear" /\ Rest /\ Panels
         /\ \/ Stops
            \/ (Goes("wake") \/ Goes("restore")) /\ store' = IF Usable THEN Cleared ELSE store
<1>1. ServiceType /\ budget \in Spent /\ panel \in {"on", "fading", "off"}
  BY TypeIs DEF WorldType
<1>2. pc = "clear" /\ Rest /\ panel' = panel /\ budget' \in Spent
  BY <1>1, FaultType DEF Clear, At, Writes, WriteFails
<1>3. Goto(AfterClear) => Goes("wake") \/ Goes("restore")
  BY <1>1, GoesOn DEF AfterClear, Steps
<1> QED  BY <1>1, <1>2, <1>3, StopsNow DEF Clear, Panels, Writes

Due == /\ store.phase \in Lowering /\ profile = "powersave"
       /\ store.restore \in Managed \ {"powersave"}

LEMMA RestoreDoes ==
  ASSUME TypeOK, Restore
  PROVE  /\ pc = "restore" /\ Rest /\ Panels
         /\ \/ ~Usable /\ Ends /\ store' = store
            \/ Stops
            \/ ~Due /\ Ends /\ store' = Missing
            \/ /\ Due /\ Goes("raise") /\ store' \in Files /\ store'.restore = store.restore
               /\ store'.deadline = store.deadline /\ store'.phase = "restore-pending"
<1>1. ServiceType /\ budget \in Spent /\ panel \in {"on", "fading", "off"} /\ store \in Files
  BY TypeIs DEF WorldType
<1>2. pc = "restore" /\ Rest /\ panel' = panel /\ budget' \in Spent
  BY <1>1, FaultType DEF Restore, At, Writes, WriteFails
<1>3. Writes([store EXCEPT !.phase = "restore-pending"]) =>
        /\ store' \in Files /\ store'.restore = store.restore
        /\ store'.deadline = store.deadline /\ store'.phase = "restore-pending"
  <2> SUFFICES ASSUME store' = [store EXCEPT !.phase = "restore-pending"]
               PROVE  /\ store' \in Files /\ store'.restore = store.restore
                      /\ store'.deadline = store.deadline /\ store'.phase = "restore-pending"
    BY DEF Writes
  <2> QED  BY <1>1 DEF Files, Phases, Lowering
<1>4. Goto("raise") => Goes("raise")
  BY <1>1, GoesOn DEF Steps
<1>5. \/ ~Usable /\ End(TRUE) /\ store' = store
      \/ Due /\ Goto("raise") /\ Writes([store EXCEPT !.phase = "restore-pending"])
      \/ ~Due /\ Writes(Missing) /\ End(TRUE)
      \/ WriteFails
  BY DEF Restore, Due
<1> QED  BY <1>1, <1>2, <1>3, <1>4, <1>5, StopsNow, EndsNow DEF Panels, Writes

LEMMA RaisedDoes ==
  ASSUME TypeOK, Raised
  PROVE  /\ pc = "raised" /\ Rest /\ Panels
         /\ \/ Ends /\ store' = store
            \/ Stops
            \/ profile = store.restore /\ Ends /\ store' = Missing
<1>1. ServiceType /\ budget \in Spent /\ panel \in {"on", "fading", "off"}
  BY TypeIs DEF WorldType
<1>2. pc = "raised" /\ Rest /\ panel' = panel /\ budget' \in Spent
  BY <1>1, FaultType DEF Raised, At, Writes, WriteFails
<1> QED  BY <1>1, <1>2, StopsNow, EndsNow DEF Raised, Panels, Writes

\* The main loop and the preparation for sleep leave file and profile alone.
Loops == /\ pc \in {"idle", "down", "prepare", "judge"}
         /\ UNCHANGED <<store, profile, late, broken, system, history>> /\ Panels
         /\ d' \in Lids /\ fd' \in BOOLEAN /\ inbox' \in Seq(Signals)
         /\ \/ pc' = "look" /\ run' \in Locals /\ ~run'.saw
            \/ pc' \in {"idle", "prepare", "judge"} /\ run' = run

LEMMA TickDoes == ASSUME TypeOK, Tick PROVE Loops
<1>1. ServiceType /\ budget \in Spent /\ panel \in {"on", "fading", "off"} /\ fd \in BOOLEAN
      /\ inbox \in Seq(Signals) /\ d \in Lids
  BY TypeIs DEF WorldType, ServiceType
<1>2. pc = "idle" /\ UNCHANGED <<store, profile, late, broken, system, history, panel, inbox>>
  BY DEF Tick, Quiet, At
<1>3. CASE Inhibit(fd) /\ Look("tick") /\ UNCHANGED d
  BY <1>1, <1>2, <1>3, InhibitIs, LookIs DEF Loops, Panels
<1>4. CASE WakeUp("tick")
  BY <1>1, <1>2, <1>4, WakeUpIs DEF Loops, Panels
<1> QED  BY <1>3, <1>4 DEF Tick

LEMMA ReceiveDoes == ASSUME TypeOK, Receive PROVE Loops
<1>1. ServiceType /\ budget \in Spent /\ panel \in {"on", "fading", "off"} /\ fd \in BOOLEAN
      /\ inbox \in Seq(Signals) /\ d \in Lids
  BY TypeIs DEF WorldType, ServiceType
<1>2. pc = "idle" /\ UNCHANGED <<store, profile, late, broken, system, history, panel>>
  BY DEF Receive, At
<1>3. Head(inbox) \in Signals /\ inbox' \in Seq(Signals)
  <2>1. inbox # <<>> /\ inbox' = Tail(inbox)
    BY DEF Receive
  <2> QED  BY <1>1, <2>1, HeadTailProperties
<1>4. CASE Head(inbox) = "lid"
  <2>1. d' = [d EXCEPT !.debounce = @ \/ ~d.preparing] /\ Fine /\ UNCHANGED <<pc, run, fd>>
    BY <1>4 DEF Receive
  <2>2. (d.debounce \/ ~d.preparing) \in BOOLEAN
    OBVIOUS
  <2>3. d' \in Lids
    BY <1>1, <2>1, <2>2 DEF Lids
  <2> QED  BY <1>1, <1>2, <1>3, <2>1, <2>3, FaultType DEF Loops, Panels
<1>5. CASE Head(inbox) = "sleep" /\ d.preparing
  <2>1. Fine /\ UNCHANGED <<pc, run, d, fd>>
    BY <1>5 DEF Receive
  <2> QED  BY <1>1, <1>2, <1>3, <2>1, FaultType DEF Loops, Panels
<1>6. CASE Head(inbox) = "sleep" /\ ~d.preparing
  <2>1. /\ d' = [d EXCEPT !.preparing = TRUE, !.polling = FALSE, !.debounce = FALSE,
                          !.started = FALSE, !.finished = FALSE, !.overdue = FALSE]
        /\ pc' = "prepare" /\ Fine /\ UNCHANGED <<run, fd>>
    BY <1>6 DEF Receive
  <2>2. d' \in Lids
    BY <1>1, <2>1 DEF Lids
  <2> QED  BY <1>1, <1>2, <1>3, <2>1, <2>2, FaultType DEF Loops, Panels
<1>7. CASE Head(inbox) = "wake"
  <2>1. WakeUp("signal")
    BY <1>7 DEF Receive
  <2> QED  BY <1>1, <1>2, <1>3, <2>1, WakeUpIs DEF Loops, Panels
<1> QED  BY <1>3, <1>4, <1>5, <1>6, <1>7 DEF Signals

LEMMA DebouncedDoes == ASSUME TypeOK, Debounced PROVE Loops
<1>1. ServiceType /\ budget \in Spent /\ panel \in {"on", "fading", "off"} /\ fd \in BOOLEAN
      /\ inbox \in Seq(Signals) /\ d \in Lids
  BY TypeIs DEF WorldType, ServiceType
<1>2. d' = [d EXCEPT !.debounce = FALSE]
  BY DEF Debounced
<1>3. d' \in Lids
  BY <1>1, <1>2 DEF Lids
<1> QED  BY <1>1, <1>3, InhibitIs, LookIs DEF Debounced, At, Quiet, Loops, Panels

LEMMA PollDoes == ASSUME TypeOK, Poll PROVE Loops
<1>1. ServiceType /\ budget \in Spent /\ panel \in {"on", "fading", "off"} /\ fd \in BOOLEAN
      /\ inbox \in Seq(Signals) /\ d \in Lids
  BY TypeIs DEF WorldType, ServiceType
<1>2. d' = [d EXCEPT !.polling = FALSE]
  BY DEF Poll
<1>3. d' \in Lids
  BY <1>1, <1>2 DEF Lids
<1> QED  BY <1>1, <1>3, FaultType DEF Poll, At, Quiet, Loops, Panels

LEMMA StartDoes == ASSUME TypeOK, Start PROVE Loops
<1>1. ServiceType /\ budget \in Spent /\ panel \in {"on", "fading", "off"} /\ fd \in BOOLEAN
      /\ inbox \in Seq(Signals) /\ d \in Lids
  BY TypeIs DEF WorldType, ServiceType
<1>2. pc = "down" /\ UNCHANGED <<store, profile, late, broken, system, history, panel, inbox>>
  BY DEF Start, Quiet, At
<1>3. CASE Inhibit(FALSE) /\ Look("signal") /\ UNCHANGED d
  BY <1>1, <1>2, <1>3, InhibitIs, LookIs DEF Loops, Panels
<1>4. CASE d' = [d EXCEPT !.preparing = TRUE] /\ pc' = "idle" /\ Fine /\ UNCHANGED <<run, fd>>
  <2>1. d' \in Lids
    BY <1>1, <1>4 DEF Lids
  <2> QED  BY <1>1, <1>2, <1>4, <2>1, FaultType DEF Loops, Panels
<1> QED  BY <1>3, <1>4 DEF Start

LEMMA FinishIs ==
  ASSUME d \in Lids, Finish
  PROVE  d' \in Lids /\ fd' = FALSE /\ pc' = "idle" /\ UNCHANGED <<run, broken>>
<1>1. d' = [d EXCEPT !.finished = TRUE]
  BY DEF Finish
<1>2. d' \in Lids
  BY <1>1 DEF Lids
<1> QED  BY <1>2 DEF Finish

LEMMA PrepareDoes == ASSUME TypeOK, Prepare PROVE Loops
<1>1. ServiceType /\ budget \in Spent /\ panel \in {"on", "fading", "off"} /\ fd \in BOOLEAN
      /\ inbox \in Seq(Signals) /\ d \in Lids
  BY TypeIs DEF WorldType, ServiceType
<1>2. pc = "prepare" /\ UNCHANGED <<store, profile, late, system, history, inbox>>
      /\ budget' \in Spent
  BY <1>1, FaultType DEF Prepare, Quiet, At
<1>3. CASE Finish /\ UNCHANGED panel
  BY <1>1, <1>2, <1>3, FinishIs DEF Loops, Panels
<1>4. CASE /\ pc' = "judge" /\ d' = [d EXCEPT !.started = TRUE] /\ UNCHANGED <<run, fd, broken>>
           /\ panel' = panel \/ panel' = "fading"
  <2>1. d' \in Lids
    BY <1>1, <1>4 DEF Lids
  <2> QED  BY <1>1, <1>2, <1>4, <2>1 DEF Loops, Panels
<1> QED  BY <1>3, <1>4 DEF Prepare

LEMMA JudgeDoes == ASSUME TypeOK, Judge PROVE Loops
<1>1. ServiceType /\ budget \in Spent /\ panel \in {"on", "fading", "off"} /\ fd \in BOOLEAN
      /\ inbox \in Seq(Signals) /\ d \in Lids
  BY TypeIs DEF WorldType, ServiceType
<1>2. pc = "judge" /\ UNCHANGED <<store, profile, late, system, history, inbox, panel>>
      /\ budget' \in Spent
  BY <1>1, FaultType DEF Judge, Quiet, At
<1>3. CASE Finish
  BY <1>1, <1>2, <1>3, FinishIs DEF Loops, Panels
<1>4. CASE pc' = "idle" /\ d' = [d EXCEPT !.polling = TRUE] /\ UNCHANGED <<run, fd, broken>>
  <2>1. d' \in Lids
    BY <1>1, <1>4 DEF Lids
  <2> QED  BY <1>1, <1>2, <1>4, <2>1 DEF Loops, Panels
<1> QED  BY <1>3, <1>4 DEF Judge

\* The process dies, with what it was about to do still to come; or it powers off.
Dies == /\ pc' \in {"down", "off"} /\ run' = NoRun /\ run' \in Locals
        /\ d' \in Lids /\ fd' \in BOOLEAN /\ inbox' \in Seq(Signals)
        /\ UNCHANGED <<store, panel, profile, broken, system, wanted>>
        /\ lost' \in BOOLEAN /\ budget' \in Spent
        /\ \/ late' = late
           \/ pc = "lower" /\ late' = "powersave"
           \/ pc = "raise" /\ late' = store.restore

LEMMA CrashDoes == ASSUME TypeOK, Crash PROVE Dies
<1>1. WorldType /\ budget \in Spent
  BY TypeIs
<1>2. lost' \in BOOLEAN
  BY <1>1 DEF Crash, WorldType
<1> QED  BY <1>1, <1>2, SpendType, DeadIs DEF Crash, Dies

LEMMA PowerCutDoes == ASSUME TypeOK, PowerCut PROVE Dies
<1>1. WorldType /\ budget \in Spent
  BY TypeIs
<1> QED  BY <1>1, SpendType, DeadIs DEF PowerCut, Dies, history, WorldType

LEMMA PowerOffDoes ==
  ASSUME TypeOK, PowerOff
  PROVE  Dies \/ (pc = "poweroff" /\ Rest /\ store' = store /\ Panels /\ Ends)
<1>1. ServiceType /\ WorldType /\ budget \in Spent /\ panel \in {"on", "fading", "off"}
  BY TypeIs DEF WorldType
<1>2. CASE Fine /\ pc' = "off" /\ Dead /\ UNCHANGED broken
  BY <1>1, <1>2, FaultType, DeadIs DEF PowerOff, Dies, history, WorldType
<1>3. CASE Fault /\ End(FALSE) /\ UNCHANGED <<fd, inbox>>
  BY <1>1, <1>3, FaultType, EndsNow DEF PowerOff, At, Rest, Quiet, Panels
<1> QED  BY <1>2, <1>3 DEF PowerOff

-----------------------------------------------------------------------------
(* What the world does *)

\* User, game, logind and time leave the handler where it is, and of its file change at most
\* that a deadline is past.  A profile they bring about is one they want, or nobody can tell.
Outside == /\ UNCHANGED <<pc, run, broken, boot>> /\ ServiceType' /\ d'.mode = d.mode
           /\ WorldType' /\ LateType' /\ budget' \in Spent
           /\ store' \in Files /\ store'.phase = store.phase /\ store'.restore = store.restore
           /\ store'.deadline.minutes = store.deadline.minutes
           /\ store'.deadline.boot = store.deadline.boot
           /\ store.deadline.past => store'.deadline.past
           /\ \/ UNCHANGED <<profile, wanted, late>>
              \/ wanted' = "any"
              \/ /\ wanted' = profile' /\ pc \notin {"lower", "raise"}
                 /\ store.phase \in Lowering => wanted' # "powersave"

LEMMA TellType == ASSUME inbox \in Seq(Signals), NEW s \in Signals, Tell(s) PROVE inbox' \in Seq(Signals)
BY AppendProperties DEF Tell

\* Where only the world around the service moves.
LEMMA AsideIs ==
  ASSUME TypeOK, UNCHANGED Daemon, inbox' \in Seq(Signals), WorldType', LateType', budget' \in Spent,
         boot' = boot,
         \/ UNCHANGED <<profile, wanted, late>>
         \/ wanted' = "any"
         \/ /\ wanted' = profile' /\ pc \notin {"lower", "raise"}
            /\ store.phase \in Lowering => wanted' # "powersave"
  PROVE  Outside
BY TypeIs DEF Daemon, Outside, ServiceType

\* What somebody wants is what is in force, or it is ambiguous.
LEMMA WantsIs ==
  ASSUME NEW p \in Profiles, Wants(p)
  PROVE  /\ profile' = p /\ wanted' \in Profiles \cup {"any"}
         /\ \/ wanted' = "any"
            \/ /\ wanted' = profile' /\ pc \notin {"lower", "raise"}
               /\ store.phase \in Lowering => wanted' # "powersave"
BY DEF Wants, Ambiguous

LEMMA LidMovesDoes == ASSUME TypeOK, LidMoves PROVE Outside
<1>1. WorldType /\ LateType /\ budget \in Spent /\ inbox \in Seq(Signals)
  BY TypeIs DEF ServiceType
<1>2. budget' \in Spent /\ inbox' \in Seq(Signals)
  BY <1>1, SpendType, TellType DEF LidMoves, Signals
<1>3. UNCHANGED <<panel, profile, late, cond, login, boot, boost, wanted, lost>> /\ UNCHANGED Daemon
      /\ lid' = ~lid
  BY DEF LidMoves, history
<1>4. WorldType' /\ LateType'
  BY <1>1, <1>3 DEF WorldType, LateType
<1> QED  BY <1>2, <1>3, <1>4, AsideIs

LEMMA ConditionsDo == ASSUME TypeOK, ConditionsChange PROVE Outside
<1>1. WorldType /\ LateType /\ budget \in Spent /\ inbox \in Seq(Signals)
      /\ cond \in [ac : BOOLEAN, setting : Timeouts \cup {0}, mode : {"connected", "sleep"}]
  BY TypeIs DEF ServiceType, WorldType
<1>2. UNCHANGED <<inbox, panel, profile, late, lid, login, boot, boost, wanted, lost>> /\ UNCHANGED Daemon
      /\ budget' \in Spent
  BY <1>1, FaultType DEF ConditionsChange, history
<1>3. cond' \in [ac : BOOLEAN, setting : Timeouts \cup {0}, mode : {"connected", "sleep"}]
  <2>1. CASE cond' = [cond EXCEPT !.ac = ~@]
    BY <1>1, <2>1
  <2>2. ASSUME NEW t \in Timeouts \cup {0}, cond' = [cond EXCEPT !.setting = t]
        PROVE  cond' \in [ac : BOOLEAN, setting : Timeouts \cup {0}, mode : {"connected", "sleep"}]
    BY <1>1, <2>2
  <2>3. ASSUME NEW m \in {"connected", "sleep"}, cond' = [cond EXCEPT !.mode = m]
        PROVE  cond' \in [ac : BOOLEAN, setting : Timeouts \cup {0}, mode : {"connected", "sleep"}]
    BY <1>1, <2>3
  <2> QED  BY <2>1, <2>2, <2>3 DEF ConditionsChange
<1>4. WorldType' /\ LateType'
  BY <1>1, <1>2, <1>3 DEF WorldType, LateType
<1> QED  BY <1>1, <1>2, <1>4, AsideIs

LEMMA ChoicesDo == ASSUME TypeOK, UserPicks \/ GameStarts \/ GameEnds \/ LateLands PROVE Outside
<1>1. WorldType /\ LateType /\ budget \in Spent /\ inbox \in Seq(Signals)
      /\ Managed \subseteq Profiles /\ "performance" \in Profiles
  BY TypeIs DEF ServiceType, Profiles, Managed
<1>2. UNCHANGED <<inbox, panel, lid, cond, login, boot, lost>> /\ UNCHANGED Daemon /\ budget' \in Spent
  BY <1>1, FaultType DEF UserPicks, GameStarts, GameEnds, LateLands, system
<1>3. CASE UserPicks
  <2>1. PICK p \in Profiles : Wants(p)
    BY <1>3, ChoicesAssumption DEF UserPicks
  <2>2. UNCHANGED <<late, boost>>
    BY <1>3 DEF UserPicks
  <2>3. WorldType' /\ LateType'
    BY <1>1, <1>2, <2>1, <2>2, WantsIs DEF WorldType, LateType
  <2> QED  BY <1>1, <1>2, <2>1, <2>3, WantsIs, AsideIs
<1>4. CASE GameStarts
  <2>1. /\ boost' = profile /\ profile' = "performance" /\ late' = late
        /\ wanted' = IF Ambiguous("performance") \/ store.phase \in Lowering THEN "any"
                                                                             ELSE "performance"
    BY <1>4 DEF GameStarts
  <2>2. WorldType' /\ LateType'
    BY <1>1, <1>2, <2>1 DEF WorldType, LateType
  <2> QED  BY <1>1, <1>2, <2>1, <2>2, AsideIs DEF Ambiguous
<1>5. CASE GameEnds
  <2>1. boost \in Profiles /\ boost' = "none" /\ late' = late
    BY <1>1, <1>5 DEF GameEnds, WorldType
  <2>2. CASE Wants(boost)
    <3>1. WorldType' /\ LateType'
      BY <1>1, <1>2, <2>1, <2>2, WantsIs DEF WorldType, LateType
    <3> QED  BY <1>1, <1>2, <2>1, <2>2, <3>1, WantsIs, AsideIs
  <2>3. CASE wanted' = "any" /\ UNCHANGED profile
    <3>1. WorldType' /\ LateType'
      BY <1>1, <1>2, <2>1, <2>3 DEF WorldType, LateType
    <3> QED  BY <1>1, <1>2, <2>3, <3>1, AsideIs
  <2> QED  BY <1>5, <2>2, <2>3 DEF GameEnds
<1>6. CASE LateLands
  <2>1. late \in Profiles /\ profile' = late /\ late' = "none" /\ wanted' = "any" /\ boost' = boost
    BY <1>1, <1>6 DEF LateLands, LateType, system
  <2>2. WorldType' /\ LateType'
    BY <1>1, <1>2, <2>1 DEF WorldType, LateType
  <2> QED  BY <1>1, <1>2, <2>1, <2>2, AsideIs
<1> QED  BY <1>3, <1>4, <1>5, <1>6

LEMMA PanelsDo == ASSUME TypeOK, Fade \/ Relight PROVE Outside
<1>1. WorldType /\ LateType /\ budget \in Spent /\ inbox \in Seq(Signals)
  BY TypeIs DEF ServiceType
<1>2. UNCHANGED <<inbox, profile, late, lid, cond, login, boot, boost, wanted, lost>> /\ UNCHANGED Daemon
      /\ budget' \in Spent /\ panel' \in {"on", "off"}
  BY <1>1, FaultType DEF Fade, Relight, system, history
<1>3. WorldType' /\ LateType'
  BY <1>1, <1>2 DEF WorldType, LateType
<1> QED  BY <1>1, <1>2, <1>3, AsideIs

LEMMA LogindDoes == ASSUME TypeOK, RequestSleep \/ Suspend \/ WakesUp PROVE Outside
<1>1. WorldType /\ LateType /\ budget \in Spent /\ inbox \in Seq(Signals)
  BY TypeIs DEF ServiceType
<1>2. /\ UNCHANGED <<profile, late, lid, cond, boot, boost, wanted, lost>> /\ UNCHANGED Daemon
      /\ login' \in {"awake", "delaying", "asleep"}
  BY DEF RequestSleep, Suspend, WakesUp, Logind, history
<1>3. budget' \in Spent /\ panel' \in {panel, "on"}
  BY <1>1, FaultType DEF RequestSleep, Suspend, WakesUp
<1>4. inbox' \in Seq(Signals)
  BY <1>1, TellType DEF RequestSleep, Suspend, WakesUp, Signals
<1>5. WorldType' /\ LateType'
  BY <1>1, <1>2, <1>3 DEF WorldType, LateType
<1> QED  BY <1>2, <1>3, <1>4, <1>5, AsideIs

LEMMA DeadlineDoes == ASSUME TypeOK, DeadlinePasses PROVE Outside
<1>1. ServiceType /\ WorldType /\ LateType /\ budget \in Spent /\ store \in Files
  BY TypeIs
<1>2. UNCHANGED <<pc, run, d, fd, broken, inbox, panel, profile, late, system, history, budget>>
      /\ store' = [store EXCEPT !.deadline.past = TRUE]
  BY DEF DeadlinePasses
<1>3. ServiceType' /\ WorldType' /\ LateType' /\ budget' \in Spent
      /\ UNCHANGED <<pc, run, broken, boot, profile, wanted, late>> /\ d'.mode = d.mode
  BY <1>1, <1>2 DEF ServiceType, WorldType, LateType, system, history
<1>4. /\ store' \in Files /\ store'.phase = store.phase /\ store'.restore = store.restore
      /\ store'.deadline.minutes = store.deadline.minutes
      /\ store'.deadline.boot = store.deadline.boot /\ store'.deadline.past
  <2>1. store' = [store EXCEPT !.deadline = [store.deadline EXCEPT !.past = TRUE]]
    BY <1>2
  <2>2. PICK e : e = [store.deadline EXCEPT !.past = TRUE]
    OBVIOUS
  <2>3. store.deadline \in Deadlines
    BY <1>1, StoreIs
  <2>4. e \in Deadlines /\ e.minutes = store.deadline.minutes /\ e.boot = store.deadline.boot /\ e.past
    BY <2>2, <2>3 DEF Deadlines
  <2>5. store' = [store EXCEPT !.deadline = e]
    BY <2>1, <2>2
  <2>6. store' \in Files /\ store'.phase = store.phase /\ store'.restore = store.restore /\ store'.deadline = e
    BY <1>1, <2>4, <2>5 DEF Files
  <2> QED  BY <2>4, <2>6
<1> QED  BY <1>3, <1>4 DEF Outside

LEMMA PrepareExpiresDoes == ASSUME TypeOK, PrepareExpires PROVE Outside
<1>1. ServiceType /\ WorldType /\ LateType /\ budget \in Spent /\ store \in Files /\ d \in Lids
  BY TypeIs DEF ServiceType
<1>2. UNCHANGED <<pc, run, fd, store, panel, profile, late, broken, budget, inbox, system, history>>
      /\ d' = [d EXCEPT !.overdue = TRUE]
  BY DEF PrepareExpires, Quiet
<1>3. d' \in Lids /\ d'.mode = d.mode
  BY <1>1, <1>2 DEF Lids
<1>4. ServiceType' /\ WorldType' /\ LateType' /\ UNCHANGED <<boot, wanted>>
  BY <1>1, <1>2, <1>3 DEF ServiceType, WorldType, LateType, system, history
<1> QED  BY <1>1, <1>2, <1>3, <1>4 DEF Outside

LEMMA WorldDoes == ASSUME TypeOK, World \/ Fade \/ PrepareExpires PROVE Outside
BY LidMovesDoes, ConditionsDo, ChoicesDo, PanelsDo, LogindDoes, DeadlineDoes, PrepareExpiresDoes DEF World

LEMMA BootUpDoes ==
  ASSUME TypeOK, BootUp
  PROVE  /\ pc = "off" /\ pc' = "down" /\ UNCHANGED <<run, d, store, profile, broken>> /\ boot' = boot + 1
         /\ ServiceType' /\ WorldType' /\ LateType' /\ budget' \in Spent /\ wanted' \in {wanted, "any"}
<1>1. ServiceType /\ WorldType /\ LateType /\ budget \in Spent
  BY TypeIs
<1>2. boot' \in 1..MaxBoots
  BY <1>1, BootIs DEF BootUp, WorldType
<1>3. WorldType'
  BY <1>1, <1>2 DEF BootUp, WorldType
<1> QED  BY <1>1, <1>3 DEF BootUp, ServiceType, LateType, Steps

-----------------------------------------------------------------------------
(* First invariant: what the file can say, and where *)

\* A record of something lowered names a profile to put back; only a file in use has a
\* deadline, and that of this boot or an earlier one.
Recorded == /\ store.phase \in Lowering => store.restore \in Managed \ {"powersave"}
            /\ store.phase \notin Phases => store.deadline.minutes = 0
            /\ store.deadline.boot \leq boot

\* The handlers that command a profile, or are about to power off, have the file for it.
Underway == /\ pc \in {"lower", "lowered"} => store.phase = "pending"
            /\ pc \in {"raise", "raised"} => store.phase = "restore-pending"
            /\ pc = "final" => store.phase \in Phases

FileInv == TypeOK /\ Recorded /\ Underway

\* The four ways in which handlers write a whole file or none keep it in order.
LEMMA FileStays ==
  ASSUME TypeOK, Recorded, boot' = boot,
         \/ store' = store \/ store' = Cleared \/ store' = Missing
         \/ store.phase \in Phases /\ store' = Armed
  PROVE  store' \in Files /\ Recorded'
<1>1. store \in Files /\ WorldType /\ boot \in Nat /\ 0 \leq boot
  BY TypeIs DEF WorldType
<1>2. CASE store' = store
  BY <1>1, <1>2 DEF Recorded
<1>3. CASE store' = Cleared
  BY <1>1, <1>3, ClearedIs DEF Recorded
<1>4. CASE store' = Missing
  <2>1. store' \in Files /\ store'.phase = "none" /\ store'.deadline.minutes = 0 /\ store'.deadline.boot = 0
    BY <1>4, MissingIs
  <2> QED  BY <1>1, <2>1 DEF Recorded, Lowering
<1>5. CASE store.phase \in Phases /\ store' = Armed
  BY <1>1, <1>5, ArmedIs DEF Recorded
<1> QED  BY <1>2, <1>3, <1>4, <1>5

\* A new phase does, if it says that something was lowered only where the old one did.
LEMMA PhaseMoves ==
  ASSUME TypeOK, Recorded, boot' = boot, store' \in Files, store'.restore = store.restore,
         store'.deadline = store.deadline,
         store'.phase \in Lowering => store.phase \in Lowering,
         store'.phase \in Phases \/ store'.phase = store.phase
  PROVE  Recorded'
BY DEF Recorded

LEMMA GoesType == ASSUME TypeOK, NEW s \in Steps, Goes(s)
                  PROVE  pc' \in Steps /\ run' \in Locals /\ d' \in Lids /\ broken' \in BOOLEAN
BY TypeIs DEF Goes, ServiceType

LEMMA EndsType == ASSUME TypeOK, Ends \/ Against \/ Stops
                  PROVE  pc' = "idle" /\ pc' \in Steps /\ run' \in Locals /\ d' \in Lids /\ broken' \in BOOLEAN
BY TypeIs DEF Ends, Against, Stops, ServiceType, Locals, Steps

\* A handler step that leaves most of the world alone.
LEMMA RestType ==
  ASSUME TypeOK, Rest, Panels, pc' \in Steps, run' \in Locals, d' \in Lids, broken' \in BOOLEAN,
         store' \in Files
  PROVE  TypeOK'
<1>1. ServiceType /\ WorldType /\ LateType
  BY TypeIs
<1>2. UNCHANGED <<fd, inbox, profile, late, lid, cond, login, boot, boost, wanted, lost>>
  BY DEF Rest, Quiet, system, history
<1>3. ServiceType' /\ WorldType' /\ LateType'
  BY <1>1, <1>2 DEF ServiceType, WorldType, LateType, Panels
<1>4. budget' \in Spent
  BY DEF Panels
<1> QED  BY <1>3, <1>4 DEF TypeOK, ServiceType, WorldType, LateType, Steps, Lids, Spent, Signals

LEMMA RestBoot == Rest => UNCHANGED <<boot, cond, lid, profile, late, wanted, lost>>
BY DEF Rest, Quiet, system, history

\* On to a step that needs nothing of the file, or out.
LEMMA Leaves ==
  ASSUME FileInv, Rest, Panels, store' \in Files, Recorded',
         \/ Ends \/ Against \/ Stops
         \/ \E s \in Steps \ {"lower", "lowered", "raise", "raised", "final"} : Goes(s)
  PROVE  FileInv'
<1>1. /\ pc' \in Steps \ {"lower", "lowered", "raise", "raised", "final"} /\ run' \in Locals
      /\ d' \in Lids /\ broken' \in BOOLEAN
  <2>1. CASE Ends \/ Against \/ Stops
    BY <2>1, EndsType DEF FileInv
  <2>2. ASSUME NEW s \in Steps \ {"lower", "lowered", "raise", "raised", "final"}, Goes(s)
        PROVE  /\ pc' \in Steps \ {"lower", "lowered", "raise", "raised", "final"} /\ run' \in Locals
               /\ d' \in Lids /\ broken' \in BOOLEAN
    BY <2>2, GoesType DEF FileInv, Goes
  <2> QED  BY <2>1, <2>2
<1>2. TypeOK'
  BY <1>1, RestType DEF FileInv
<1> QED  BY <1>1, <1>2 DEF FileInv, Underway

\* One step per part of the handlers.
LEMMA LooksFile ==
  ASSUME FileInv, Decide \/ Keep \/ Blank \/ Wake \/ Recheck
  PROVE  FileInv'
<1>1. TypeOK /\ Recorded
  BY DEF FileInv
<1>2. /\ Rest /\ store' = store /\ Panels
      /\ pc' \in Steps \ {"lower", "lowered", "raise", "raised", "final"} /\ run' \in Locals /\ d' \in Lids
      /\ broken' \in BOOLEAN
  <2>1. CASE Decide
    BY <1>1, <2>1, DecideDoes, TypeIs DEF ServiceType, Steps
  <2>2. CASE Keep
    BY <1>1, <2>2, KeepDoes, GoesType DEF Goes, Steps
  <2>3. CASE Blank
    BY <1>1, <2>3, BlankDoes, GoesType, EndsType DEF Goes, Steps
  <2>4. CASE Wake
    BY <1>1, <2>4, WakeDoes, GoesType, EndsType DEF Goes, Steps
  <2>5. CASE Recheck
    BY <1>1, <2>5, RecheckDoes, GoesType, EndsType, TypeIs DEF Goes, Steps, ServiceType
  <2> QED  BY <2>1, <2>2, <2>3, <2>4, <2>5
<1>3. store' \in Files /\ Recorded'
  BY <1>1, <1>2, RestBoot, FileStays
<1>4. TypeOK'
  BY <1>1, <1>2, <1>3, RestType
<1> QED  BY <1>2, <1>3, <1>4 DEF FileInv, Underway

LEMMA ClaimFile == ASSUME FileInv, Claim PROVE FileInv'
<1>1. TypeOK /\ Recorded /\ Rest /\ Panels /\ boot' = boot
  BY ClaimDoes, RestBoot DEF FileInv
<1>2. Goes("blank") \/ Stops
  BY ClaimDoes DEF FileInv
<1>3. store' \in Files /\ Recorded'
  <2>1. CASE store' = store
    BY <1>1, <2>1, FileStays
  <2>2. CASE /\ store' \in Files /\ store'.restore = profile /\ store'.deadline = NoDeadline
             /\ store'.phase \in {"unmanaged", "baseline", "pending"}
             /\ store'.phase = "pending" => profile \in Managed \ {"powersave"}
    <3>1. store'.deadline.minutes = 0 /\ store'.deadline.boot = 0
      BY <2>2, MissingIs
    <3>2. boot \in Nat /\ 0 \leq boot
      BY <1>1, TypeIs DEF WorldType
    <3> QED  BY <1>1, <2>2, <3>1, <3>2 DEF Recorded, Lowering
  <2> QED  BY <2>1, <2>2, ClaimDoes DEF FileInv, Stops
<1> QED  BY <1>1, <1>2, <1>3, Leaves DEF Steps

LEMMA OwnFile == ASSUME FileInv, Own PROVE FileInv'
<1>1. TypeOK /\ Recorded /\ Rest /\ Panels /\ boot' = boot /\ store \in Files
  BY OwnDoes, RestBoot, TypeIs DEF FileInv
<1>2. CASE Goes("lower") /\ store' = store /\ store.phase = "pending"
  <2>1. store' \in Files /\ Recorded'
    BY <1>1, <1>2, FileStays
  <2>2. TypeOK'
    BY <1>1, <1>2, <2>1, GoesType, RestType DEF Steps
  <2>3. pc' = "lower"
    BY <1>2 DEF Goes
  <2> QED  BY <1>2, <2>1, <2>2, <2>3 DEF FileInv, Underway
<1>3. CASE Stops
  <2>1. store' \in Files /\ Recorded'
    BY <1>1, <1>3, FileStays DEF Stops
  <2> QED  BY <1>1, <1>3, <2>1, Leaves
<1>4. CASE /\ Goes("sync") /\ store' \in Files /\ store'.restore = store.restore
           /\ store'.deadline = store.deadline
           /\ store'.phase \in Lowering => store.phase \in Lowering
           /\ store.phase \in Lowering /\ store'.phase \notin Lowering =>
                store'.phase \in Phases /\ profile # "powersave"
           /\ store.phase \notin Lowering => store'.phase = store.phase
  <2>1. store'.phase \in Phases \/ store'.phase = store.phase
    BY <1>4 DEF Phases
  <2>2. Recorded'
    BY <1>1, <1>4, <2>1, PhaseMoves
  <2> QED  BY <1>1, <1>4, <2>2, Leaves DEF Steps
<1> QED  BY <1>2, <1>3, <1>4, OwnDoes DEF FileInv

\* A profile command, of lower or raise.
LEMMA CommandFile ==
  ASSUME FileInv, Lower \/ Raise
  PROVE  FileInv'
<1>1. /\ TypeOK /\ Recorded /\ ServiceType /\ WorldType /\ LateType /\ store \in Files
      /\ "powersave" \in Managed /\ Managed \subseteq Profiles /\ boot \in Nat
  BY TypeIs DEF FileInv, Managed, Profiles, WorldType
<1>2. PICK p \in Managed, next \in {"lowered", "raised"} :
        /\ SetProfile(p, next) /\ UNCHANGED <<fd, store, panel>> /\ Quiet
        /\ next = "lowered" => store.phase = "pending"
        /\ next = "raised" => store.phase = "restore-pending"
  <2>1. CASE Lower
    BY <1>1, <2>1 DEF Lower, At, FileInv, Underway
  <2>2. CASE Raise
    <3>1. store.phase = "restore-pending" /\ store.restore \in Managed
      BY <2>2 DEF Raise, At, FileInv, Underway, Recorded, Lowering
    <3> QED  BY <2>2, <3>1 DEF Raise
  <2> QED  BY <2>1, <2>2
<1>3. UNCHANGED <<inbox, lid, cond, login, boot, boost, wanted, lost, fd, store, panel>>
  BY <1>2 DEF Quiet, system, history
<1>4. next \in Steps
  BY DEF Steps
<1>5. budget' \in Spent /\ (Goes(next) \/ Ends) /\ profile' \in {profile, p} /\ late' \in {late, p}
  BY <1>1, <1>2, <1>4, SetProfileDoes
<1>6. pc' \in {"idle", next} /\ pc' \in Steps /\ run' \in Locals /\ d' \in Lids /\ broken' \in BOOLEAN
  BY <1>1, <1>4, <1>5, GoesType, EndsType DEF Goes, Ends
<1>7. ServiceType' /\ WorldType' /\ LateType'
  BY <1>1, <1>3, <1>5, <1>6 DEF ServiceType, WorldType, LateType
<1>8. TypeOK'
  BY <1>1, <1>3, <1>5, <1>7 DEF TypeOK, ServiceType, WorldType, LateType, Steps, Lids, Spent, Signals
<1>9. Recorded'
  BY <1>1, <1>3, FileStays
<1>10. Underway'
  BY <1>2, <1>3, <1>6 DEF Underway
<1> QED  BY <1>8, <1>9, <1>10 DEF FileInv

LEMMA LoweredFile == ASSUME FileInv, Lowered PROVE FileInv'
<1>1. TypeOK /\ Recorded /\ Rest /\ Panels /\ boot' = boot /\ store.phase = "pending"
  BY LoweredDoes, RestBoot DEF FileInv, Underway
<1>2. CASE (Ends \/ Stops) /\ store' = store
  BY <1>1, <1>2, FileStays, Leaves
<1>3. CASE /\ Goes("sync") /\ store' \in Files /\ store'.restore = store.restore
           /\ store'.deadline = store.deadline /\ store'.phase = "owned"
  BY <1>1, <1>3, PhaseMoves, Leaves DEF Steps, Lowering, Phases
<1> QED  BY <1>2, <1>3, LoweredDoes DEF FileInv, Stops

LEMMA DropFile == ASSUME FileInv, Drop PROVE FileInv'
<1>1. TypeOK /\ Recorded /\ Rest /\ Panels /\ boot' = boot
  BY DropDoes, RestBoot DEF FileInv
<1>2. (Stops \/ Goes("dim")) /\ store' \in {store, Cleared}
  BY DropDoes DEF FileInv, Stops
<1> QED  BY <1>1, <1>2, FileStays, Leaves DEF Steps

LEMMA SyncFile == ASSUME FileInv, Sync PROVE FileInv'
<1>1. TypeOK /\ Recorded /\ Rest /\ Panels /\ boot' = boot
  BY SyncDoes, RestBoot DEF FileInv
<1>2. CASE (Ends \/ Against \/ Stops) /\ store' \in {store, Cleared}
  BY <1>1, <1>2, FileStays, Leaves
<1>3. CASE Usable /\ store' = Armed /\ broken' = FALSE /\ pc' = "idle" /\ run' = NoRun /\ d' \in Lids
  <2>1. store' \in Files /\ Recorded'
    BY <1>1, <1>3, FileStays, UsableIs
  <2>2. TypeOK'
    BY <1>1, <1>3, <2>1, RestType, FreshIs DEF Steps
  <2> QED  BY <1>3, <2>1, <2>2 DEF FileInv, Underway
<1>4. CASE Usable /\ store' = store /\ Goes("final")
  <2>1. store' \in Files /\ Recorded'
    BY <1>1, <1>4, FileStays
  <2>2. TypeOK'
    BY <1>1, <1>4, <2>1, GoesType, RestType DEF Steps
  <2>3. pc' = "final" /\ store'.phase \in Phases
    BY <1>4, UsableIs DEF Goes
  <2> QED  BY <2>1, <2>2, <2>3 DEF FileInv, Underway
<1> QED  BY <1>2, <1>3, <1>4, SyncDoes DEF FileInv, Stops

LEMMA FinalFile == ASSUME FileInv, Final PROVE FileInv'
<1>1. TypeOK /\ Recorded /\ Rest /\ Panels /\ boot' = boot /\ store.phase \in Phases
  BY FinalDoes, RestBoot DEF FileInv, Underway
<1>2. (Ends \/ Against \/ Stops \/ Goes("poweroff")) /\ store' \in {store, Cleared, Armed}
  BY FinalDoes DEF FileInv, Stops
<1> QED  BY <1>1, <1>2, FileStays, Leaves DEF Steps

LEMMA ClearFile == ASSUME FileInv, Clear PROVE FileInv'
<1>1. TypeOK /\ Recorded /\ Rest /\ Panels /\ boot' = boot
  BY ClearDoes, RestBoot DEF FileInv
<1>2. (Stops \/ Goes("wake") \/ Goes("restore")) /\ store' \in {store, Cleared}
  BY ClearDoes DEF FileInv, Stops
<1> QED  BY <1>1, <1>2, FileStays, Leaves DEF Steps

LEMMA RestoreFile == ASSUME FileInv, Restore PROVE FileInv'
<1>1. TypeOK /\ Recorded /\ Rest /\ Panels /\ boot' = boot
  BY RestoreDoes, RestBoot DEF FileInv
<1>2. CASE (Ends \/ Stops) /\ store' \in {store, Missing}
  BY <1>1, <1>2, FileStays, Leaves
<1>3. CASE /\ Due /\ Goes("raise") /\ store' \in Files /\ store'.restore = store.restore
           /\ store'.deadline = store.deadline /\ store'.phase = "restore-pending"
  <2>1. store'.phase \in Phases /\ store.phase \in Lowering
    BY <1>3 DEF Due, Phases, Lowering
  <2>2. Recorded'
    BY <1>1, <1>3, <2>1, PhaseMoves
  <2>3. TypeOK' /\ pc' = "raise"
    BY <1>1, <1>3, GoesType, RestType DEF Steps, Goes
  <2> QED  BY <1>3, <2>2, <2>3 DEF FileInv, Underway
<1> QED  BY <1>2, <1>3, RestoreDoes DEF FileInv, Stops

LEMMA RaisedFile == ASSUME FileInv, Raised PROVE FileInv'
<1>1. TypeOK /\ Recorded /\ Rest /\ Panels /\ boot' = boot
  BY RaisedDoes, RestBoot DEF FileInv
<1>2. (Ends \/ Stops) /\ store' \in {store, Missing}
  BY RaisedDoes DEF FileInv, Stops
<1> QED  BY <1>1, <1>2, FileStays, Leaves

LEMMA LoopsFile == ASSUME FileInv, Loops PROVE FileInv'
<1>1. ServiceType /\ WorldType /\ LateType /\ store \in Files
  BY TypeIs DEF FileInv
<1>2. UNCHANGED <<store, profile, late, broken, lid, cond, login, boot, boost, wanted, lost>>
  BY DEF Loops, system, history
<1>3. ServiceType' /\ WorldType' /\ LateType' /\ budget' \in Spent
  BY <1>1, <1>2 DEF ServiceType, WorldType, LateType, Loops, Panels, Steps
<1>4. TypeOK'
  BY <1>1, <1>2, <1>3 DEF TypeOK, ServiceType, WorldType, LateType, Steps, Lids, Spent, Signals
<1> QED  BY <1>2, <1>4 DEF FileInv, Recorded, Underway, Loops

LEMMA DiesFile == ASSUME FileInv, Dies PROVE FileInv'
<1>1. ServiceType /\ WorldType /\ LateType /\ store \in Files
  BY TypeIs DEF FileInv
<1>2. UNCHANGED <<store, panel, profile, broken, lid, cond, login, boot, boost, wanted>>
  BY DEF Dies, system
<1>3. late' \in Managed \cup {"none"}
  BY <1>1 DEF Dies, LateType, FileInv, Underway, Recorded, Lowering, Managed
<1>4. ServiceType' /\ WorldType' /\ LateType' /\ budget' \in Spent
  BY <1>1, <1>2, <1>3 DEF ServiceType, WorldType, LateType, Dies, Steps
<1>5. TypeOK'
  BY <1>1, <1>2, <1>4 DEF TypeOK, ServiceType, WorldType, LateType, Steps, Lids, Spent, Signals
<1> QED  BY <1>2, <1>5 DEF FileInv, Recorded, Underway, Dies

LEMMA OutsideFile == ASSUME FileInv, Outside PROVE FileInv'
<1>1. TypeOK'
  BY DEF Outside, TypeOK, ServiceType, WorldType, LateType, Steps, Lids, Spent, Signals
<1>2. /\ pc' = pc /\ boot' = boot /\ store'.phase = store.phase /\ store'.restore = store.restore
      /\ store'.deadline.minutes = store.deadline.minutes /\ store'.deadline.boot = store.deadline.boot
  BY DEF Outside
<1> QED  BY <1>1, <1>2 DEF FileInv, Recorded, Underway

LEMMA BootUpFile == ASSUME FileInv, BootUp PROVE FileInv'
<1>1. /\ store \in Files /\ boot \in Nat /\ store' = store /\ boot' = boot + 1 /\ pc' = "down"
      /\ ServiceType' /\ WorldType' /\ LateType' /\ budget' \in Spent
  BY TypeIs, BootUpDoes DEF FileInv, WorldType
<1>2. TypeOK'
  BY <1>1 DEF TypeOK, ServiceType, WorldType, LateType, Steps, Lids, Spent, Signals
<1>3. store.deadline.boot \in Nat
  BY <1>1, StoreIs DEF Deadlines
<1> QED  BY <1>1, <1>2, <1>3 DEF FileInv, Recorded, Underway

LEMMA PowerOffFile == ASSUME FileInv, PowerOff PROVE FileInv'
<1>1. TypeOK /\ Recorded
  BY DEF FileInv
<1>2. CASE Dies
  BY <1>2, DiesFile
<1>3. CASE Rest /\ store' = store /\ Panels /\ Ends
  BY <1>1, <1>3, RestBoot, FileStays, Leaves
<1> QED  BY <1>1, <1>2, <1>3, PowerOffDoes

\* Every step is one of the handlers' or of a kind seen above.
LEMMA Kinds ==
  ASSUME TypeOK, Next
  PROVE  Handler \/ Loops \/ Dies \/ Outside \/ BootUp
BY TickDoes, ReceiveDoes, DebouncedDoes, PollDoes, StartDoes, CrashDoes, PowerCutDoes, WorldDoes
   DEF Next

LEMMA HandlerFile == ASSUME FileInv, Handler PROVE FileInv'
<1>1. TypeOK
  BY DEF FileInv
<1> QED  BY <1>1, LooksFile, ClaimFile, OwnFile, CommandFile, LoweredFile, DropFile, SyncFile,
            FinalFile, ClearFile, RestoreFile, RaisedFile, PowerOffFile, PrepareDoes, JudgeDoes,
            LoopsFile DEF Handler

LEMMA LongestIs == Longest \in Timeouts \cup {0}
BY LongestAssumption DEF Longest

LEMMA InitFile == Init => FileInv
<1> SUFFICES ASSUME Init PROVE FileInv
  OBVIOUS
<1>1. /\ store \in Files /\ store.phase \in {"none", "bad"} /\ store.deadline.minutes = 0
      /\ store.deadline.boot = 0
  BY MissingIs DEF Init
<1>2. inbox \in Seq(Signals)
  <2>1. <<>> \in Seq(Signals)
    OBVIOUS
  <2> QED  BY <2>1 DEF Init
<1>3. ServiceType
  BY <1>2, FreshIs DEF Init, ServiceType, Steps
<1>4. cond \in [ac : BOOLEAN, setting : Timeouts \cup {0}, mode : {"connected", "sleep"}]
  <2>1. cond \in [ac : {FALSE}, setting : {Longest}, mode : {"connected", "sleep"}]
    BY DEF Init
  <2> QED  BY <2>1, LongestIs
<1>5. WorldType /\ LateType
  BY <1>4, BootIs, ChoicesAssumption DEF Init, WorldType, LateType
<1>6. budget \in Spent
  BY DEF Init, Spent
<1>7. TypeOK
  BY <1>1, <1>3, <1>5, <1>6, TypeIs
<1>8. boot = 1 /\ pc = "down"
  BY DEF Init
<1> QED  BY <1>1, <1>7, <1>8 DEF FileInv, Recorded, Underway, Lowering, Phases

LEMMA FileStep == FileInv /\ [Next]_vars => FileInv'
<1> SUFFICES ASSUME FileInv, [Next]_vars PROVE FileInv'
  OBVIOUS
<1>1. CASE Next
  <2>1. TypeOK
    BY DEF FileInv
  <2> QED  BY <1>1, <2>1, Kinds, HandlerFile, LoopsFile, DiesFile, OutsideFile, BootUpFile
<1>2. CASE UNCHANGED vars
  BY <1>2 DEF vars, system, history, FileInv, TypeOK, Recorded, Underway
<1> QED  BY <1>1, <1>2

LEMMA FileAlways == Spec => []FileInv
BY InitFile, FileStep, PTL DEF Spec

\* All state stays in its type, also the profile that a killed command leaves to come: it
\* is one that the service may set (TypeOK).
THEOREM TypeCorrect == Spec => []TypeOK
<1>1. FileInv => TypeOK
  BY DEF FileInv
<1> QED  BY <1>1, FileAlways, PTL

-----------------------------------------------------------------------------
(* Second invariant: whose profile it is *)

\* While something lowered is on record nobody is known to want powersave, and what the
\* service is about to command goes with the one profile that may be wanted.
Chosen == /\ store.phase \in Lowering => wanted # "powersave"
          /\ pc \in {"lower", "raise"} => wanted \in {"any", store.restore}

ProfileInv == FileInv /\ Chosen /\ WantedProfileIsKept

\* A step that touches neither profile nor record.
LEMMA ProfileStays ==
  ASSUME Chosen, WantedProfileIsKept, profile' = profile, wanted' = wanted,
         store'.phase = store.phase, store'.restore = store.restore,
         pc' \notin {"lower", "raise"} \/ pc' = pc
  PROVE  Chosen' /\ WantedProfileIsKept'
BY DEF Chosen, WantedProfileIsKept

\* The record may go, or be made, where the profile in force is the wanted one.
LEMMA RecordMoves ==
  ASSUME profile' = profile, wanted' = wanted, wanted \in {"any", profile},
         store'.phase \in Lowering => wanted # "powersave",
         pc' \notin {"lower", "raise"}
  PROVE  Chosen' /\ WantedProfileIsKept'
BY DEF Chosen, WantedProfileIsKept

\* A file without its deadline, or with a new one, is the same record.
LEMMA RecordStays ==
  ASSUME TypeOK, store' = store \/ store' = Cleared \/ store' = Armed
  PROVE  store'.phase = store.phase /\ store'.restore = store.restore
BY TypeIs, ClearedIs, ArmedIs

LEMMA LooksProfile ==
  ASSUME ProfileInv, Decide \/ Keep \/ Blank \/ Wake \/ Recheck \/ Drop \/ Sync \/ Final \/ Clear
  PROVE  Chosen' /\ WantedProfileIsKept'
<1>1. TypeOK /\ Chosen /\ WantedProfileIsKept
  BY DEF ProfileInv, FileInv
<1>2. Rest /\ pc' \notin {"lower", "raise"} /\ (store' = store \/ store' = Cleared \/ store' = Armed)
  <2>1. CASE Decide
    BY <1>1, <2>1, DecideDoes
  <2>2. CASE Keep \/ Blank \/ Wake
    BY <1>1, <2>2, KeepDoes, BlankDoes, WakeDoes DEF Goes, Ends
  <2>3. CASE Recheck
    BY <1>1, <2>3, RecheckDoes DEF Goes, Ends
  <2>4. CASE Drop \/ Clear
    BY <1>1, <2>4, DropDoes, ClearDoes DEF Goes, Stops
  <2>5. CASE Sync
    BY <1>1, <2>5, SyncDoes DEF Goes, Ends, Against, Stops
  <2>6. CASE Final
    BY <1>1, <2>6, FinalDoes DEF Goes, Ends, Against, Stops
  <2> QED  BY <2>1, <2>2, <2>3, <2>4, <2>5, <2>6
<1> QED  BY <1>1, <1>2, RecordStays, RestBoot, ProfileStays

LEMMA ClaimProfile == ASSUME ProfileInv, Claim PROVE Chosen' /\ WantedProfileIsKept'
<1>1. TypeOK /\ Chosen /\ WantedProfileIsKept /\ Claim
  BY DEF ProfileInv, FileInv
<1>2. profile' = profile /\ wanted' = wanted /\ pc' \notin {"lower", "raise"}
  BY <1>1, ClaimDoes, RestBoot DEF Goes, Stops
<1>3. CASE store' = store
  BY <1>1, <1>2, <1>3, ProfileStays
<1>4. CASE /\ store.phase = "none" /\ store'.phase \in {"unmanaged", "baseline", "pending"}
           /\ store'.phase = "pending" => profile \in Managed \ {"powersave"}
  <2>1. wanted \in {"any", profile}
    BY <1>1, <1>4 DEF WantedProfileIsKept, Lowering
  <2>2. store'.phase \in Lowering => wanted # "powersave"
    BY <1>4, <2>1 DEF Lowering
  <2> QED  BY <1>2, <2>1, <2>2, RecordMoves
<1> QED  BY <1>1, <1>3, <1>4, ClaimDoes DEF Stops

LEMMA OwnProfile == ASSUME ProfileInv, Own PROVE Chosen' /\ WantedProfileIsKept'
<1>1. TypeOK /\ Recorded /\ Chosen /\ WantedProfileIsKept /\ Own
  BY DEF ProfileInv, FileInv
<1>2. profile' = profile /\ wanted' = wanted
  BY <1>1, OwnDoes, RestBoot
<1>3. CASE Goes("lower") /\ store' = store /\ store.phase = "pending" /\ profile = store.restore
  <2>1. profile # "powersave"
    BY <1>1, <1>3 DEF Recorded, Lowering
  <2>2. wanted \in {"any", store.restore}
    BY <1>1, <1>3, <2>1 DEF WantedProfileIsKept
  <2> QED  BY <1>1, <1>2, <1>3, <2>2 DEF Chosen, WantedProfileIsKept
<1>4. CASE Stops
  BY <1>1, <1>2, <1>4, ProfileStays DEF Stops
<1>5. CASE /\ Goes("sync") /\ store'.restore = store.restore
           /\ store'.phase \in Lowering => store.phase \in Lowering
           /\ store.phase \in Lowering /\ store'.phase \notin Lowering => profile # "powersave"
           /\ store.phase \notin Lowering => store'.phase = store.phase
  <2>1. pc' = "sync"
    BY <1>5 DEF Goes
  <2> QED  BY <1>1, <1>2, <1>5, <2>1 DEF Chosen, WantedProfileIsKept
<1> QED  BY <1>1, <1>3, <1>4, <1>5, OwnDoes

LEMMA CommandProfile == ASSUME ProfileInv, Lower \/ Raise PROVE Chosen' /\ WantedProfileIsKept'
<1>1. /\ TypeOK /\ Recorded /\ Underway /\ Chosen /\ WantedProfileIsKept
      /\ pc \in {"lower", "raise"} /\ store' = store /\ wanted' = wanted
  BY DEF ProfileInv, FileInv, Lower, Raise, At, Quiet, history
<1>2. store.phase \in Lowering /\ wanted \in {"any", store.restore}
  BY <1>1 DEF Underway, Chosen, Lowering
<1>3. pc' \in {"idle", "lowered", "raised"} /\ profile' \in {profile, "powersave", store.restore}
  <2>1. CASE Lower
    <3>1. SetProfile("powersave", "lowered") /\ "lowered" \in Steps
      BY <2>1 DEF Lower, Steps
    <3> QED  BY <1>1, <3>1, SetProfileDoes DEF Goes, Ends
  <2>2. CASE Raise
    <3>1. SetProfile(store.restore, "raised") /\ "raised" \in Steps
      BY <2>2 DEF Raise, Steps
    <3> QED  BY <1>1, <3>1, SetProfileDoes DEF Goes, Ends
  <2> QED  BY <2>1, <2>2
<1> QED  BY <1>1, <1>2, <1>3 DEF Chosen, WantedProfileIsKept

LEMMA LoweredProfile == ASSUME ProfileInv, Lowered PROVE Chosen' /\ WantedProfileIsKept'
<1>1. TypeOK /\ Underway /\ Chosen /\ WantedProfileIsKept /\ Lowered
  BY DEF ProfileInv, FileInv
<1>2. /\ profile' = profile /\ wanted' = wanted /\ store.phase \in Lowering /\ pc' \notin {"lower", "raise"}
  BY <1>1, LoweredDoes, RestBoot DEF Goes, Stops, Ends, Underway, Lowering
<1>3. store'.restore = store.restore /\ store'.phase \in Lowering
  BY <1>1, <1>2, LoweredDoes DEF Stops, Lowering
<1> QED  BY <1>1, <1>2, <1>3 DEF Chosen, WantedProfileIsKept

LEMMA RestoreProfile == ASSUME ProfileInv, Restore PROVE Chosen' /\ WantedProfileIsKept'
<1>1. TypeOK /\ Recorded /\ Chosen /\ WantedProfileIsKept /\ Restore
  BY DEF ProfileInv, FileInv
<1>2. profile' = profile /\ wanted' = wanted
  BY <1>1, RestoreDoes, RestBoot
<1>3. CASE (Ends \/ Stops) /\ store' = store
  BY <1>1, <1>2, <1>3, ProfileStays DEF Ends, Stops
<1>4. CASE ~Due /\ Ends /\ store' = Missing
  <2>1. wanted \in {"any", profile}
    BY <1>1, <1>4 DEF Recorded, Due, WantedProfileIsKept
  <2>2. store'.phase \notin Lowering /\ pc' = "idle"
    BY <1>4, MissingIs DEF Lowering, Ends
  <2> QED  BY <1>2, <2>1, <2>2, RecordMoves
<1>5. CASE Due /\ Goes("raise") /\ store'.restore = store.restore /\ store'.phase = "restore-pending"
  <2>1. store.phase \in Lowering /\ profile = "powersave" /\ wanted \in {"any", store.restore}
    BY <1>1, <1>5 DEF Due, Chosen, WantedProfileIsKept
  <2>2. store'.phase \in Lowering
    BY <1>5 DEF Lowering
  <2> QED  BY <1>1, <1>2, <1>5, <2>1, <2>2 DEF Chosen, WantedProfileIsKept
<1> QED  BY <1>1, <1>3, <1>4, <1>5, RestoreDoes DEF Stops

LEMMA RaisedProfile == ASSUME ProfileInv, Raised PROVE Chosen' /\ WantedProfileIsKept'
<1>1. TypeOK /\ Recorded /\ Underway /\ Chosen /\ WantedProfileIsKept /\ Raised
  BY DEF ProfileInv, FileInv
<1>2. profile' = profile /\ wanted' = wanted /\ pc = "raised" /\ pc' = "idle"
  BY <1>1, RaisedDoes, RestBoot DEF Ends, Stops
<1>3. CASE store' = store
  BY <1>1, <1>2, <1>3, ProfileStays
<1>4. CASE profile = store.restore /\ store' = Missing
  <2>1. profile # "powersave"
    BY <1>1, <1>2, <1>4 DEF Underway, Recorded, Lowering
  <2>2. wanted \in {"any", profile} /\ store'.phase \notin Lowering
    BY <1>1, <1>4, <2>1, MissingIs DEF WantedProfileIsKept, Lowering
  <2> QED  BY <1>2, <2>2, RecordMoves
<1> QED  BY <1>1, <1>3, <1>4, RaisedDoes DEF Stops

\* Kills, boots and the main loop leave it; what somebody brings about is what is wanted.
LEMMA OthersProfile ==
  ASSUME ProfileInv, Loops \/ Dies \/ Outside \/ BootUp \/ PowerOff
  PROVE  Chosen' /\ WantedProfileIsKept'
<1>1. TypeOK /\ Chosen /\ WantedProfileIsKept
  BY DEF ProfileInv, FileInv
<1>2. CASE Loops
  BY <1>1, <1>2, ProfileStays DEF Loops, history
<1>3. CASE Dies
  BY <1>1, <1>3, ProfileStays DEF Dies
<1>4. CASE PowerOff
  BY <1>1, <1>3, <1>4, PowerOffDoes, RestBoot, ProfileStays DEF Ends
<1>5. CASE BootUp
  BY <1>1, <1>5, BootUpDoes DEF Chosen, WantedProfileIsKept
<1>6. CASE Outside
  <2>1. pc' = pc /\ store'.phase = store.phase /\ store'.restore = store.restore
    BY <1>6 DEF Outside
  <2>2. CASE UNCHANGED <<profile, wanted, late>>
    BY <1>1, <2>1, <2>2, ProfileStays
  <2>3. CASE wanted' = "any"
    BY <2>3 DEF Chosen, WantedProfileIsKept
  <2>4. CASE /\ wanted' = profile' /\ pc \notin {"lower", "raise"}
             /\ store.phase \in Lowering => wanted' # "powersave"
    BY <2>1, <2>4 DEF Chosen, WantedProfileIsKept
  <2> QED  BY <1>6, <2>2, <2>3, <2>4 DEF Outside
<1> QED  BY <1>2, <1>3, <1>4, <1>5, <1>6

LEMMA InitProfile == Init => ProfileInv
<1> SUFFICES ASSUME Init PROVE Chosen /\ WantedProfileIsKept
  BY InitFile DEF ProfileInv
<1>1. store.phase \notin Lowering /\ pc = "down" /\ profile = wanted
  BY MissingIs DEF Init, Lowering
<1> QED  BY <1>1 DEF Chosen, WantedProfileIsKept

LEMMA ProfileStep == ProfileInv /\ [Next]_vars => ProfileInv'
<1> SUFFICES ASSUME ProfileInv, [Next]_vars PROVE Chosen' /\ WantedProfileIsKept'
  BY FileStep DEF ProfileInv
<1>1. TypeOK
  BY DEF ProfileInv, FileInv
<1>2. CASE Handler
  BY <1>1, <1>2, LooksProfile, ClaimProfile, OwnProfile, CommandProfile, LoweredProfile, RestoreProfile,
     RaisedProfile, OthersProfile, PrepareDoes, JudgeDoes DEF Handler
<1>3. CASE Next
  BY <1>1, <1>2, <1>3, Kinds, OthersProfile
<1>4. CASE UNCHANGED vars
  BY <1>4 DEF vars, system, history, ProfileInv, Chosen, WantedProfileIsKept
<1> QED  BY <1>3, <1>4

LEMMA ProfileAlways == Spec => []ProfileInv
BY InitProfile, ProfileStep, PTL DEF Spec

\* What was lowered is not forgotten, and a choice that the service finds at its look at the
\* profile is kept, for any number of retries, kills, boots and openings; a choice that falls
\* between that look and the command is overwritten and claimed nothing of
\* (WantedProfileIsKept; close, open).
THEOREM WantedProfileIsKeptHolds == Spec => []WantedProfileIsKept
<1>1. ProfileInv => WantedProfileIsKept
  BY DEF ProfileInv
<1> QED  BY <1>1, ProfileAlways, PTL

-----------------------------------------------------------------------------
(* Third invariant: what has been seen since the deadline was set *)

\* Until it decides otherwise a handler has seen nothing against a deadline; where it goes on
\* after it has, the deadline is gone already, or the lid mode will not let it stay.
Seen ==
  /\ pc \in {"look", "ask", "claim", "blank", "recheck", "own", "lower", "lowered", "final", "poweroff"} =>
       ~run.saw
  /\ pc \in {"keep", "sync"} /\ run.saw => d.mode # "connected"
  /\ pc \in {"dim", "wake", "restore", "raise", "raised"} => store.deadline.minutes = 0
  /\ pc \in {"final", "poweroff"} => /\ store.deadline.minutes # 0 /\ store.deadline.boot = boot
                                     /\ store.deadline.past

DeadlineInv == FileInv /\ Seen /\ DeadlineIsCurrent

\* A handler may end where it has seen nothing, or where the deadline is gone.
LEMMA EndsSeen ==
  ASSUME TypeOK, Seen, DeadlineIsCurrent, boot' = boot, Ends \/ Stops,
         \/ ~run.saw /\ store' = store
         \/ store' = store /\ store.deadline.minutes = 0
         \/ store'.deadline.minutes = 0
         \/ Stops
  PROVE  Seen' /\ DeadlineIsCurrent'
<1>1. broken \in BOOLEAN /\ run.saw \in BOOLEAN
  BY TypeIs DEF ServiceType, Locals
<1>2. pc' = "idle"
  BY DEF Ends, Stops
<1>3. CASE Stops
  BY <1>3 DEF Stops, Seen, DeadlineIsCurrent
<1>4. CASE Ends /\ ~run.saw /\ store' = store
  <2>1. broken' = broken
    BY <1>1, <1>4 DEF Ends
  <2> QED  BY <1>2, <1>4, <2>1 DEF Seen, DeadlineIsCurrent
<1>5. CASE store'.deadline.minutes = 0
  BY <1>2, <1>5 DEF Seen, DeadlineIsCurrent
<1> QED  BY <1>3, <1>4, <1>5

\* It may go on to a step that asks no more of it than the last one did.
LEMMA GoesSeen ==
  ASSUME DeadlineIsCurrent, boot' = boot, NEW s, Goes(s),
         store'.deadline = store.deadline \/ store'.deadline.minutes = 0,
         s \in {"blank", "recheck", "own", "lower", "lowered", "poweroff"} => ~run.saw,
         s = "sync" /\ run.saw => d.mode # "connected",
         s = "poweroff" => /\ store' = store /\ store.deadline.minutes # 0
                           /\ store.deadline.boot = boot /\ store.deadline.past,
         s \in {"dim", "wake", "restore", "raise", "raised"} => store'.deadline.minutes = 0,
         s \notin {"look", "ask", "claim", "keep", "final"}
  PROVE  Seen' /\ DeadlineIsCurrent'
BY DEF Goes, Seen, DeadlineIsCurrent

LEMMA NoMinutes ==
  ASSUME TypeOK, Recorded, store' = IF Usable THEN Cleared ELSE store
  PROVE  store'.deadline.minutes = 0
BY TypeIs, ClearedIs, UsableIs DEF Recorded

LEMMA DecideSeen == ASSUME DeadlineInv, Decide PROVE Seen' /\ DeadlineIsCurrent'
<1>1. TypeOK /\ Seen /\ DeadlineIsCurrent
  BY DEF DeadlineInv, FileInv
<1>2. /\ store' = store /\ broken' = broken /\ boot' = boot
      /\ pc' \in {"idle", "ask", "clear", "keep", "claim", "drop"}
      /\ pc' = "ask" => pc = "look" /\ run' = run
      /\ pc' = "claim" => ~run'.saw
      /\ pc' = "keep" /\ run'.saw => d'.mode # "connected"
  BY <1>1, DecideDoes, RestBoot
<1> QED  BY <1>1, <1>2 DEF Seen, DeadlineIsCurrent

LEMMA PanelsSeen ==
  ASSUME DeadlineInv, Keep \/ Blank \/ Wake \/ Recheck
  PROVE  Seen' /\ DeadlineIsCurrent'
<1>1. TypeOK /\ Seen /\ DeadlineIsCurrent
  BY DEF DeadlineInv, FileInv
<1>2. CASE Keep
  <2>1. pc = "keep" /\ store' = store /\ boot' = boot /\ Goes("sync")
    BY <1>1, <1>2, KeepDoes, RestBoot
  <2> QED  BY <1>1, <2>1, GoesSeen DEF Seen
<1>3. CASE Blank
  <2>1. /\ pc \in {"blank", "dim"} /\ store' = store /\ boot' = boot
        /\ (pc = "blank" /\ Goes("recheck")) \/ (pc = "dim" /\ Goes("clear")) \/ Ends
    BY <1>1, <1>3, BlankDoes, RestBoot
  <2> QED  BY <1>1, <2>1, GoesSeen, EndsSeen DEF Seen
<1>4. CASE Wake
  <2>1. pc = "wake" /\ store' = store /\ boot' = boot /\ (Goes("restore") \/ Ends)
    BY <1>1, <1>4, WakeDoes, RestBoot
  <2> QED  BY <1>1, <2>1, GoesSeen, EndsSeen DEF Seen
<1>5. CASE Recheck
  <2>1. pc = "recheck" /\ store' = store /\ boot' = boot /\ ~run.saw
    BY <1>1, <1>5, RecheckDoes, RestBoot DEF Seen
  <2>2. CASE Ends \/ Goes("own")
    BY <1>1, <2>1, <2>2, GoesSeen, EndsSeen
  <2>3. CASE pc' = "clear" /\ broken' = broken
    BY <1>1, <2>1, <2>3 DEF Seen, DeadlineIsCurrent
  <2> QED  BY <1>1, <1>5, <2>2, <2>3, RecheckDoes
<1> QED  BY <1>2, <1>3, <1>4, <1>5

LEMMA CloseSeen ==
  ASSUME DeadlineInv, Claim \/ Own \/ Lowered \/ Drop
  PROVE  Seen' /\ DeadlineIsCurrent'
<1>1. TypeOK /\ Recorded /\ Seen /\ DeadlineIsCurrent
  BY DEF DeadlineInv, FileInv
<1>2. CASE Claim
  <2>1. pc = "claim" /\ boot' = boot /\ ~run.saw
    BY <1>1, <1>2, ClaimDoes, RestBoot DEF Seen
  <2>2. \/ Stops
        \/ Goes("blank") /\ (store' = store \/ store'.deadline = NoDeadline)
    BY <1>1, <1>2, ClaimDoes
  <2> QED  BY <1>1, <2>1, <2>2, GoesSeen, EndsSeen, MissingIs
<1>3. CASE Own
  <2>1. pc = "own" /\ boot' = boot /\ ~run.saw
    BY <1>1, <1>3, OwnDoes, RestBoot DEF Seen
  <2>2. Stops \/ ((Goes("lower") \/ Goes("sync")) /\ store'.deadline = store.deadline)
    BY <1>1, <1>3, OwnDoes
  <2> QED  BY <1>1, <2>1, <2>2, GoesSeen, EndsSeen
<1>4. CASE Lowered
  <2>1. pc = "lowered" /\ boot' = boot /\ ~run.saw
    BY <1>1, <1>4, LoweredDoes, RestBoot DEF Seen
  <2>2. Stops \/ (Ends /\ store' = store) \/ (Goes("sync") /\ store'.deadline = store.deadline)
    BY <1>1, <1>4, LoweredDoes
  <2> QED  BY <1>1, <2>1, <2>2, GoesSeen, EndsSeen
<1>5. CASE Drop
  <2>1. boot' = boot /\ (Stops \/ (Goes("dim") /\ store'.deadline.minutes = 0))
    BY <1>1, <1>5, DropDoes, NoMinutes, RestBoot
  <2> QED  BY <1>1, <2>1, GoesSeen, EndsSeen
<1> QED  BY <1>2, <1>3, <1>4, <1>5

LEMMA CommandSeen == ASSUME DeadlineInv, Lower \/ Raise PROVE Seen' /\ DeadlineIsCurrent'
<1>1. TypeOK /\ Seen /\ DeadlineIsCurrent /\ store' = store /\ boot' = boot
  BY DEF DeadlineInv, FileInv, Lower, Raise, Quiet, system
<1>2. CASE Lower
  <2>1. SetProfile("powersave", "lowered") /\ "lowered" \in Steps /\ ~run.saw
    BY <1>1, <1>2 DEF Lower, At, Steps, Seen
  <2>2. Goes("lowered") \/ Ends
    BY <1>1, <2>1, SetProfileDoes
  <2> QED  BY <1>1, <2>1, <2>2, GoesSeen, EndsSeen
<1>3. CASE Raise
  <2>1. SetProfile(store.restore, "raised") /\ "raised" \in Steps /\ store.deadline.minutes = 0
    BY <1>1, <1>3 DEF Raise, At, Steps, Seen
  <2>2. Goes("raised") \/ Ends
    BY <1>1, <2>1, SetProfileDoes
  <2> QED  BY <1>1, <2>1, <2>2, GoesSeen, EndsSeen
<1> QED  BY <1>2, <1>3

LEMMA SyncSeen == ASSUME DeadlineInv, Sync PROVE Seen' /\ DeadlineIsCurrent'
<1>1. TypeOK /\ Recorded /\ Seen /\ DeadlineIsCurrent /\ pc = "sync" /\ boot' = boot /\ store \in Files
  BY SyncDoes, RestBoot, TypeIs DEF DeadlineInv, FileInv
<1>2. CASE ~Usable /\ Ends /\ store' = store
  BY <1>1, <1>2, EndsSeen, UsableIs DEF Recorded
<1>3. CASE Against /\ store' = Cleared
  BY <1>1, <1>3, ClearedIs DEF Against, Seen, DeadlineIsCurrent
<1>4. CASE Stops
  BY <1>1, <1>4, EndsSeen
<1>5. CASE broken' = FALSE /\ pc' = "idle"
  BY <1>5 DEF Seen, DeadlineIsCurrent
<1>6. CASE /\ MayPowerOff /\ store' = store /\ (Goes("final") \/ Ends)
           /\ store.deadline.minutes = cond.setting /\ store.deadline.boot = boot
           /\ pc' = "final" => store.deadline.past
  <2>1. ~run.saw /\ store.deadline.minutes # 0
    BY <1>1, <1>6 DEF MayPowerOff, Seen
  <2>2. CASE Ends
    BY <1>1, <1>6, <2>1, <2>2, EndsSeen
  <2>3. CASE Goes("final")
    BY <1>1, <1>6, <2>1, <2>3 DEF Goes, Seen, DeadlineIsCurrent
  <2> QED  BY <1>6, <2>2, <2>3
<1> QED  BY <1>1, <1>2, <1>3, <1>4, <1>5, <1>6, SyncDoes

LEMMA FinalSeen == ASSUME DeadlineInv, Final PROVE Seen' /\ DeadlineIsCurrent'
<1>1. TypeOK /\ Seen /\ DeadlineIsCurrent /\ pc = "final" /\ boot' = boot /\ store \in Files /\ WorldType
  BY FinalDoes, RestBoot, TypeIs DEF DeadlineInv, FileInv
<1>2. /\ ~run.saw /\ ~broken /\ store.deadline.minutes # 0 /\ store.deadline.boot = boot
      /\ store.deadline.past
  BY <1>1 DEF Seen, DeadlineIsCurrent
<1>3. CASE store' = store /\ (Ends \/ Goes("poweroff"))
  BY <1>1, <1>2, <1>3, EndsSeen, GoesSeen
<1>4. CASE Ends /\ store' = Armed
  BY <1>2, <1>4 DEF Ends, Seen, DeadlineIsCurrent
<1>6. CASE Against /\ store' = Cleared
  BY <1>1, <1>6, ClearedIs DEF Against, Seen, DeadlineIsCurrent
<1>5. CASE Stops
  BY <1>1, <1>5, EndsSeen
<1> QED  BY <1>1, <1>3, <1>4, <1>5, <1>6, FinalDoes

LEMMA OpenSeen ==
  ASSUME DeadlineInv, Clear \/ Restore \/ Raised
  PROVE  Seen' /\ DeadlineIsCurrent'
<1>1. TypeOK /\ Recorded /\ Seen /\ DeadlineIsCurrent
  BY DEF DeadlineInv, FileInv
<1>2. CASE Clear
  <2>1. /\ boot' = boot
        /\ Stops \/ ((Goes("wake") \/ Goes("restore")) /\ store'.deadline.minutes = 0)
    BY <1>1, <1>2, ClearDoes, NoMinutes, RestBoot
  <2> QED  BY <1>1, <2>1, GoesSeen, EndsSeen
<1>3. CASE Restore
  <2>1. boot' = boot /\ store.deadline.minutes = 0
    BY <1>1, <1>3, RestoreDoes, RestBoot DEF Seen
  <2>2. \/ Stops
        \/ Ends /\ (store' = store \/ store' = Missing)
        \/ Goes("raise") /\ store'.deadline = store.deadline
    BY <1>1, <1>3, RestoreDoes
  <2> QED  BY <1>1, <2>1, <2>2, GoesSeen, EndsSeen, MissingIs
<1>4. CASE Raised
  <2>1. boot' = boot /\ store.deadline.minutes = 0
    BY <1>1, <1>4, RaisedDoes, RestBoot DEF Seen
  <2>2. Stops \/ (Ends /\ (store' = store \/ store' = Missing))
    BY <1>1, <1>4, RaisedDoes
  <2> QED  BY <1>1, <2>1, <2>2, EndsSeen, MissingIs
<1> QED  BY <1>2, <1>3, <1>4

\* A deadline of an earlier boot is none of this one.
LEMMA OthersSeen ==
  ASSUME DeadlineInv, Loops \/ Dies \/ Outside \/ BootUp \/ PowerOff
  PROVE  Seen' /\ DeadlineIsCurrent'
<1>1. TypeOK /\ Recorded /\ Seen /\ DeadlineIsCurrent
  BY DEF DeadlineInv, FileInv
<1>2. CASE Loops
  <2>1. store' = store /\ broken' = broken /\ boot' = boot
    BY <1>2 DEF Loops, system
  <2>2. (pc' = "look" /\ ~run'.saw) \/ pc' \in {"idle", "prepare", "judge"}
    BY <1>2 DEF Loops
  <2> QED  BY <1>1, <2>1, <2>2 DEF Seen, DeadlineIsCurrent
<1>3. CASE Dies
  BY <1>1, <1>3 DEF Dies, system, Seen, DeadlineIsCurrent
<1>4. CASE Outside
  <2>1. /\ UNCHANGED <<pc, run, broken, boot>> /\ d'.mode = d.mode
        /\ store'.deadline.minutes = store.deadline.minutes
        /\ store'.deadline.boot = store.deadline.boot
        /\ store.deadline.past => store'.deadline.past
    BY <1>4 DEF Outside
  <2> QED  BY <1>1, <2>1 DEF Seen, DeadlineIsCurrent
<1>5. CASE BootUp
  <2>1. store' = store /\ boot' = boot + 1 /\ pc' = "down" /\ boot \in Nat /\ store \in Files
    BY <1>1, <1>5, BootUpDoes, TypeIs DEF WorldType
  <2>2. store.deadline.boot \in Nat
    BY <2>1, StoreIs DEF Deadlines
  <2>3. store'.deadline.boot # boot'
    BY <1>1, <2>1, <2>2 DEF Recorded
  <2> QED  BY <2>1, <2>3 DEF Seen, DeadlineIsCurrent
<1>6. CASE PowerOff
  <2>1. CASE pc = "poweroff" /\ Rest /\ store' = store /\ Ends
    BY <1>1, <2>1, RestBoot, EndsSeen DEF Seen
  <2> QED  BY <1>1, <1>3, <1>6, <2>1, PowerOffDoes
<1> QED  BY <1>2, <1>3, <1>4, <1>5, <1>6

LEMMA InitSeen == Init => DeadlineInv
<1> SUFFICES ASSUME Init PROVE Seen /\ DeadlineIsCurrent
  BY InitFile DEF DeadlineInv
<1>1. pc = "down" /\ broken = FALSE
  BY DEF Init
<1> QED  BY <1>1 DEF Seen, DeadlineIsCurrent

LEMMA DeadlineStep == DeadlineInv /\ [Next]_vars => DeadlineInv'
<1> SUFFICES ASSUME DeadlineInv, [Next]_vars PROVE Seen' /\ DeadlineIsCurrent'
  BY FileStep DEF DeadlineInv
<1>1. TypeOK
  BY DEF DeadlineInv, FileInv
<1>2. CASE Handler
  BY <1>1, <1>2, DecideSeen, PanelsSeen, CloseSeen, CommandSeen, SyncSeen, FinalSeen, OpenSeen,
     OthersSeen, PrepareDoes, JudgeDoes DEF Handler
<1>3. CASE Next
  BY <1>1, <1>2, <1>3, Kinds, OthersSeen
<1>4. CASE UNCHANGED vars
  BY <1>4 DEF vars, system, history, DeadlineInv, Seen, DeadlineIsCurrent
<1> QED  BY <1>3, <1>4

LEMMA DeadlineAlways == Spec => []DeadlineInv
BY InitSeen, DeadlineStep, PTL DEF Spec

\* A deadline of this boot is gone once a handler that saw the lid open, another lid mode, the
\* charger, the setting "never" or one it could not read has ended without a failed write, for
\* any number of failures, kills and boots; and the machine is powered off by a deadline of
\* this boot that has passed (DeadlineIsCurrent; open, sync_auto_poweroff).
THEOREM DeadlineIsCurrentHolds == Spec => []DeadlineIsCurrent
<1>1. DeadlineInv => DeadlineIsCurrent
  BY DEF DeadlineInv
<1> QED  BY <1>1, DeadlineAlways, PTL
=============================================================================

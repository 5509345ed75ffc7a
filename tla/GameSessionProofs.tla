--------------------------- MODULE GameSessionProofs ---------------------------
(***************************************************************************)
(* Proofs about game sessions, for any set of supervisors, and any number  *)
(* of signals, kills, faults and choices of the user.                      *)
(***************************************************************************)
EXTENDS GameSession, TLAPS

-----------------------------------------------------------------------------
(* Data *)

HelperStates == {"none", "started", "claimed", "sent", "mutated", "ok", "failed"}
Units  == {"none", "client", "active", "gone"}
Pads   == [token : Tokens, mode : Modes \cup {"unsettled"}, by : {"user", "session"}]
Spent  == [signals : Nat, kills : Nat, faults : Nat, choices : Nat]
Owners == Sessions \cup {"user", "restore", "orphan"}

\* What the supervisors know, what the journal says, and the world they act on.
SessionType == /\ pc \in [Sessions -> PCs] /\ phase \in [Sessions -> Phases]
               /\ mem \in [Sessions -> Memories] /\ helper \in [Sessions -> Helpers]
               /\ unit \in [Sessions -> Units]
JournalType == rec \in Records \cup {NoRecord} /\ journaled \subseteq Tokens
PadType     == pad \in Pads /\ fresh \in Nat
PowerType   == power \in Powers /\ powerBy \in Owners
OrphanType  == orphans \subseteq Orphans

LEMMA TypeIs ==
  TypeOK <=> /\ SessionType /\ JournalType /\ PadType /\ PowerType /\ OrphanType
             /\ slock \in Sessions \cup {NoOne} /\ ghosts \subseteq Sessions /\ budget \in Spent
BY DEF TypeOK, SessionType, JournalType, PadType, PowerType, OrphanType, Units, Pads, Spent, Owners

LEMMA Named == NoOne \notin Sessions /\ "user" \notin Sessions /\ "restore" \notin Sessions
               /\ "orphan" \notin Sessions
BY SessionsAssumption

\* A record is not the absence of one.
LEMMA RecordIs ==
  ASSUME NEW r \in Records
  PROVE  /\ r # NoRecord /\ r.by \in Sessions /\ r.phase \in RecordPhases
         /\ r.unit \in BOOLEAN /\ r.scope \in BOOLEAN /\ r.lease \in Tokens /\ r.lease \in Nat
         /\ r.previous \in Modes /\ r.perf \in Powers \cup {"none"}
<1>1. r.by \in Sessions
  BY DEF Records
<1>2. NoRecord.by = NoOne
  BY DEF NoRecord
<1> QED  BY <1>1, <1>2, Named DEF Records, Tokens

LEMMA NoRecordIs == NoRecord.by = NoOne /\ NoRecord.by \notin Sessions
BY Named DEF NoRecord

LEMMA MemoryIs ==
  ASSUME NEW m \in Memories
  PROVE  /\ m.sig \in BOOLEAN /\ m.lease \in Tokens /\ m.lease \in Nat /\ m.previous \in Modes
         /\ m.unit \in BOOLEAN /\ m.scope \in BOOLEAN /\ m.client \in BOOLEAN /\ m.quiesced \in BOOLEAN
         /\ m.boost \in Powers \cup {"none"} /\ m.written \in RecordPhases \cup {"none"}
         /\ m.kept \in BOOLEAN
BY DEF Memories, Tokens

LEMMA FreshIs ==
  /\ FreshMemory \in Memories /\ FreshMemory.lease = 0 /\ FreshMemory.unit = FALSE
  /\ FreshMemory.scope = FALSE /\ FreshMemory.client = FALSE /\ FreshMemory.quiesced = FALSE
  /\ FreshMemory.boost = "none" /\ FreshMemory.written = "none" /\ FreshMemory.kept = FALSE
BY DEF FreshMemory, Memories, Tokens, Modes

LEMMA HelperIs ==
  ASSUME NEW h \in Helpers
  PROVE  h.state \in HelperStates /\ h.token \in Nat /\ h.token \in Tokens /\ h.previous \in Modes
         /\ h.sent \in BOOLEAN
BY DEF Helpers, Tokens, HelperStates

\* The record of memory m, published.
LEMMA PublishIs ==
  ASSUME NEW s \in Sessions, NEW m \in Memories, NEW p \in RecordPhases, Publish(s, m, p)
  PROVE  /\ rec' \in Records /\ rec'.by = s /\ rec'.phase = p /\ rec'.unit = m.unit
         /\ rec'.scope = m.scope /\ rec'.lease = m.lease /\ rec'.perf = m.boost
         /\ journaled' = journaled \cup {m.lease}
<1>1. /\ m.lease \in Tokens /\ m.previous \in Modes /\ m.unit \in BOOLEAN /\ m.scope \in BOOLEAN
      /\ m.boost \in Powers \cup {"none"}
  BY MemoryIs
<1>2. rec' = [by |-> s, phase |-> p, unit |-> m.unit, scope |-> m.scope,
              lease |-> m.lease, previous |-> m.previous, perf |-> m.boost]
  BY DEF Publish
<1> QED  BY <1>1, <1>2 DEF Publish, Records

-----------------------------------------------------------------------------
(* What a supervisor's step does to its own state, and not to the others' *)

Turns(s, p)   == /\ pc' \in [Sessions -> PCs] /\ pc'[s] = p
                 /\ \A t \in Sessions \ {s} : pc'[t] = pc[t]
Phased(s, f)  == /\ phase' \in [Sessions -> Phases] /\ phase'[s] = f
                 /\ \A t \in Sessions \ {s} : phase'[t] = phase[t]
Recalls(s, m) == /\ mem' \in [Sessions -> Memories] /\ mem'[s] = m
                 /\ \A t \in Sessions \ {s} : mem'[t] = mem[t]
Helped(s, h)  == /\ helper' \in [Sessions -> Helpers] /\ helper'[s] = h
                 /\ \A t \in Sessions \ {s} : helper'[t] = helper[t]
Scoped(s, u)  == /\ unit' \in [Sessions -> Units] /\ unit'[s] = u
                 /\ \A t \in Sessions \ {s} : unit'[t] = unit[t]

Steps(s, p, f, m, h, u) == Turns(s, p) /\ Phased(s, f) /\ Recalls(s, m) /\ Helped(s, h) /\ Scoped(s, u)

LEMMA GotoDoes ==
  ASSUME SessionType, NEW s \in Sessions, NEW p \in PCs, Goto(s, p) PROVE Turns(s, p)
BY DEF SessionType, Goto, Turns

LEMMA EnterDoes ==
  ASSUME SessionType, NEW s \in Sessions, NEW f \in Phases, Enter(s, f) PROVE Phased(s, f)
BY DEF SessionType, Enter, Phased

LEMMA RememberDoes ==
  ASSUME SessionType, NEW s \in Sessions, NEW m \in Memories, Remember(s, m) PROVE Recalls(s, m)
BY DEF SessionType, Remember, Recalls

LEMMA StaysPut ==
  ASSUME SessionType, NEW s \in Sessions
  PROVE  /\ UNCHANGED pc => Turns(s, pc[s])
         /\ UNCHANGED phase => Phased(s, phase[s])
         /\ UNCHANGED mem => Recalls(s, mem[s])
         /\ UNCHANGED helper => Helped(s, helper[s])
         /\ UNCHANGED unit => Scoped(s, unit[s])
BY DEF SessionType, Turns, Phased, Recalls, Helped, Scoped

LEMMA AtIs ==
  ASSUME SessionType, NEW s \in Sessions
  PROVE  /\ pc[s] \in PCs /\ phase[s] \in Phases /\ mem[s] \in Memories
         /\ helper[s] \in Helpers /\ unit[s] \in Units
BY DEF SessionType

LEMMA StateDoes ==
  ASSUME SessionType, NEW s \in Sessions, NEW x \in HelperStates,
         helper' = [helper EXCEPT ![s].state = x]
  PROVE  /\ Helped(s, helper'[s]) /\ helper'[s] \in Helpers /\ helper'[s].state = x
         /\ helper'[s].token = helper[s].token /\ helper'[s].sent = helper[s].sent
         /\ helper'[s].previous = helper[s].previous
<1>1. helper \in [Sessions -> Helpers] /\ helper[s] \in Helpers
  BY DEF SessionType
<1>2. PICK h : h = [helper[s] EXCEPT !.state = x]
  OBVIOUS
<1>3. /\ h \in Helpers /\ h.state = x /\ h.token = helper[s].token /\ h.sent = helper[s].sent
      /\ h.previous = helper[s].previous
  BY <1>1, <1>2 DEF Helpers, HelperStates
<1>4. helper' = [helper EXCEPT ![s] = h]
  BY <1>2
<1> QED  BY <1>1, <1>3, <1>4 DEF Helped

-----------------------------------------------------------------------------
(* One field of a memory *)

\* Two memories that differ in the fields named at most.
SameLease(n, m) == n.lease = m.lease /\ n.previous = m.previous
SameUnit(n, m)  == n.unit = m.unit /\ n.scope = m.scope
SameGame(n, m)  == n.client = m.client /\ n.quiesced = m.quiesced
SameRest(n, m)  == n.boost = m.boost /\ n.kept = m.kept

LEMMA WrittenIs ==
  ASSUME NEW m \in Memories, NEW p \in RecordPhases \cup {"none"}, NEW n, n = [m EXCEPT !.written = p]
  PROVE  /\ n \in Memories /\ n.written = p /\ SameLease(n, m) /\ SameUnit(n, m) /\ SameGame(n, m)
         /\ SameRest(n, m)
BY DEF Memories, SameLease, SameUnit, SameGame, SameRest

LEMMA KeptIs ==
  ASSUME NEW m \in Memories, NEW n, n = [m EXCEPT !.kept = TRUE]
  PROVE  /\ n \in Memories /\ n.kept = TRUE /\ n.boost = m.boost /\ n.written = m.written
         /\ SameLease(n, m) /\ SameUnit(n, m) /\ SameGame(n, m)
BY DEF Memories, SameLease, SameUnit, SameGame

LEMMA SignalIs ==
  ASSUME NEW m \in Memories, NEW n, n = [m EXCEPT !.sig = TRUE]
  PROVE  /\ n \in Memories /\ n.written = m.written /\ SameLease(n, m) /\ SameUnit(n, m) /\ SameGame(n, m)
         /\ SameRest(n, m)
BY DEF Memories, SameLease, SameUnit, SameGame, SameRest

LEMMA BoostIs ==
  ASSUME NEW m \in Memories, NEW b \in Powers \cup {"none"}, NEW n, n = [m EXCEPT !.boost = b]
  PROVE  /\ n \in Memories /\ n.boost = b /\ n.kept = m.kept /\ n.written = m.written
         /\ SameLease(n, m) /\ SameUnit(n, m) /\ SameGame(n, m)
BY DEF Memories, SameLease, SameUnit, SameGame

LEMMA UnitIs ==
  ASSUME NEW m \in Memories, NEW n, n = [m EXCEPT !.unit = TRUE]
  PROVE  /\ n \in Memories /\ n.unit = TRUE /\ n.scope = m.scope /\ n.written = m.written
         /\ SameLease(n, m) /\ SameGame(n, m) /\ SameRest(n, m)
BY DEF Memories, SameLease, SameGame, SameRest

LEMMA ScopeIs ==
  ASSUME NEW m \in Memories, NEW n, n = [m EXCEPT !.scope = TRUE]
  PROVE  /\ n \in Memories /\ n.scope = TRUE /\ n.unit = m.unit /\ n.written = m.written
         /\ SameLease(n, m) /\ SameGame(n, m) /\ SameRest(n, m)
BY DEF Memories, SameLease, SameGame, SameRest

LEMMA ClientIs ==
  ASSUME NEW m \in Memories, NEW n, n = [m EXCEPT !.client = TRUE]
  PROVE  /\ n \in Memories /\ n.client = TRUE /\ n.quiesced = m.quiesced /\ n.written = m.written
         /\ SameLease(n, m) /\ SameUnit(n, m) /\ SameRest(n, m)
BY DEF Memories, SameLease, SameUnit, SameRest

LEMMA QuiescedIs ==
  ASSUME NEW m \in Memories, NEW n, n = [m EXCEPT !.quiesced = TRUE]
  PROVE  /\ n \in Memories /\ n.quiesced = TRUE /\ n.client = m.client /\ n.written = m.written
         /\ SameLease(n, m) /\ SameUnit(n, m) /\ SameRest(n, m)
BY DEF Memories, SameLease, SameUnit, SameRest

LEMMA ReceivedIs ==
  ASSUME SessionType, NEW s \in Sessions
  PROVE  /\ Received(s) \in Memories /\ Received(s).lease = helper[s].token
         /\ Received(s).written = mem[s].written
         /\ SameUnit(Received(s), mem[s]) /\ SameGame(Received(s), mem[s]) /\ SameRest(Received(s), mem[s])
<1>1. mem[s] \in Memories /\ helper[s].token \in Tokens /\ helper[s].previous \in Modes
  BY HelperIs DEF SessionType
<1>2. PICK n : n = Received(s)
  OBVIOUS
<1>3. n = [mem[s] EXCEPT !.lease = helper[s].token, !.previous = helper[s].previous]
  BY <1>2 DEF Received
<1>4. /\ n \in Memories /\ n.lease = helper[s].token /\ n.written = mem[s].written
      /\ SameUnit(n, mem[s]) /\ SameGame(n, mem[s]) /\ SameRest(n, mem[s])
  BY <1>1, <1>3 DEF Memories, SameUnit, SameGame, SameRest
<1> QED  BY <1>2, <1>4

-----------------------------------------------------------------------------
(* What a step does to the journal *)

\* Nothing; memory m published under phase p; or, at least, perhaps.
JournalStays == rec' = rec /\ journaled' = journaled
JournalSays(s, m) ==
  /\ rec' \in Records /\ rec'.by = s /\ rec'.unit = m.unit
  /\ rec'.scope = m.scope /\ rec'.lease = m.lease /\ rec'.perf = m.boost
  /\ journaled' = journaled \cup {m.lease}

LEMMA SpendType ==
  ASSUME budget \in Spent, NEW f \in {"signals", "kills", "faults", "choices"}, NEW b, Spend(f, b)
  PROVE  budget' \in Spent
BY DEF Spent, Spend

LEMMA FaultType == ASSUME budget \in Spent, Fault \/ Fine PROVE budget' \in Spent
BY SpendType DEF Fault, Fine

LEMMA WriteDoes ==
  ASSUME SessionType, NEW s \in Sessions, NEW m \in Memories, NEW p \in RecordPhases, WriteRecord(s, m, p)
  PROVE  /\ JournalSays(s, m) /\ rec'.phase = p /\ Fine
         /\ \E n \in Memories : /\ Recalls(s, n) /\ n.written = p /\ SameLease(n, m) /\ SameUnit(n, m)
                                /\ SameGame(n, m) /\ SameRest(n, m)
<1>1. PICK n : n = [m EXCEPT !.written = p]
  OBVIOUS
<1>2. n \in Memories /\ n.written = p /\ SameLease(n, m) /\ SameUnit(n, m) /\ SameGame(n, m) /\ SameRest(n, m)
  BY <1>1, WrittenIs
<1>3. Remember(s, n) /\ Publish(s, m, p) /\ Fine
  BY <1>1 DEF WriteRecord
<1> QED  BY <1>2, <1>3, RememberDoes, PublishIs DEF JournalSays

LEMMA WriteFailsDoes ==
  ASSUME SessionType, NEW s \in Sessions, NEW m \in Memories, NEW p \in RecordPhases,
         NEW after \in Memories, WriteFails(s, m, p, after)
  PROVE  Fault /\ (JournalStays \/ (JournalSays(s, m) /\ rec'.phase = p)) /\ Recalls(s, after)
BY RememberDoes, PublishIs DEF WriteFails, NoRecordChange, JournalSays, JournalStays

-----------------------------------------------------------------------------
(* What a step does to the input state and to the power profile *)

\* The token stays or is a new one.
PadStep == /\ pad' \in Pads /\ fresh' \in Nat
           /\ \/ fresh' = fresh /\ pad'.token = pad.token
              \/ fresh' = fresh + 1 /\ pad'.token = fresh + 1

\* A recovery with a lease changes nothing under any other token.
PadYields(lease) == PadStep /\ (pad' = pad \/ pad.token = lease)

LEMMA NewPadIs ==
  ASSUME PadType, NEW m \in Modes \cup {"unsettled"}, NEW w \in {"user", "session"}, NewPad(m, w)
  PROVE  /\ pad' \in Pads /\ fresh' \in Nat /\ fresh' = fresh + 1
         /\ pad'.token = fresh + 1 /\ pad'.by = w
BY DEF NewPad, PadType, Pads, Tokens

LEMMA ModeDoes ==
  ASSUME PadType, NEW m \in Modes \cup {"unsettled"}, pad' = [pad EXCEPT !.mode = m], fresh' = fresh
  PROVE  PadStep /\ fresh' = fresh
BY DEF PadType, Pads, PadStep

LEMMA RecoveredDoes ==
  ASSUME PadType, NEW l \in Tokens, NEW m \in Modes, Recovered(l, m), pad.token \leq fresh
  PROVE  PadYields(l) /\ pad'.token # l
<1>1. pad.token \in Nat /\ fresh \in Nat /\ pad \in Pads
  BY DEF PadType, Pads, Tokens
<1>2. CASE pad.token = l /\ NewPad(m, "session")
  <2>1. pad' \in Pads /\ fresh' \in Nat /\ fresh' = fresh + 1 /\ pad'.token = fresh + 1
    BY <1>2, NewPadIs
  <2> QED  BY <1>1, <1>2, <2>1 DEF PadYields, PadStep
<1>3. CASE pad.token # l /\ UNCHANGED <<pad, fresh>>
  BY <1>1, <1>3 DEF PadYields, PadStep
<1> QED  BY <1>2, <1>3 DEF Recovered

LEMMA RecoveryFailsDoes ==
  ASSUME PadType, budget \in Spent, NEW l \in Tokens, NEW m \in Modes, RecoveryFails(l, m), pad.token \leq fresh
  PROVE  PadYields(l) /\ budget' \in Spent
<1>1. budget' \in Spent
  BY FaultType DEF RecoveryFails
<1>2. fresh \in Nat /\ pad \in Pads
  BY DEF PadType
<1>3. CASE UNCHANGED <<pad, fresh>>
  BY <1>1, <1>2, <1>3 DEF PadYields, PadStep
<1>4. CASE Recovered(l, m)
  BY <1>1, <1>4, RecoveredDoes
<1>5. CASE pad.token = l /\ pad' = [pad EXCEPT !.mode = "unsettled", !.by = "session"] /\ UNCHANGED fresh
  <2>1. pad' \in Pads /\ pad'.token = pad.token
    BY <1>2, <1>5 DEF Pads
  <2> QED  BY <1>1, <1>2, <1>5, <2>1 DEF PadYields, PadStep
<1> QED  BY <1>3, <1>4, <1>5 DEF RecoveryFails

\* The profile becomes p, by w if it was another.
PowerStep(p, w) == power' = p /\ powerBy' = IF p = power THEN powerBy ELSE w

LEMMA PowerFailsDoes ==
  ASSUME OrphanType, budget \in Spent, NEW p \in Powers, NEW w, PowerFails(p, w)
  PROVE  /\ PowerStep(p, w) \/ UNCHANGED <<power, powerBy>>
         /\ orphans' = orphans \/ orphans' = orphans \cup {<<"power", 0, p>>}
         /\ orphans' \subseteq Orphans /\ budget' \in Spent
<1>1. <<"power", 0, p>> \in Orphans
  BY DEF Orphans
<1> QED  BY <1>1, FaultType DEF PowerFails, SetPower, PowerStep, OrphanType

LEMMA PowerStepType ==
  ASSUME PowerType, NEW p \in Powers, NEW w \in Owners, PowerStep(p, w)
  PROVE  PowerType'
BY DEF PowerType, PowerStep

-----------------------------------------------------------------------------
(* First invariant: where a supervisor is, and what it remembers there *)

Stale   == {"stale-power", "stale-set", "stale-journal", "stale-input", "stale-unlink"}
Lowering == {"stale-power", "stale-set", "stale-journal"}  \* with a profile to go back to
Early   == {"locked", "ready"} \cup Stale
Undoing == {"power", "unboost", "clear", "restore", "recover", "remove"}
Dead    == {"new", "done", "killed"}
Begun   == {"starting", "running", "restoring"}      \* phases of a record with a unit

\* Nothing to remember yet, or any more.
Blank(m) == /\ m.lease = 0 /\ ~m.unit /\ ~m.scope /\ ~m.client /\ ~m.quiesced
            /\ m.boost = "none" /\ m.written = "none" /\ ~m.kept

\* Whatever is remembered rests on a journal entry that was written.
Whole(m) == /\ m.written # "none" => m.lease # 0
            /\ m.unit => m.written # "none"
            /\ m.boost # "none" => m.written # "none" /\ m.boost # "performance"
            /\ m.written \in Begun => m.unit
            /\ m.written = "running" => m.scope
            /\ m.scope => m.unit
            /\ m.client => m.written \in Begun
            /\ m.quiesced => m.client

Remembers(p, m) ==
  /\ p \in Dead \cup Early => Blank(m)
  /\ p \in {"acquiring", "owned", "boosting", "launch"} => ~m.unit /\ ~m.client /\ ~m.kept
  /\ p = "acquiring" => m.boost = "none" /\ (m.lease # 0 <=> m.written # "none")
  /\ p = "owned" => m.boost = "none"
  /\ p \in {"owned", "boosting", "launch"} => m.lease # 0 /\ m.written = "acquiring-input"
  /\ p \in {"boosting", "unboost", "clear"} => m.boost # "none"
  /\ p = "popen" => m.written = "starting" /\ ~m.client
  /\ p \in {"starting", "running", "stopping"} => m.client /\ ~m.quiesced
  /\ p \in Undoing \ {"remove"} /\ m.client => m.quiesced
  /\ p \in {"restore", "recover", "remove"} /\ ~m.kept => m.boost = "none"
  /\ p = "recover" => m.lease # 0

\* The phase goes with the place; where a cleanup may begin it tells how far the session got.
Enters(p, f, m) ==
  /\ p = "new" => f = "init"
  /\ p = "locked" => f = "locked"
  /\ p \in Stale \cup {"ready"} => f = "preflight"
  /\ p = "acquiring" => f = "acquiring-input"
  /\ p \in {"owned", "boosting", "launch"} => f = "input-owned"
  /\ p \in {"popen", "starting"} => f = "starting-backend"
  /\ p = "running" => f = "running"
  /\ p = "stopping" => f = "stopping"
  /\ p \in {"cleanup", "power", "unboost", "clear", "restore"} =>
       /\ f \in {"preflight", "acquiring-input", "input-owned", "starting-backend", "running", "stopping"}
       /\ m.lease = 0 => f \in {"preflight", "acquiring-input"}
       /\ m.client => f \in {"starting-backend", "running", "stopping"}
  /\ p = "recover" => f = "restoring"
  /\ p \in {"remove", "release"} => f \in {"preflight", "acquiring-input", "restoring", "stopping"}

\* An acquire helper is at work only while it is waited for, or was left behind.
Helps(p, h) ==
  /\ h.state \in {"claimed", "sent", "mutated", "ok"} \/ h.sent => h.token # 0
  /\ h.state \in {"sent", "mutated", "ok"} => h.sent
  /\ h.state \in {"none", "started", "claimed"} => ~h.sent
  /\ p \notin {"acquiring", "killed"} => h.state \in {"none", "ok", "failed"}
  /\ p \in Early \cup {"new"} => h.state = "none"

\* A game of a session at work is one that it knows of, and has stopped before undoing.
Runs(p, m, u) ==
  /\ p \notin Dead /\ u # "none" => m.client
  /\ p = "new" => u = "none"
  /\ m.quiesced => u = "gone"
  /\ p \in Undoing => u \in {"none", "gone"}

Sound(p, f, m, h, u) == Remembers(p, m) /\ Whole(m) /\ Enters(p, f, m) /\ Helps(p, h) /\ Runs(p, m, u)

Lock   == \A s \in Sessions : pc[s] \notin Dead <=> slock = s
Sounds == \A s \in Sessions : Sound(pc[s], phase[s], mem[s], helper[s], unit[s])
Stales == \A s \in Sessions : /\ pc[s] \in Stale => rec # NoRecord
                              /\ pc[s] \in Lowering => rec.perf # "none"
Drawn  == pad.token \leq fresh

Places == TypeOK /\ Lock /\ Sounds /\ Stales /\ Drawn

LEMMA PlacesAt ==
  ASSUME Places, NEW s \in Sessions
  PROVE  /\ pc[s] \in PCs /\ phase[s] \in Phases /\ mem[s] \in Memories /\ helper[s] \in Helpers
         /\ unit[s] \in Units /\ SessionType /\ JournalType /\ PadType /\ PowerType /\ OrphanType
         /\ budget \in Spent /\ ghosts \subseteq Sessions /\ slock \in Sessions \cup {NoOne}
         /\ Sound(pc[s], phase[s], mem[s], helper[s], unit[s])
         /\ pc[s] \notin Dead <=> slock = s
         /\ pad.token \leq fresh /\ pad.token \in Nat /\ fresh \in Nat
<1>1. TypeOK /\ Lock /\ Sounds /\ Drawn
  BY DEF Places
<1>2. /\ SessionType /\ JournalType /\ PadType /\ PowerType /\ OrphanType
      /\ budget \in Spent /\ ghosts \subseteq Sessions /\ slock \in Sessions \cup {NoOne}
  BY <1>1, TypeIs
<1>3. pad.token \in Nat /\ fresh \in Nat
  BY <1>2 DEF PadType, Pads, Tokens
<1> QED  BY <1>1, <1>2, <1>3, AtIs DEF Lock, Sounds, Drawn

LEMMA LiveIs == ASSUME NEW s PROVE Live(s) <=> pc[s] \notin Dead
BY DEF Live, Dead

\* A step of one session keeps the others' places.
LEMMA SoundsOn ==
  ASSUME Sounds, NEW s \in Sessions, NEW p, NEW f, NEW m, NEW h, NEW u,
         Steps(s, p, f, m, h, u), Sound(p, f, m, h, u)
  PROVE  Sounds'
BY DEF Sounds, Steps, Turns, Phased, Recalls, Helped, Scoped

LEMMA LockStays ==
  ASSUME Lock, NEW s \in Sessions, NEW p, Turns(s, p), slock' = slock, p \in Dead <=> pc[s] \in Dead
  PROVE  Lock'
BY DEF Lock, Turns

\* While a session is at work no other is in a stale journal's recovery.
LEMMA OthersRest ==
  ASSUME Lock, NEW s \in Sessions, pc[s] \notin Dead, NEW t \in Sessions \ {s}
  PROVE  pc[t] \in Dead
BY DEF Lock

LEMMA StalesOn ==
  ASSUME Lock, Stales, NEW s \in Sessions, NEW p, Turns(s, p),
         \/ pc[s] \notin Dead
         \/ rec' = rec,
         p \in Stale => rec' # NoRecord,
         p \in Lowering => rec'.perf # "none"
  PROVE  Stales'
<1> SUFFICES ASSUME NEW t \in Sessions, t # s
             PROVE  /\ pc'[t] \in Stale => rec' # NoRecord
                    /\ pc'[t] \in Lowering => rec'.perf # "none"
  BY DEF Stales, Turns, Lowering
<1>1. pc'[t] = pc[t]
  BY DEF Turns
<1>2. CASE rec' = rec
  BY <1>1, <1>2 DEF Stales, Lowering
<1>3. CASE pc[s] \notin Dead
  <2>1. pc[t] \in Dead
    BY <1>3, OthersRest
  <2> QED  BY <1>1, <2>1 DEF Dead, Stale, Lowering
<1> QED  BY <1>2, <1>3

LEMMA StepsType == ASSUME NEW s \in Sessions, NEW p, NEW f, NEW m, NEW h, NEW u, Steps(s, p, f, m, h, u)
                   PROVE  SessionType'
BY DEF Steps, Turns, Phased, Recalls, Helped, Scoped, SessionType

\* All of the first invariant, for a step of a supervisor that holds the flock before and after.
Worlds == /\ JournalType' /\ PadType' /\ PowerType' /\ OrphanType' /\ Drawn'
          /\ slock' = slock /\ ghosts' \subseteq Sessions /\ budget' \in Spent

LEMMA PlacesOn ==
  ASSUME Places, NEW s \in Sessions, NEW p, NEW f, NEW m, NEW h, NEW u,
         Steps(s, p, f, m, h, u), Sound(p, f, m, h, u), Worlds,
         pc[s] \notin Dead, p \notin Dead,
         p \in Stale => rec' # NoRecord,
         p \in Lowering => rec'.perf # "none"
  PROVE  Places'
<1>1. TypeOK /\ Lock /\ Sounds /\ Stales
  BY DEF Places
<1>2. Turns(s, p)
  BY DEF Steps
<1>3. slock' \in Sessions \cup {NoOne}
  BY <1>1, TypeIs DEF Worlds
<1>4. TypeOK'
  BY <1>3, StepsType DEF Worlds, TypeOK, SessionType, JournalType, PadType, PowerType, OrphanType, Units,
                         Pads, Spent, Owners
<1>5. Lock'
  BY <1>1, <1>2, LockStays DEF Worlds
<1>6. Sounds' /\ Stales'
  BY <1>1, <1>2, SoundsOn, StalesOn
<1> QED  BY <1>4, <1>5, <1>6 DEF Places, Worlds

\* The parts of the world that a step leaves.
LEMMA WorldsOn ==
  ASSUME Places, NEW s \in Sessions, slock' = slock, budget' \in Spent, ghosts' \subseteq Sessions,
         JournalType', OrphanType', PowerType',
         UNCHANGED <<pad, fresh>> \/ PadStep
  PROVE  Worlds
<1>1. PadType /\ Drawn /\ pad.token \in Nat /\ fresh \in Nat
  BY PlacesAt DEF Places
<1>2. PadType' /\ Drawn'
  BY <1>1 DEF PadType, Drawn, PadStep
<1> QED  BY <1>2 DEF Worlds

LEMMA WorldIs == UNCHANGED world <=> UNCHANGED <<pad, fresh, power, powerBy, orphans>>
BY DEF world

LEMMA WorldStays ==
  ASSUME Places, NEW s \in Sessions, slock' = slock, budget' \in Spent, ghosts' \subseteq Sessions,
         JournalType', UNCHANGED world
  PROVE  Worlds
<1>1. OrphanType /\ PowerType
  BY PlacesAt
<1>2. OrphanType' /\ PowerType'
  BY <1>1, WorldIs DEF OrphanType, PowerType
<1> QED  BY <1>2, WorldIs, WorldsOn

LEMMA JournalTypes ==
  ASSUME Places, NEW s \in Sessions
  PROVE  /\ JournalStays => JournalType'
         /\ \A m \in Memories : JournalSays(s, m) => JournalType'
         /\ rec' = NoRecord /\ journaled' = journaled => JournalType'
<1>1. JournalType
  BY PlacesAt
<1>2. ASSUME NEW m \in Memories, JournalSays(s, m) PROVE JournalType'
  <2>1. m.lease \in Tokens
    BY MemoryIs
  <2> QED  BY <1>1, <1>2, <2>1 DEF JournalSays, JournalType
<1> QED  BY <1>1, <1>2 DEF JournalType, JournalStays

-----------------------------------------------------------------------------
(* What each step of a supervisor does *)

\* Helper and game of the session are left alone.
Idle(s)  == Helped(s, helper[s]) /\ Scoped(s, unit[s])
Still    == JournalStays /\ UNCHANGED world

LEMMA IdleIs ==
  ASSUME SessionType, NEW s \in Sessions, UNCHANGED <<helper, unit>>
  PROVE  Idle(s)
BY StaysPut DEF Idle

LEMMA StillIs == UNCHANGED <<rec, journaled, world>> => Still
BY DEF Still, JournalStays

LEMMA LaunchDoes ==
  ASSUME Places, NEW s \in Sessions, Launch(s)
  PROVE  /\ pc[s] = "new" /\ Recalls(s, mem[s]) /\ Idle(s) /\ Still /\ ghosts' = ghosts /\ budget' \in Spent
         /\ \/ slock = NoOne /\ slock' = s /\ Turns(s, "locked") /\ Phased(s, "locked")
            \/ slock # NoOne /\ slock' = slock /\ Turns(s, "done") /\ Phased(s, "done")
<1>1. SessionType /\ budget \in Spent
  BY PlacesAt
<1>2. /\ pc[s] = "new" /\ UNCHANGED <<mem, helper, unit, rec, world, ghosts, journaled>> /\ Fine
      /\ IF slock = NoOne THEN slock' = s /\ Goto(s, "locked") /\ Enter(s, "locked")
                          ELSE Goto(s, "done") /\ Enter(s, "done") /\ UNCHANGED slock
  BY DEF Launch
<1>3. {"locked", "done"} \subseteq PCs /\ {"locked", "done"} \subseteq Phases
  BY DEF PCs, Phases
<1>4. Recalls(s, mem[s]) /\ Idle(s) /\ Still /\ budget' \in Spent
  BY <1>1, <1>2, StaysPut, IdleIs, StillIs, FaultType
<1> QED  BY <1>1, <1>2, <1>3, <1>4, GotoDoes, EnterDoes

LEMMA PreflightDoes ==
  ASSUME Places, NEW s \in Sessions, Preflight(s)
  PROVE  /\ pc[s] = "locked" /\ Recalls(s, mem[s]) /\ Phased(s, "preflight") /\ Idle(s) /\ Still
         /\ ghosts' = ghosts /\ slock' = slock /\ budget' \in Spent
         /\ \/ Turns(s, "ready") /\ rec = NoRecord
            \/ /\ rec # NoRecord /\ Valid(rec) /\ BoundaryAbsent(rec)
               /\ \/ Turns(s, "stale-power") /\ rec.perf # "none"
                  \/ Turns(s, "stale-input") /\ rec.perf = "none"
            \/ Turns(s, "cleanup")
<1>1. SessionType /\ budget \in Spent
  BY PlacesAt
<1>2. /\ pc[s] = "locked" /\ UNCHANGED <<mem, helper, unit, slock, rec, world, ghosts, journaled>>
      /\ Enter(s, "preflight") /\ (Fine \/ Fault)
      /\ \/ rec = NoRecord /\ Goto(s, "ready")
         \/ rec # NoRecord /\ Valid(rec) /\ BoundaryAbsent(rec)
            /\ Goto(s, IF rec.perf # "none" THEN "stale-power" ELSE "stale-input")
         \/ Goto(s, "cleanup")
  BY DEF Preflight
<1>3. {"ready", "stale-power", "stale-input", "cleanup"} \subseteq PCs /\ "preflight" \in Phases
  BY DEF PCs, Phases
<1>4. Recalls(s, mem[s]) /\ Idle(s) /\ Still /\ budget' \in Spent
  BY <1>1, <1>2, StaysPut, IdleIs, StillIs, FaultType
<1>5. Phased(s, "preflight")
  BY <1>1, <1>2, <1>3, EnterDoes
<1> QED  BY <1>1, <1>2, <1>3, <1>4, <1>5, GotoDoes

LEMMA StalePowerDoes ==
  ASSUME Places, NEW s \in Sessions, StalePower(s)
  PROVE  /\ pc[s] = "stale-power" /\ Recalls(s, mem[s]) /\ Phased(s, phase[s]) /\ Idle(s) /\ Still
         /\ ghosts' = ghosts /\ slock' = slock /\ budget' \in Spent
         /\ \/ Turns(s, "stale-set") /\ power = "performance"
            \/ Turns(s, "stale-journal") /\ power # "performance"
            \/ Turns(s, "cleanup")
<1>1. SessionType /\ budget \in Spent
  BY PlacesAt
<1>2. /\ pc[s] = "stale-power" /\ UNCHANGED <<phase, mem, helper, unit, slock, rec, world, ghosts, journaled>>
      /\ Fine \/ Fault
      /\ \/ Goto(s, IF power = "performance" THEN "stale-set" ELSE "stale-journal")
         \/ Goto(s, "cleanup")
  BY DEF StalePower
<1>3. {"stale-set", "stale-journal", "cleanup"} \subseteq PCs
  BY DEF PCs
<1>4. Recalls(s, mem[s]) /\ Phased(s, phase[s]) /\ Idle(s) /\ Still /\ budget' \in Spent
  BY <1>1, <1>2, StaysPut, IdleIs, StillIs, FaultType
<1> QED  BY <1>1, <1>2, <1>3, <1>4, GotoDoes

LEMMA StaleRecord ==
  ASSUME Places, NEW s \in Sessions, pc[s] \in Stale
  PROVE  rec \in Records /\ rec # NoRecord /\ rec.lease \in Tokens /\ rec.previous \in Modes
         /\ rec.perf \in Powers \cup {"none"} /\ (pc[s] \in Lowering => rec.perf \in Powers)
<1>1. rec # NoRecord /\ (pc[s] \in Lowering => rec.perf # "none")
  BY DEF Places, Stales, Lowering
<1>2. rec \in Records
  BY <1>1, PlacesAt DEF JournalType
<1> QED  BY <1>1, <1>2, RecordIs

LEMMA StaleSetDoes ==
  ASSUME Places, NEW s \in Sessions, StaleSet(s)
  PROVE  /\ pc[s] = "stale-set" /\ Recalls(s, mem[s]) /\ Phased(s, phase[s]) /\ Idle(s) /\ JournalStays
         /\ UNCHANGED <<pad, fresh, ghosts, slock>> /\ budget' \in Spent /\ rec.perf \in Powers
         /\ \/ Turns(s, "stale-journal") /\ PowerStep(rec.perf, "restore") /\ orphans' = orphans
            \/ /\ Turns(s, "cleanup")
               /\ PowerStep(rec.perf, "restore") \/ UNCHANGED <<power, powerBy>>
               /\ orphans' \subseteq Orphans
               /\ orphans' = orphans \/ orphans' = orphans \cup {<<"power", 0, rec.perf>>}
<1>1. SessionType /\ budget \in Spent /\ OrphanType
  BY PlacesAt
<1>2. pc[s] = "stale-set" /\ UNCHANGED <<phase, mem, helper, unit, slock, rec, pad, fresh, ghosts, journaled>>
  BY DEF StaleSet
<1>3. {"stale-journal", "cleanup"} \subseteq PCs /\ rec.perf \in Powers
  BY <1>2, StaleRecord DEF PCs, Stale, Lowering
<1>4. Recalls(s, mem[s]) /\ Phased(s, phase[s]) /\ Idle(s) /\ JournalStays
  BY <1>1, <1>2, StaysPut, IdleIs DEF JournalStays
<1>5. CASE SetsPower(rec.perf, "restore") /\ Fine /\ Goto(s, "stale-journal")
  BY <1>1, <1>2, <1>3, <1>4, <1>5, FaultType, GotoDoes DEF SetsPower, SetPower, PowerStep
<1>6. CASE PowerFails(rec.perf, "restore") /\ Goto(s, "cleanup")
  BY <1>1, <1>2, <1>3, <1>4, <1>6, PowerFailsDoes, GotoDoes
<1> QED  BY <1>5, <1>6 DEF StaleSet

\* The journal without its power profile.
Settled == /\ rec' \in Records /\ rec'.perf = "none" /\ rec'.by = rec.by /\ rec'.lease = rec.lease
           /\ rec'.unit = rec.unit /\ rec'.scope = rec.scope /\ rec'.phase = rec.phase
           /\ journaled' = journaled

LEMMA StaleJournalDoes ==
  ASSUME Places, NEW s \in Sessions, StaleJournal(s)
  PROVE  /\ pc[s] = "stale-journal" /\ Recalls(s, mem[s]) /\ Phased(s, phase[s]) /\ Idle(s)
         /\ UNCHANGED world /\ ghosts' = ghosts /\ slock' = slock /\ budget' \in Spent
         /\ \/ Turns(s, "stale-input") /\ Settled
            \/ Turns(s, "cleanup") /\ (JournalStays \/ Settled)
<1>1. SessionType /\ budget \in Spent
  BY PlacesAt
<1>2. pc[s] = "stale-journal" /\ UNCHANGED <<phase, mem, helper, unit, slock, world, ghosts, journaled>>
  BY DEF StaleJournal
<1>3. {"stale-input", "cleanup"} \subseteq PCs /\ rec \in Records
  BY <1>2, StaleRecord DEF PCs, Stale, Lowering
<1>4. Recalls(s, mem[s]) /\ Phased(s, phase[s]) /\ Idle(s)
  BY <1>1, <1>2, StaysPut, IdleIs
<1>5. rec' = [rec EXCEPT !.perf = "none"] => Settled
  BY <1>2, <1>3 DEF Settled, Records
<1>6. budget' \in Spent
  BY <1>1, FaultType DEF StaleJournal
<1>7. CASE rec' = [rec EXCEPT !.perf = "none"] /\ Goto(s, "stale-input")
  BY <1>1, <1>2, <1>3, <1>4, <1>5, <1>6, <1>7, GotoDoes
<1>8. CASE rec' \in {rec, [rec EXCEPT !.perf = "none"]} /\ Goto(s, "cleanup")
  <2>1. rec' = rec \/ rec' = [rec EXCEPT !.perf = "none"]
    BY <1>8
  <2>2. JournalStays \/ Settled
    BY <1>2, <1>5, <2>1 DEF JournalStays
  <2>3. Turns(s, "cleanup")
    BY <1>1, <1>3, <1>8, GotoDoes
  <2> QED  BY <1>2, <1>4, <1>6, <2>2, <2>3
<1> QED  BY <1>7, <1>8 DEF StaleJournal

LEMMA StaleInputDoes ==
  ASSUME Places, NEW s \in Sessions, StaleInput(s)
  PROVE  /\ pc[s] = "stale-input" /\ Recalls(s, mem[s]) /\ Phased(s, phase[s]) /\ Idle(s) /\ JournalStays
         /\ UNCHANGED <<power, powerBy, orphans, ghosts, slock>> /\ budget' \in Spent
         /\ PadYields(rec.lease)
         /\ Turns(s, "cleanup") \/ (Turns(s, "stale-unlink") /\ pad'.token # rec.lease)
<1>1. SessionType /\ budget \in Spent /\ PadType /\ pad.token \leq fresh
  BY PlacesAt
<1>2. pc[s] = "stale-input"
      /\ UNCHANGED <<phase, mem, helper, unit, slock, rec, power, powerBy, orphans, ghosts, journaled>>
  BY DEF StaleInput
<1>3. {"stale-unlink", "cleanup"} \subseteq PCs /\ rec.lease \in Tokens /\ rec.previous \in Modes
  BY <1>2, StaleRecord DEF PCs, Stale, Lowering
<1>4. Recalls(s, mem[s]) /\ Phased(s, phase[s]) /\ Idle(s) /\ JournalStays
  BY <1>1, <1>2, StaysPut, IdleIs DEF JournalStays
<1>5. CASE Recovered(rec.lease, rec.previous) /\ Fine /\ Goto(s, "stale-unlink")
  BY <1>1, <1>2, <1>3, <1>4, <1>5, FaultType, GotoDoes, RecoveredDoes
<1>6. CASE RecoveryFails(rec.lease, rec.previous) /\ Goto(s, "cleanup")
  BY <1>1, <1>2, <1>3, <1>4, <1>6, RecoveryFailsDoes, GotoDoes
<1> QED  BY <1>5, <1>6 DEF StaleInput

LEMMA StaleUnlinkDoes ==
  ASSUME Places, NEW s \in Sessions, StaleUnlink(s)
  PROVE  /\ pc[s] = "stale-unlink" /\ Recalls(s, mem[s]) /\ Phased(s, phase[s]) /\ Idle(s)
         /\ UNCHANGED world /\ ghosts' = ghosts /\ slock' = slock /\ budget' \in Spent
         /\ journaled' = journaled
         /\ (Turns(s, "ready") /\ rec' = NoRecord) \/ (Turns(s, "cleanup") /\ rec' = rec)
<1>1. SessionType /\ budget \in Spent
  BY PlacesAt
<1>2. pc[s] = "stale-unlink" /\ UNCHANGED <<phase, mem, helper, unit, slock, world, ghosts, journaled>>
  BY DEF StaleUnlink
<1>3. {"ready", "cleanup"} \subseteq PCs
  BY DEF PCs
<1>4. Recalls(s, mem[s]) /\ Phased(s, phase[s]) /\ Idle(s)
  BY <1>1, <1>2, StaysPut, IdleIs
<1> QED  BY <1>1, <1>2, <1>3, <1>4, FaultType, GotoDoes DEF StaleUnlink

LEMMA StartAcquireDoes ==
  ASSUME Places, NEW s \in Sessions, StartAcquire(s)
  PROVE  /\ pc[s] = "ready" /\ Recalls(s, mem[s]) /\ Scoped(s, unit[s]) /\ Still
         /\ ghosts' = ghosts /\ slock' = slock /\ budget' \in Spent
         /\ \/ /\ Turns(s, "cleanup") /\ Helped(s, helper[s])
               /\ Phased(s, phase[s]) \/ Phased(s, "acquiring-input")
            \/ /\ Turns(s, "acquiring") /\ Phased(s, "acquiring-input")
               /\ \E h \in Helpers : /\ Helped(s, h) /\ h.state = "started" /\ h.token = helper[s].token
                                     /\ h.sent = helper[s].sent
<1>1. SessionType /\ budget \in Spent
  BY PlacesAt
<1>2. /\ pc[s] = "ready" /\ UNCHANGED <<mem, unit, slock, rec, world, ghosts, journaled>>
      /\ \/ Goto(s, "cleanup") /\ UNCHANGED helper /\ (UNCHANGED phase \/ Enter(s, "acquiring-input"))
         \/ /\ Goto(s, "acquiring") /\ Enter(s, "acquiring-input")
            /\ helper' = [helper EXCEPT ![s].state = "started"]
  BY DEF StartAcquire
<1>3. {"acquiring", "cleanup"} \subseteq PCs /\ "acquiring-input" \in Phases /\ "started" \in HelperStates
  BY DEF PCs, Phases, HelperStates
<1>4. Recalls(s, mem[s]) /\ Scoped(s, unit[s]) /\ Still
  BY <1>1, <1>2, StaysPut, StillIs
<1>5. budget' \in Spent
  BY <1>1, FaultType DEF StartAcquire
<1>6. CASE Goto(s, "cleanup") /\ UNCHANGED helper /\ (UNCHANGED phase \/ Enter(s, "acquiring-input"))
  BY <1>1, <1>2, <1>3, <1>4, <1>5, <1>6, GotoDoes, EnterDoes, StaysPut
<1>7. CASE /\ Goto(s, "acquiring") /\ Enter(s, "acquiring-input")
           /\ helper' = [helper EXCEPT ![s].state = "started"]
  <2>1. \E h \in Helpers : /\ Helped(s, h) /\ h.state = "started" /\ h.token = helper[s].token
                           /\ h.sent = helper[s].sent
    BY <1>1, <1>3, <1>7, StateDoes
  <2> QED  BY <1>1, <1>2, <1>3, <1>4, <1>5, <1>7, <2>1, GotoDoes, EnterDoes
<1> QED  BY <1>2, <1>6, <1>7

\* The acquire helper is over, and what it had said is still in the pipe.
Over(s) == \E h \in Helpers : /\ Helped(s, h) /\ h.state \in {"ok", "failed"}
                              /\ h.token = helper[s].token /\ h.sent = helper[s].sent
                              /\ h.state = "ok" => helper[s].state = "ok"

LEMMA TerminateDoes == ASSUME SessionType, NEW s \in Sessions, Terminate(s) PROVE Over(s)
<1> DEFINE x == IF Ended(s) THEN helper[s].state ELSE "failed"
<1>1. helper[s].state \in HelperStates
  BY HelperIs DEF SessionType
<1>2. /\ x \in HelperStates /\ x \in {"ok", "failed"} /\ (x = "ok" => helper[s].state = "ok")
  BY <1>1 DEF Ended, HelperStates
<1>3. helper' = [helper EXCEPT ![s].state = x]
  BY DEF Terminate
<1> HIDE DEF x
<1>4. /\ Helped(s, helper'[s]) /\ helper'[s] \in Helpers /\ helper'[s].state = x
      /\ helper'[s].token = helper[s].token /\ helper'[s].sent = helper[s].sent
  BY <1>2, <1>3, StateDoes
<1> QED  BY <1>2, <1>4 DEF Over

LEMMA ReadReceiptDoes ==
  ASSUME Places, NEW s \in Sessions, ReadReceipt(s)
  PROVE  /\ pc[s] = "acquiring" /\ helper[s].sent /\ mem[s].lease = 0
         /\ Phased(s, phase[s]) /\ Scoped(s, unit[s]) /\ UNCHANGED world
         /\ ghosts' = ghosts /\ slock' = slock /\ budget' \in Spent
         /\ \E m \in Memories, n \in Memories :
              /\ m.lease = helper[s].token /\ m.written = mem[s].written
              /\ SameUnit(m, mem[s]) /\ SameGame(m, mem[s]) /\ SameRest(m, mem[s])
              /\ \/ /\ Turns(s, "acquiring") /\ Helped(s, helper[s])
                    /\ JournalSays(s, m) /\ rec'.phase = "acquiring-input"
                    /\ Recalls(s, n) /\ n.written = "acquiring-input"
                    /\ SameLease(n, m) /\ SameUnit(n, m) /\ SameGame(n, m) /\ SameRest(n, m)
                 \/ /\ Turns(s, "cleanup") /\ Over(s) /\ Recalls(s, m)
                    /\ JournalStays \/ (JournalSays(s, m) /\ rec'.phase = "acquiring-input")
<1>1. SessionType /\ budget \in Spent /\ mem[s] \in Memories
  BY PlacesAt
<1>2. /\ pc[s] = "acquiring" /\ helper[s].sent /\ mem[s].lease = 0
      /\ UNCHANGED <<phase, unit, slock, world, ghosts>>
  BY DEF ReadReceipt
<1>3. "cleanup" \in PCs /\ "acquiring-input" \in RecordPhases
  BY DEF PCs, RecordPhases
<1>4. Phased(s, phase[s]) /\ Scoped(s, unit[s])
  BY <1>1, <1>2, StaysPut
<1>5. PICK m \in Memories : m = Received(s)
  BY <1>1, ReceivedIs
<1>6. /\ m.lease = helper[s].token /\ m.written = mem[s].written
      /\ SameUnit(m, mem[s]) /\ SameGame(m, mem[s]) /\ SameRest(m, mem[s])
  BY <1>1, <1>5, ReceivedIs
<1>7. CASE WriteRecord(s, m, "acquiring-input") /\ UNCHANGED <<pc, helper>>
  <2>1. PICK n \in Memories : /\ Recalls(s, n) /\ n.written = "acquiring-input" /\ SameLease(n, m)
                              /\ SameUnit(n, m) /\ SameGame(n, m) /\ SameRest(n, m)
    BY <1>1, <1>3, <1>7, WriteDoes
  <2>2. JournalSays(s, m) /\ rec'.phase = "acquiring-input" /\ Fine
    BY <1>1, <1>3, <1>7, WriteDoes
  <2>3. Turns(s, "acquiring") /\ Helped(s, helper[s])
    BY <1>1, <1>2, <1>7, StaysPut
  <2> QED  BY <1>1, <1>2, <1>4, <1>6, <2>1, <2>2, <2>3, FaultType
<1>8. CASE WriteFails(s, m, "acquiring-input", m) /\ Terminate(s) /\ Goto(s, "cleanup")
  <2>1. Fault /\ (JournalStays \/ (JournalSays(s, m) /\ rec'.phase = "acquiring-input")) /\ Recalls(s, m)
    BY <1>1, <1>3, <1>8, WriteFailsDoes
  <2>2. Turns(s, "cleanup") /\ Over(s)
    BY <1>1, <1>3, <1>8, GotoDoes, TerminateDoes
  <2> QED  BY <1>1, <1>2, <1>4, <1>6, <2>1, <2>2, FaultType
<1> QED  BY <1>5, <1>7, <1>8 DEF ReadReceipt

LEMMA AcquireEndsDoes ==
  ASSUME Places, NEW s \in Sessions, AcquireEnds(s)
  PROVE  /\ pc[s] = "acquiring" /\ Recalls(s, mem[s]) /\ Idle(s) /\ Still
         /\ helper[s].state \in {"ok", "failed"} /\ (helper[s].sent => mem[s].lease # 0)
         /\ ghosts' = ghosts /\ slock' = slock /\ budget' \in Spent
         /\ \/ Turns(s, "owned") /\ Phased(s, "input-owned") /\ helper[s].state = "ok"
            \/ Turns(s, "cleanup") /\ Phased(s, phase[s])
<1>1. SessionType /\ budget \in Spent
  BY PlacesAt
<1>2. /\ pc[s] = "acquiring" /\ Ended(s) /\ (helper[s].sent => mem[s].lease # 0)
      /\ UNCHANGED <<mem, helper, unit, slock, rec, world, ghosts, journaled>>
      /\ \/ helper[s].state = "ok" /\ Goto(s, "owned") /\ Enter(s, "input-owned")
         \/ Goto(s, "cleanup") /\ UNCHANGED phase
  BY DEF AcquireEnds
<1>3. {"owned", "cleanup"} \subseteq PCs /\ "input-owned" \in Phases
  BY DEF PCs, Phases
<1>4. Recalls(s, mem[s]) /\ Idle(s) /\ Still
  BY <1>1, <1>2, StaysPut, IdleIs, StillIs
<1>5. budget' \in Spent
  BY <1>1, FaultType DEF AcquireEnds
<1> QED  BY <1>1, <1>2, <1>3, <1>4, <1>5, GotoDoes, EnterDoes, StaysPut DEF Ended

LEMMA AcquireStopsDoes ==
  ASSUME Places, NEW s \in Sessions, AcquireStops(s)
  PROVE  /\ pc[s] = "acquiring" /\ Recalls(s, mem[s]) /\ Phased(s, phase[s]) /\ Scoped(s, unit[s]) /\ Still
         /\ Over(s) /\ ghosts' = ghosts /\ slock' = slock /\ budget' \in Spent
         /\ Turns(s, "acquiring") \/ Turns(s, "cleanup")
<1>1. SessionType /\ budget \in Spent
  BY PlacesAt
<1>2. /\ pc[s] = "acquiring" /\ UNCHANGED <<phase, mem, unit, slock, rec, world, ghosts, journaled>>
      /\ Terminate(s) /\ (UNCHANGED pc \/ Goto(s, "cleanup"))
  BY DEF AcquireStops
<1>3. "cleanup" \in PCs
  BY DEF PCs
<1>4. Recalls(s, mem[s]) /\ Phased(s, phase[s]) /\ Scoped(s, unit[s]) /\ Still
  BY <1>1, <1>2, StaysPut, StillIs
<1>5. budget' \in Spent
  BY <1>1, FaultType DEF AcquireStops
<1> QED  BY <1>1, <1>2, <1>3, <1>4, <1>5, GotoDoes, StaysPut, TerminateDoes

LEMMA BoostDoes ==
  ASSUME Places, NEW s \in Sessions, Boost(s)
  PROVE  /\ pc[s] = "owned" /\ Phased(s, phase[s]) /\ Idle(s) /\ UNCHANGED world
         /\ ghosts' = ghosts /\ slock' = slock /\ budget' \in Spent
         /\ \/ (Turns(s, "cleanup") \/ Turns(s, "launch")) /\ Recalls(s, mem[s]) /\ JournalStays
            \/ \E m \in Memories, n \in Memories :
                 /\ m.boost = power /\ power # "performance" /\ m.kept = mem[s].kept
                 /\ m.written = mem[s].written
                 /\ SameLease(m, mem[s]) /\ SameUnit(m, mem[s]) /\ SameGame(m, mem[s])
                 /\ \/ /\ Turns(s, "boosting") /\ JournalSays(s, m) /\ rec'.phase = mem[s].written
                       /\ Recalls(s, n) /\ n.written = mem[s].written
                       /\ SameLease(n, m) /\ SameUnit(n, m) /\ SameGame(n, m) /\ SameRest(n, m)
                    \/ /\ Turns(s, "launch") /\ Recalls(s, mem[s])
                       /\ JournalStays \/ (JournalSays(s, m) /\ rec'.phase = mem[s].written)
<1>1. SessionType /\ budget \in Spent /\ mem[s] \in Memories /\ power \in Powers
  BY PlacesAt DEF PowerType
<1>2. pc[s] = "owned" /\ UNCHANGED <<phase, helper, unit, slock, world, ghosts>>
  BY DEF Boost
<1>3. {"cleanup", "launch", "boosting"} \subseteq PCs /\ mem[s].written \in RecordPhases
  BY <1>2, PlacesAt DEF PCs, Sound, Remembers, RecordPhases
<1>4. Phased(s, phase[s]) /\ Idle(s)
  BY <1>1, <1>2, StaysPut, IdleIs
<1>5. PICK m : m = [mem[s] EXCEPT !.boost = power]
  OBVIOUS
<1>6. /\ m \in Memories /\ m.boost = power /\ m.kept = mem[s].kept /\ m.written = mem[s].written
      /\ SameLease(m, mem[s]) /\ SameUnit(m, mem[s]) /\ SameGame(m, mem[s])
  BY <1>1, <1>5, BoostIs
<1>7. budget' \in Spent
  BY <1>1, FaultType DEF Boost, WriteRecord, WriteFails
<1>8. CASE (Goto(s, "cleanup") \/ Goto(s, "launch")) /\ NoRecordChange /\ UNCHANGED mem
  <2>1. (Turns(s, "cleanup") \/ Turns(s, "launch")) /\ Recalls(s, mem[s]) /\ JournalStays
    BY <1>1, <1>3, <1>8, GotoDoes, StaysPut DEF NoRecordChange, JournalStays
  <2> QED  BY <1>2, <1>4, <1>7, <2>1
<1>9. CASE power # "performance" /\ WriteRecord(s, m, mem[s].written) /\ Goto(s, "boosting")
  <2>1. PICK n \in Memories : /\ Recalls(s, n) /\ n.written = mem[s].written /\ SameLease(n, m)
                              /\ SameUnit(n, m) /\ SameGame(n, m) /\ SameRest(n, m)
    BY <1>1, <1>3, <1>6, <1>9, WriteDoes
  <2>2. JournalSays(s, m) /\ rec'.phase = mem[s].written /\ Turns(s, "boosting")
    BY <1>1, <1>3, <1>6, <1>9, WriteDoes, GotoDoes
  <2> QED  BY <1>2, <1>4, <1>6, <1>7, <1>9, <2>1, <2>2
<1>10. CASE power # "performance" /\ WriteFails(s, m, mem[s].written, mem[s]) /\ Goto(s, "launch")
  <2>1. (JournalStays \/ (JournalSays(s, m) /\ rec'.phase = mem[s].written)) /\ Recalls(s, mem[s])
    BY <1>1, <1>3, <1>6, <1>10, WriteFailsDoes
  <2>2. Turns(s, "launch")
    BY <1>1, <1>3, <1>10, GotoDoes
  <2> QED  BY <1>1, <1>2, <1>4, <1>6, <1>7, <1>10, <2>1, <2>2
<1> QED  BY <1>5, <1>8, <1>9, <1>10 DEF Boost

LEMMA ApplyBoostDoes ==
  ASSUME Places, NEW s \in Sessions, ApplyBoost(s)
  PROVE  /\ pc[s] = "boosting" /\ Turns(s, "launch") /\ Recalls(s, mem[s]) /\ Phased(s, phase[s]) /\ Idle(s)
         /\ JournalStays /\ UNCHANGED <<pad, fresh, ghosts, slock>> /\ budget' \in Spent
         /\ PowerStep("performance", s) \/ UNCHANGED <<power, powerBy>>
         /\ orphans' \subseteq Orphans
         /\ orphans' = orphans \/ orphans' = orphans \cup {<<"power", 0, "performance">>}
<1>1. SessionType /\ budget \in Spent /\ OrphanType
  BY PlacesAt
<1>2. /\ pc[s] = "boosting" /\ Goto(s, "launch")
      /\ UNCHANGED <<phase, mem, helper, unit, slock, rec, pad, fresh, ghosts, journaled>>
  BY DEF ApplyBoost
<1>3. "launch" \in PCs /\ "performance" \in Powers
  BY DEF PCs, Powers
<1>4. Turns(s, "launch") /\ Recalls(s, mem[s]) /\ Phased(s, phase[s]) /\ Idle(s) /\ JournalStays
  BY <1>1, <1>2, <1>3, GotoDoes, StaysPut, IdleIs DEF JournalStays
<1>5. CASE SetsPower("performance", s) /\ Fine
  BY <1>1, <1>2, <1>4, <1>5, FaultType DEF SetsPower, SetPower, PowerStep, OrphanType
<1>6. CASE PowerFails("performance", s)
  BY <1>1, <1>2, <1>3, <1>4, <1>6, PowerFailsDoes
<1> QED  BY <1>5, <1>6 DEF ApplyBoost

LEMMA JournalLaunchDoes ==
  ASSUME Places, NEW s \in Sessions, JournalLaunch(s)
  PROVE  /\ pc[s] = "launch" /\ Idle(s) /\ UNCHANGED world
         /\ ghosts' = ghosts /\ slock' = slock /\ budget' \in Spent
         /\ \/ Turns(s, "cleanup") /\ Phased(s, phase[s]) /\ Recalls(s, mem[s]) /\ JournalStays
            \/ \E m \in Memories, n \in Memories :
                 /\ Phased(s, "starting-backend")
                 /\ m.unit /\ m.scope = mem[s].scope /\ m.written = mem[s].written
                 /\ SameLease(m, mem[s]) /\ SameGame(m, mem[s]) /\ SameRest(m, mem[s])
                 /\ \/ /\ Turns(s, "popen") /\ JournalSays(s, m) /\ rec'.phase = "starting"
                       /\ Recalls(s, n) /\ n.written = "starting"
                       /\ SameLease(n, m) /\ SameUnit(n, m) /\ SameGame(n, m) /\ SameRest(n, m)
                    \/ /\ Turns(s, "cleanup") /\ Recalls(s, m)
                       /\ JournalStays \/ (JournalSays(s, m) /\ rec'.phase = "starting")
<1>1. SessionType /\ budget \in Spent /\ mem[s] \in Memories
  BY PlacesAt
<1>2. pc[s] = "launch" /\ UNCHANGED <<helper, unit, slock, world, ghosts>>
  BY DEF JournalLaunch
<1>3. {"cleanup", "popen"} \subseteq PCs /\ "starting" \in RecordPhases /\ "starting-backend" \in Phases
  BY DEF PCs, RecordPhases, Phases
<1>4. Idle(s)
  BY <1>1, <1>2, IdleIs
<1>5. PICK m : m = [mem[s] EXCEPT !.unit = TRUE]
  OBVIOUS
<1>6. /\ m \in Memories /\ m.unit /\ m.scope = mem[s].scope /\ m.written = mem[s].written
      /\ SameLease(m, mem[s]) /\ SameGame(m, mem[s]) /\ SameRest(m, mem[s])
  BY <1>1, <1>5, UnitIs
<1>7. budget' \in Spent
  BY <1>1, FaultType DEF JournalLaunch, WriteRecord, WriteFails
<1>8. CASE Goto(s, "cleanup") /\ NoRecordChange /\ UNCHANGED <<phase, mem>>
  <2>1. Turns(s, "cleanup") /\ Phased(s, phase[s]) /\ Recalls(s, mem[s]) /\ JournalStays
    BY <1>1, <1>3, <1>8, GotoDoes, StaysPut DEF NoRecordChange, JournalStays
  <2> QED  BY <1>2, <1>4, <1>7, <2>1
<1>9. CASE Enter(s, "starting-backend") /\ WriteRecord(s, m, "starting") /\ Goto(s, "popen")
  <2>1. PICK n \in Memories : /\ Recalls(s, n) /\ n.written = "starting" /\ SameLease(n, m)
                              /\ SameUnit(n, m) /\ SameGame(n, m) /\ SameRest(n, m)
    BY <1>1, <1>3, <1>6, <1>9, WriteDoes
  <2>2. JournalSays(s, m) /\ rec'.phase = "starting" /\ Turns(s, "popen") /\ Phased(s, "starting-backend")
    BY <1>1, <1>3, <1>6, <1>9, WriteDoes, GotoDoes, EnterDoes
  <2> QED  BY <1>2, <1>4, <1>6, <1>7, <2>1, <2>2
<1>10. CASE Enter(s, "starting-backend") /\ WriteFails(s, m, "starting", m) /\ Goto(s, "cleanup")
  <2>1. (JournalStays \/ (JournalSays(s, m) /\ rec'.phase = "starting")) /\ Recalls(s, m)
    BY <1>1, <1>3, <1>6, <1>10, WriteFailsDoes
  <2>2. Turns(s, "cleanup") /\ Phased(s, "starting-backend")
    BY <1>1, <1>3, <1>10, GotoDoes, EnterDoes
  <2> QED  BY <1>2, <1>4, <1>6, <1>7, <2>1, <2>2
<1> QED  BY <1>5, <1>8, <1>9, <1>10 DEF JournalLaunch

LEMMA PopenDoes ==
  ASSUME Places, NEW s \in Sessions, Popen(s)
  PROVE  /\ pc[s] = "popen" /\ Phased(s, phase[s]) /\ Helped(s, helper[s]) /\ Still
         /\ ghosts' = ghosts /\ slock' = slock /\ budget' \in Spent
         /\ \/ Turns(s, "cleanup") /\ Recalls(s, mem[s]) /\ Scoped(s, unit[s])
            \/ /\ Turns(s, "starting") /\ Scoped(s, "client")
               /\ \E n \in Memories : /\ Recalls(s, n) /\ n.client /\ n.quiesced = mem[s].quiesced
                                      /\ n.written = mem[s].written
                                      /\ SameLease(n, mem[s]) /\ SameUnit(n, mem[s]) /\ SameRest(n, mem[s])
<1>1. SessionType /\ budget \in Spent /\ mem[s] \in Memories
  BY PlacesAt
<1>2. /\ pc[s] = "popen" /\ UNCHANGED <<phase, helper, slock, rec, world, ghosts, journaled>>
      /\ \/ Goto(s, "cleanup") /\ UNCHANGED <<mem, unit>>
         \/ /\ Goto(s, "starting") /\ unit' = [unit EXCEPT ![s] = "client"]
            /\ Remember(s, [mem[s] EXCEPT !.client = TRUE])
  BY DEF Popen
<1>3. {"cleanup", "starting"} \subseteq PCs /\ "client" \in Units
  BY DEF PCs, Units
<1>4. Phased(s, phase[s]) /\ Helped(s, helper[s]) /\ Still
  BY <1>1, <1>2, StaysPut, StillIs
<1>5. budget' \in Spent
  BY <1>1, FaultType DEF Popen
<1>6. CASE Goto(s, "cleanup") /\ UNCHANGED <<mem, unit>>
  BY <1>1, <1>2, <1>3, <1>4, <1>5, <1>6, GotoDoes, StaysPut
<1>7. CASE /\ Goto(s, "starting") /\ unit' = [unit EXCEPT ![s] = "client"]
           /\ Remember(s, [mem[s] EXCEPT !.client = TRUE])
  <2>1. PICK n : n = [mem[s] EXCEPT !.client = TRUE]
    OBVIOUS
  <2>2. /\ n \in Memories /\ n.client = TRUE /\ n.quiesced = mem[s].quiesced /\ n.written = mem[s].written
        /\ SameLease(n, mem[s]) /\ SameUnit(n, mem[s]) /\ SameRest(n, mem[s])
    BY <1>1, <2>1, ClientIs
  <2>3. Remember(s, n)
    BY <1>7, <2>1
  <2>4. Recalls(s, n) /\ Turns(s, "starting")
    BY <1>1, <1>3, <1>7, <2>2, <2>3, RememberDoes, GotoDoes
  <2>5. Scoped(s, "client")
    BY <1>1, <1>3, <1>7 DEF SessionType, Scoped
  <2> QED  BY <1>2, <1>4, <1>5, <2>2, <2>4, <2>5
<1> QED  BY <1>2, <1>6, <1>7

\* The game is known to be gone.
Quiet(s) == \E n \in Memories : /\ Recalls(s, n) /\ n.quiesced /\ n.client = mem[s].client
                                /\ n.written = mem[s].written
                                /\ SameLease(n, mem[s]) /\ SameUnit(n, mem[s]) /\ SameRest(n, mem[s])

LEMMA QuiesceDoes == ASSUME SessionType, NEW s \in Sessions, Quiesce(s) PROVE Quiet(s)
<1>1. PICK n : n = [mem[s] EXCEPT !.quiesced = TRUE]
  OBVIOUS
<1>2. mem[s] \in Memories
  BY AtIs
<1>3. n \in Memories /\ n.quiesced /\ n.client = mem[s].client /\ n.written = mem[s].written
      /\ SameLease(n, mem[s]) /\ SameUnit(n, mem[s]) /\ SameRest(n, mem[s])
  BY <1>1, <1>2, QuiescedIs
<1>4. Recalls(s, n)
  BY <1>1, <1>3, RememberDoes DEF Quiesce
<1> QED  BY <1>3, <1>4 DEF Quiet

LEMMA AwaitScopeDoes ==
  ASSUME Places, NEW s \in Sessions, AwaitScope(s)
  PROVE  /\ pc[s] = "starting" /\ Idle(s) /\ UNCHANGED world
         /\ ghosts' = ghosts /\ slock' = slock /\ budget' \in Spent
         /\ \/ Turns(s, "stopping") /\ Phased(s, "stopping") /\ Recalls(s, mem[s]) /\ JournalStays
            \/ unit[s] = "gone" /\ Turns(s, "cleanup") /\ Phased(s, phase[s]) /\ Quiet(s) /\ JournalStays
            \/ \E m \in Memories, n \in Memories :
                 /\ m.scope /\ m.unit = mem[s].unit /\ m.written = mem[s].written
                 /\ SameLease(m, mem[s]) /\ SameGame(m, mem[s]) /\ SameRest(m, mem[s])
                 /\ \/ /\ Turns(s, "running") /\ Phased(s, "running")
                       /\ JournalSays(s, m) /\ rec'.phase = "running"
                       /\ Recalls(s, n) /\ n.written = "running"
                       /\ SameLease(n, m) /\ SameUnit(n, m) /\ SameGame(n, m) /\ SameRest(n, m)
                    \/ /\ Turns(s, "cleanup") /\ Phased(s, phase[s]) /\ Recalls(s, m)
                       /\ JournalStays \/ (JournalSays(s, m) /\ rec'.phase = "running")
<1>1. SessionType /\ budget \in Spent /\ mem[s] \in Memories
  BY PlacesAt
<1>2. pc[s] = "starting" /\ UNCHANGED <<helper, unit, slock, world, ghosts>>
  BY DEF AwaitScope
<1>3. /\ {"cleanup", "running", "stopping"} \subseteq PCs /\ "running" \in RecordPhases
      /\ {"running", "stopping"} \subseteq Phases
  BY DEF PCs, RecordPhases, Phases
<1>4. Idle(s)
  BY <1>1, <1>2, IdleIs
<1>5. PICK m : m = [mem[s] EXCEPT !.scope = TRUE]
  OBVIOUS
<1>6. /\ m \in Memories /\ m.scope /\ m.unit = mem[s].unit /\ m.written = mem[s].written
      /\ SameLease(m, mem[s]) /\ SameGame(m, mem[s]) /\ SameRest(m, mem[s])
  BY <1>1, <1>5, ScopeIs
<1>7. budget' \in Spent
  BY <1>1, FaultType DEF AwaitScope, WriteRecord, WriteFails
<1>8. CASE Goto(s, "stopping") /\ Enter(s, "stopping") /\ NoRecordChange /\ UNCHANGED mem
  <2>1. Turns(s, "stopping") /\ Phased(s, "stopping") /\ Recalls(s, mem[s]) /\ JournalStays
    BY <1>1, <1>3, <1>8, GotoDoes, EnterDoes, StaysPut DEF NoRecordChange, JournalStays
  <2> QED  BY <1>2, <1>4, <1>7, <2>1
<1>9. CASE unit[s] = "gone" /\ Quiesce(s) /\ Goto(s, "cleanup") /\ NoRecordChange /\ UNCHANGED phase
  <2>1. Turns(s, "cleanup") /\ Phased(s, phase[s]) /\ Quiet(s) /\ JournalStays
    BY <1>1, <1>3, <1>9, GotoDoes, StaysPut, QuiesceDoes DEF NoRecordChange, JournalStays
  <2> QED  BY <1>2, <1>4, <1>7, <1>9, <2>1
<1>10. CASE WriteRecord(s, m, "running") /\ Goto(s, "running") /\ Enter(s, "running")
  <2>1. PICK n \in Memories : /\ Recalls(s, n) /\ n.written = "running" /\ SameLease(n, m)
                              /\ SameUnit(n, m) /\ SameGame(n, m) /\ SameRest(n, m)
    BY <1>1, <1>3, <1>6, <1>10, WriteDoes
  <2>2. JournalSays(s, m) /\ rec'.phase = "running" /\ Turns(s, "running") /\ Phased(s, "running")
    BY <1>1, <1>3, <1>6, <1>10, WriteDoes, GotoDoes, EnterDoes
  <2> QED  BY <1>2, <1>4, <1>6, <1>7, <2>1, <2>2
<1>11. CASE WriteFails(s, m, "running", m) /\ Goto(s, "cleanup") /\ UNCHANGED phase
  <2>1. (JournalStays \/ (JournalSays(s, m) /\ rec'.phase = "running")) /\ Recalls(s, m)
    BY <1>1, <1>3, <1>6, <1>11, WriteFailsDoes
  <2>2. Turns(s, "cleanup") /\ Phased(s, phase[s])
    BY <1>1, <1>3, <1>11, GotoDoes, StaysPut
  <2> QED  BY <1>2, <1>4, <1>6, <1>7, <2>1, <2>2
<1> QED  BY <1>5, <1>8, <1>9, <1>10, <1>11 DEF AwaitScope

LEMMA RunDoes ==
  ASSUME Places, NEW s \in Sessions, Run(s)
  PROVE  /\ pc[s] = "running" /\ Idle(s) /\ Still
         /\ ghosts' = ghosts /\ slock' = slock /\ budget' \in Spent
         /\ \/ unit[s] = "gone" /\ Turns(s, "cleanup") /\ Phased(s, phase[s]) /\ Quiet(s)
            \/ Turns(s, "stopping") /\ Phased(s, "stopping") /\ Recalls(s, mem[s])
<1>1. SessionType /\ budget \in Spent
  BY PlacesAt
<1>2. /\ pc[s] = "running" /\ UNCHANGED <<helper, unit, slock, rec, world, ghosts, journaled>> /\ Fine
      /\ \/ unit[s] = "gone" /\ Quiesce(s) /\ Goto(s, "cleanup") /\ UNCHANGED phase
         \/ Goto(s, "stopping") /\ Enter(s, "stopping") /\ UNCHANGED mem
  BY DEF Run
<1>3. {"cleanup", "stopping"} \subseteq PCs /\ "stopping" \in Phases
  BY DEF PCs, Phases
<1>4. Idle(s) /\ Still /\ budget' \in Spent
  BY <1>1, <1>2, IdleIs, StillIs, FaultType
<1> QED  BY <1>1, <1>2, <1>3, <1>4, GotoDoes, EnterDoes, StaysPut, QuiesceDoes

\* The game is gone and known to be, or nothing came of the attempt.
LEMMA StopNativeDoes ==
  ASSUME SessionType, budget \in Spent, NEW s \in Sessions, StopNative(s)
  PROVE  /\ budget' \in Spent
         /\ \/ Scoped(s, "gone") /\ Quiet(s)
            \/ unit[s] # "gone" /\ Scoped(s, unit[s]) /\ Recalls(s, mem[s])
<1>1. budget' \in Spent
  BY FaultType DEF StopNative
<1>2. CASE unit' = [unit EXCEPT ![s] = "gone"] /\ Quiesce(s)
  BY <1>1, <1>2, QuiesceDoes DEF SessionType, Scoped, Units
<1>3. CASE unit[s] # "gone" /\ UNCHANGED <<unit, mem>>
  BY <1>1, <1>3, StaysPut
<1> QED  BY <1>2, <1>3 DEF StopNative

LEMMA StopDoes ==
  ASSUME Places, NEW s \in Sessions, Stop(s)
  PROVE  /\ pc[s] = "stopping" /\ Turns(s, "cleanup") /\ Phased(s, phase[s]) /\ Helped(s, helper[s]) /\ Still
         /\ ghosts' = ghosts /\ slock' = slock /\ budget' \in Spent
         /\ \/ Scoped(s, "gone") /\ Quiet(s)
            \/ unit[s] # "gone" /\ Scoped(s, unit[s]) /\ Recalls(s, mem[s])
<1>1. SessionType /\ budget \in Spent
  BY PlacesAt
<1>2. /\ pc[s] = "stopping" /\ Goto(s, "cleanup") /\ StopNative(s)
      /\ UNCHANGED <<phase, helper, slock, rec, world, ghosts, journaled>>
  BY DEF Stop
<1>3. "cleanup" \in PCs
  BY DEF PCs
<1> QED  BY <1>1, <1>2, <1>3, GotoDoes, StaysPut, StillIs, StopNativeDoes

LEMMA CleanupDoes ==
  ASSUME Places, NEW s \in Sessions, Cleanup(s)
  PROVE  /\ pc[s] = "cleanup" /\ Helped(s, helper[s]) /\ Still /\ slock' = slock /\ budget' \in Spent
         /\ Phased(s, IF mem[s].client /\ phase[s] \in {"starting-backend", "running"} THEN "stopping"
                                                                                     ELSE phase[s])
         /\ ghosts' = IF unit'[s] = "client" THEN ghosts \cup {s} ELSE ghosts
         /\ \/ /\ mem[s].client => mem[s].quiesced
               /\ Turns(s, "power") /\ Scoped(s, unit[s]) /\ Recalls(s, mem[s])
            \/ mem[s].client /\ ~mem[s].quiesced /\ Turns(s, "power") /\ Scoped(s, "gone") /\ Quiet(s)
            \/ /\ mem[s].client /\ ~mem[s].quiesced /\ unit[s] # "gone"
               /\ Turns(s, "release") /\ Scoped(s, unit[s]) /\ Recalls(s, mem[s])
<1>1. SessionType /\ budget \in Spent /\ phase[s] \in Phases /\ mem[s] \in Memories
  BY PlacesAt
<1>2. /\ pc[s] = "cleanup" /\ UNCHANGED <<helper, slock, rec, world, journaled>>
      /\ ghosts' = IF unit'[s] = "client" THEN ghosts \cup {s} ELSE ghosts
  BY DEF Cleanup
<1>3. {"power", "release"} \subseteq PCs /\ "stopping" \in Phases
  BY DEF PCs, Phases
<1>4. Helped(s, helper[s]) /\ Still
  BY <1>1, <1>2, StaysPut, StillIs
<1>5. Phased(s, IF mem[s].client /\ phase[s] \in {"starting-backend", "running"} THEN "stopping"
                                                                               ELSE phase[s])
  BY <1>1, <1>3, EnterDoes, StaysPut DEF Cleanup
<1>6. CASE mem[s].client /\ ~mem[s].quiesced
  <2>1. StopNative(s)
    BY <1>6 DEF Cleanup
  <2>2. Goto(s, IF mem'[s].client /\ ~mem'[s].quiesced THEN "release" ELSE "power")
    BY DEF Cleanup
  <2>3. CASE Scoped(s, "gone") /\ Quiet(s)
    <3>1. mem'[s].quiesced
      BY <2>3 DEF Quiet, Recalls
    <3>2. Turns(s, "power")
      BY <1>1, <1>3, <2>2, <3>1, GotoDoes
    <3> QED  BY <1>1, <1>2, <1>4, <1>5, <1>6, <2>1, <2>3, <3>2, StopNativeDoes
  <2>4. CASE unit[s] # "gone" /\ Scoped(s, unit[s]) /\ Recalls(s, mem[s])
    <3>1. mem'[s].client /\ ~mem'[s].quiesced
      BY <1>6, <2>4 DEF Recalls
    <3>2. Turns(s, "release")
      BY <1>1, <1>3, <2>2, <3>1, GotoDoes
    <3> QED  BY <1>1, <1>2, <1>4, <1>5, <1>6, <2>1, <2>4, <3>2, StopNativeDoes
  <2> QED  BY <1>1, <2>1, <2>3, <2>4, StopNativeDoes
<1>7. CASE ~(mem[s].client /\ ~mem[s].quiesced)
  <2>1. Fine /\ UNCHANGED <<unit, mem>>
    BY <1>7 DEF Cleanup
  <2>2. Goto(s, IF mem'[s].client /\ ~mem'[s].quiesced THEN "release" ELSE "power")
    BY DEF Cleanup
  <2>3. Goto(s, "power")
    BY <1>7, <2>1, <2>2
  <2>4. Turns(s, "power") /\ Scoped(s, unit[s]) /\ Recalls(s, mem[s]) /\ budget' \in Spent
    BY <1>1, <1>3, <2>1, <2>3, GotoDoes, StaysPut, FaultType
  <2>5. mem[s].client => mem[s].quiesced
    BY <1>7
  <2> QED  BY <1>2, <1>4, <1>5, <2>4, <2>5
<1> QED  BY <1>6, <1>7

\* The session remembers that something was not undone.
Fails(s) == \E n \in Memories : /\ Recalls(s, n) /\ n.kept = TRUE /\ n.boost = mem[s].boost
                                /\ n.written = mem[s].written
                                /\ SameLease(n, mem[s]) /\ SameUnit(n, mem[s]) /\ SameGame(n, mem[s])

LEMMA KeptDoes ==
  ASSUME SessionType, NEW s \in Sessions
  PROVE  /\ Kept(s) \in Memories /\ (Remember(s, Kept(s)) => Fails(s))
         /\ Recalls(s, Kept(s)) => Fails(s)
<1>1. PICK n : n = Kept(s)
  OBVIOUS
<1>2. mem[s] \in Memories
  BY AtIs
<1>3. n = [mem[s] EXCEPT !.kept = TRUE]
  BY <1>1 DEF Kept
<1>4. /\ n \in Memories /\ n.kept = TRUE /\ n.boost = mem[s].boost /\ n.written = mem[s].written
      /\ SameLease(n, mem[s]) /\ SameUnit(n, mem[s]) /\ SameGame(n, mem[s])
  BY <1>2, <1>3, KeptIs
<1>5. Remember(s, n) => Recalls(s, n)
  BY <1>4, RememberDoes
<1>6. Recalls(s, n) => Fails(s)
  BY <1>4 DEF Fails
<1> QED  BY <1>1, <1>4, <1>5, <1>6

LEMMA RestorePowerDoes ==
  ASSUME Places, NEW s \in Sessions, RestorePower(s)
  PROVE  /\ pc[s] = "power" /\ Phased(s, phase[s]) /\ Idle(s) /\ Still
         /\ ghosts' = ghosts /\ slock' = slock /\ budget' \in Spent
         /\ \/ mem[s].boost = "none" /\ Turns(s, "restore") /\ Recalls(s, mem[s])
            \/ mem[s].boost # "none" /\ Turns(s, "unboost") /\ Recalls(s, mem[s]) /\ power = "performance"
            \/ mem[s].boost # "none" /\ Turns(s, "clear") /\ Recalls(s, mem[s]) /\ power # "performance"
            \/ mem[s].boost # "none" /\ Turns(s, "restore") /\ Fails(s)
<1>1. SessionType /\ budget \in Spent
  BY PlacesAt
<1>2. /\ pc[s] = "power" /\ UNCHANGED <<phase, helper, unit, slock, rec, world, ghosts, journaled>>
      /\ \/ mem[s].boost = "none" /\ Goto(s, "restore") /\ UNCHANGED mem
         \/ mem[s].boost # "none" /\ UNCHANGED mem
            /\ Goto(s, IF power = "performance" THEN "unboost" ELSE "clear")
         \/ mem[s].boost # "none" /\ Keep(s)
  BY DEF RestorePower
<1>3. {"restore", "unboost", "clear"} \subseteq PCs
  BY DEF PCs
<1>4. Phased(s, phase[s]) /\ Idle(s) /\ Still
  BY <1>1, <1>2, StaysPut, IdleIs, StillIs
<1>5. budget' \in Spent
  BY <1>1, FaultType DEF RestorePower
<1>6. Keep(s) => Turns(s, "restore") /\ Fails(s)
  BY <1>1, <1>3, GotoDoes, KeptDoes DEF Keep
<1> QED  BY <1>1, <1>2, <1>3, <1>4, <1>5, <1>6, GotoDoes, StaysPut

\* What is journaled and not yet restored is a profile.
LEMMA BoostAt ==
  ASSUME Places, NEW s \in Sessions, pc[s] \in {"unboost", "clear"}
  PROVE  mem[s].boost \in Powers /\ mem[s].written \in RecordPhases
<1>1. mem[s] \in Memories /\ Sound(pc[s], phase[s], mem[s], helper[s], unit[s])
  BY PlacesAt
<1> QED  BY <1>1, MemoryIs DEF Sound, Remembers, Whole

LEMMA UnboostDoes ==
  ASSUME Places, NEW s \in Sessions, Unboost(s)
  PROVE  /\ pc[s] = "unboost" /\ Phased(s, phase[s]) /\ Idle(s) /\ JournalStays
         /\ UNCHANGED <<pad, fresh, ghosts, slock>> /\ budget' \in Spent /\ mem[s].boost \in Powers
         /\ \/ /\ Turns(s, "clear") /\ Recalls(s, mem[s])
               /\ PowerStep(mem[s].boost, "restore") /\ orphans' = orphans
            \/ /\ Turns(s, "restore") /\ Fails(s)
               /\ PowerStep(mem[s].boost, "restore") \/ UNCHANGED <<power, powerBy>>
               /\ orphans' \subseteq Orphans
               /\ orphans' = orphans \/ orphans' = orphans \cup {<<"power", 0, mem[s].boost>>}
<1>1. SessionType /\ budget \in Spent /\ OrphanType
  BY PlacesAt
<1>2. pc[s] = "unboost" /\ UNCHANGED <<phase, helper, unit, slock, rec, pad, fresh, ghosts, journaled>>
  BY DEF Unboost
<1>3. {"clear", "restore"} \subseteq PCs /\ mem[s].boost \in Powers
  BY <1>2, BoostAt DEF PCs
<1>4. Phased(s, phase[s]) /\ Idle(s) /\ JournalStays
  BY <1>1, <1>2, StaysPut, IdleIs DEF JournalStays
<1>5. CASE SetsPower(mem[s].boost, "restore") /\ Fine /\ Goto(s, "clear") /\ UNCHANGED mem
  <2>1. Turns(s, "clear") /\ Recalls(s, mem[s]) /\ budget' \in Spent
    BY <1>1, <1>3, <1>5, GotoDoes, StaysPut, FaultType
  <2>2. PowerStep(mem[s].boost, "restore") /\ orphans' = orphans
    BY <1>5 DEF SetsPower, SetPower, PowerStep
  <2> QED  BY <1>2, <1>3, <1>4, <2>1, <2>2
<1>6. CASE PowerFails(mem[s].boost, "restore") /\ Keep(s)
  <2>1. Turns(s, "restore") /\ Fails(s)
    BY <1>1, <1>3, <1>6, GotoDoes, KeptDoes DEF Keep
  <2> QED  BY <1>1, <1>2, <1>3, <1>4, <1>6, <2>1, PowerFailsDoes
<1> QED  BY <1>5, <1>6 DEF Unboost

LEMMA ClearPowerDoes ==
  ASSUME Places, NEW s \in Sessions, ClearPower(s)
  PROVE  /\ pc[s] = "clear" /\ Turns(s, "restore") /\ Phased(s, phase[s]) /\ Idle(s) /\ UNCHANGED world
         /\ ghosts' = ghosts /\ slock' = slock /\ budget' \in Spent
         /\ \E m \in Memories, n \in Memories :
              /\ m.boost = "none" /\ m.kept = mem[s].kept /\ m.written = mem[s].written
              /\ SameLease(m, mem[s]) /\ SameUnit(m, mem[s]) /\ SameGame(m, mem[s])
              /\ \/ /\ JournalSays(s, m) /\ rec'.phase = mem[s].written
                    /\ Recalls(s, n) /\ n.written = mem[s].written
                    /\ SameLease(n, m) /\ SameUnit(n, m) /\ SameGame(n, m) /\ SameRest(n, m)
                 \/ /\ Fails(s)
                    /\ JournalStays \/ (JournalSays(s, m) /\ rec'.phase = mem[s].written)
<1>1. SessionType /\ budget \in Spent /\ mem[s] \in Memories
  BY PlacesAt
<1>2. pc[s] = "clear" /\ Goto(s, "restore") /\ UNCHANGED <<phase, helper, unit, slock, world, ghosts>>
  BY DEF ClearPower
<1>3. "restore" \in PCs /\ mem[s].written \in RecordPhases /\ "none" \in Powers \cup {"none"}
  BY <1>2, BoostAt DEF PCs
<1>4. Phased(s, phase[s]) /\ Idle(s) /\ Turns(s, "restore")
  BY <1>1, <1>2, <1>3, StaysPut, IdleIs, GotoDoes
<1>5. PICK m : m = [mem[s] EXCEPT !.boost = "none"]
  OBVIOUS
<1>6. /\ m \in Memories /\ m.boost = "none" /\ m.kept = mem[s].kept /\ m.written = mem[s].written
      /\ SameLease(m, mem[s]) /\ SameUnit(m, mem[s]) /\ SameGame(m, mem[s])
  BY <1>1, <1>3, <1>5, BoostIs
<1>7. budget' \in Spent
  BY <1>1, FaultType DEF ClearPower, WriteRecord, WriteFails
<1>8. CASE WriteRecord(s, m, mem[s].written)
  <2>1. PICK n \in Memories : /\ Recalls(s, n) /\ n.written = mem[s].written /\ SameLease(n, m)
                              /\ SameUnit(n, m) /\ SameGame(n, m) /\ SameRest(n, m)
    BY <1>1, <1>3, <1>6, <1>8, WriteDoes
  <2>2. JournalSays(s, m) /\ rec'.phase = mem[s].written
    BY <1>1, <1>3, <1>6, <1>8, WriteDoes
  <2> QED  BY <1>2, <1>4, <1>6, <1>7, <2>1, <2>2
<1>9. CASE WriteFails(s, m, mem[s].written, Kept(s))
  <2>1. Kept(s) \in Memories
    BY <1>1, KeptDoes
  <2>2. (JournalStays \/ (JournalSays(s, m) /\ rec'.phase = mem[s].written)) /\ Recalls(s, Kept(s))
    BY <1>1, <1>3, <1>6, <1>9, <2>1, WriteFailsDoes
  <2>3. Fails(s)
    BY <1>1, <2>2, KeptDoes
  <2> QED  BY <1>2, <1>4, <1>6, <1>7, <2>2, <2>3
<1> QED  BY <1>5, <1>8, <1>9 DEF ClearPower

LEMMA RestoreDoes ==
  ASSUME Places, NEW s \in Sessions, Restore(s)
  PROVE  /\ pc[s] = "restore" /\ Idle(s) /\ UNCHANGED world
         /\ ghosts' = ghosts /\ slock' = slock /\ budget' \in Spent
         /\ \/ /\ mem[s].lease = 0 /\ Turns(s, "remove") /\ Phased(s, phase[s])
               /\ Recalls(s, mem[s]) /\ JournalStays
            \/ /\ mem[s].lease # 0 /\ Turns(s, "recover") /\ Phased(s, "restoring")
               /\ \/ mem[s].written = "none" /\ Recalls(s, mem[s]) /\ JournalStays
                  \/ /\ mem[s].written # "none"
                     /\ JournalSays(s, mem[s]) /\ rec'.phase = RestoringPhase(s)
                     /\ \E n \in Memories : /\ Recalls(s, n) /\ n.written = RestoringPhase(s)
                                            /\ SameLease(n, mem[s]) /\ SameUnit(n, mem[s])
                                            /\ SameGame(n, mem[s]) /\ SameRest(n, mem[s])
                  \/ /\ mem[s].written # "none" /\ Recalls(s, mem[s])
                     /\ JournalStays \/ (JournalSays(s, mem[s]) /\ rec'.phase = RestoringPhase(s))
<1>1. SessionType /\ budget \in Spent /\ mem[s] \in Memories
  BY PlacesAt
<1>2. pc[s] = "restore" /\ UNCHANGED <<helper, unit, slock, world, ghosts>>
  BY DEF Restore
<1>3. {"remove", "recover"} \subseteq PCs /\ "restoring" \in Phases /\ RestoringPhase(s) \in RecordPhases
  BY DEF PCs, Phases, RecordPhases, RestoringPhase
<1>4. Idle(s)
  BY <1>1, <1>2, IdleIs
<1>5. budget' \in Spent
  BY <1>1, FaultType DEF Restore, WriteRecord, WriteFails
<1>6. CASE mem[s].lease = 0
  <2>1. Goto(s, "remove") /\ NoRecordChange /\ UNCHANGED <<phase, mem>>
    BY <1>6 DEF Restore
  <2>2. Turns(s, "remove") /\ Phased(s, phase[s]) /\ Recalls(s, mem[s]) /\ JournalStays
    BY <1>1, <1>3, <2>1, GotoDoes, StaysPut DEF NoRecordChange, JournalStays
  <2> QED  BY <1>2, <1>4, <1>5, <1>6, <2>2
<1>7. CASE mem[s].lease # 0
  <2>1. /\ Goto(s, "recover") /\ Enter(s, "restoring")
        /\ \/ mem[s].written # "none" /\ WriteRecord(s, mem[s], RestoringPhase(s))
           \/ mem[s].written # "none" /\ WriteFails(s, mem[s], RestoringPhase(s), mem[s])
           \/ mem[s].written = "none" /\ Fine /\ NoRecordChange /\ UNCHANGED mem
    BY <1>7 DEF Restore
  <2>2. Turns(s, "recover") /\ Phased(s, "restoring")
    BY <1>1, <1>3, <2>1, GotoDoes, EnterDoes
  <2>3. CASE mem[s].written # "none" /\ WriteRecord(s, mem[s], RestoringPhase(s))
    <3>1. PICK n \in Memories : /\ Recalls(s, n) /\ n.written = RestoringPhase(s)
                                /\ SameLease(n, mem[s]) /\ SameUnit(n, mem[s])
                                /\ SameGame(n, mem[s]) /\ SameRest(n, mem[s])
      BY <1>1, <1>3, <2>3, WriteDoes
    <3>2. JournalSays(s, mem[s]) /\ rec'.phase = RestoringPhase(s)
      BY <1>1, <1>3, <2>3, WriteDoes
    <3> QED  BY <1>2, <1>4, <1>5, <1>7, <2>2, <2>3, <3>1, <3>2
  <2>4. CASE mem[s].written # "none" /\ WriteFails(s, mem[s], RestoringPhase(s), mem[s])
    <3>1. /\ JournalStays \/ (JournalSays(s, mem[s]) /\ rec'.phase = RestoringPhase(s))
          /\ Recalls(s, mem[s])
      BY <1>1, <1>3, <2>4, WriteFailsDoes
    <3> QED  BY <1>2, <1>4, <1>5, <1>7, <2>2, <2>4, <3>1
  <2>5. CASE mem[s].written = "none" /\ NoRecordChange /\ UNCHANGED mem
    <3>1. Recalls(s, mem[s]) /\ JournalStays
      BY <1>1, <2>5, StaysPut DEF NoRecordChange, JournalStays
    <3> QED  BY <1>2, <1>4, <1>5, <1>7, <2>2, <2>5, <3>1
  <2> QED  BY <2>1, <2>3, <2>4, <2>5
<1> QED  BY <1>6, <1>7

LEMMA RecoverDoes ==
  ASSUME Places, NEW s \in Sessions, Recover(s)
  PROVE  /\ pc[s] = "recover" /\ Turns(s, "remove") /\ Phased(s, phase[s]) /\ Idle(s) /\ JournalStays
         /\ UNCHANGED <<power, powerBy, orphans, ghosts, slock>> /\ budget' \in Spent
         /\ PadYields(mem[s].lease)
         /\ Fails(s) \/ (Recalls(s, mem[s]) /\ pad'.token # mem[s].lease)
<1>1. SessionType /\ budget \in Spent /\ PadType /\ pad.token \leq fresh /\ mem[s] \in Memories
  BY PlacesAt
<1>2. /\ pc[s] = "recover" /\ Goto(s, "remove")
      /\ UNCHANGED <<phase, helper, unit, slock, rec, power, powerBy, orphans, ghosts, journaled>>
  BY DEF Recover
<1>3. "remove" \in PCs /\ mem[s].lease \in Tokens /\ mem[s].previous \in Modes
  BY <1>1, MemoryIs DEF PCs
<1>4. Phased(s, phase[s]) /\ Idle(s) /\ JournalStays /\ Turns(s, "remove")
  BY <1>1, <1>2, <1>3, StaysPut, IdleIs, GotoDoes DEF JournalStays
<1>5. CASE Recovered(mem[s].lease, mem[s].previous) /\ Fine /\ UNCHANGED mem
  BY <1>1, <1>2, <1>3, <1>4, <1>5, FaultType, StaysPut, RecoveredDoes
<1>6. CASE RecoveryFails(mem[s].lease, mem[s].previous) /\ Remember(s, Kept(s))
  BY <1>1, <1>2, <1>3, <1>4, <1>6, RecoveryFailsDoes, KeptDoes
<1> QED  BY <1>5, <1>6 DEF Recover

LEMMA RemoveDoes ==
  ASSUME Places, NEW s \in Sessions, Remove(s)
  PROVE  /\ pc[s] = "remove" /\ Turns(s, "release") /\ Phased(s, phase[s]) /\ Recalls(s, mem[s]) /\ Idle(s)
         /\ UNCHANGED world /\ ghosts' = ghosts /\ slock' = slock /\ journaled' = journaled /\ budget' \in Spent
         /\ \/ rec' = rec
            \/ rec' = NoRecord /\ ~mem[s].kept /\ mem[s].written # "none" /\ rec.by = s
<1>1. SessionType /\ budget \in Spent
  BY PlacesAt
<1>2. /\ pc[s] = "remove" /\ Goto(s, "release")
      /\ UNCHANGED <<phase, mem, helper, unit, slock, world, ghosts, journaled>>
  BY DEF Remove
<1>3. "release" \in PCs
  BY DEF PCs
<1>4. Phased(s, phase[s]) /\ Recalls(s, mem[s]) /\ Idle(s) /\ Turns(s, "release")
  BY <1>1, <1>2, <1>3, StaysPut, IdleIs, GotoDoes
<1>5. budget' \in Spent
  BY <1>1, FaultType DEF Remove
<1> QED  BY <1>2, <1>4, <1>5 DEF Remove

LEMMA ReleaseDoes ==
  ASSUME Places, NEW s \in Sessions, Release(s)
  PROVE  /\ pc[s] = "release" /\ Turns(s, "done") /\ Phased(s, "done") /\ Recalls(s, FreshMemory) /\ Idle(s)
         /\ Still /\ ghosts' = ghosts /\ slock' = NoOne /\ budget' \in Spent
<1>1. SessionType /\ budget \in Spent
  BY PlacesAt
<1>2. /\ pc[s] = "release" /\ Fine /\ slock' = NoOne /\ Goto(s, "done") /\ Enter(s, "done")
      /\ Remember(s, FreshMemory) /\ UNCHANGED <<helper, unit, rec, world, ghosts, journaled>>
  BY DEF Release
<1>3. "done" \in PCs /\ "done" \in Phases /\ FreshMemory \in Memories
  BY FreshIs DEF PCs, Phases
<1> QED  BY <1>1, <1>2, <1>3, GotoDoes, EnterDoes, RememberDoes, IdleIs, StillIs, FaultType

-----------------------------------------------------------------------------
(* What each step beside the supervisors does *)

LEMMA SignalDoes ==
  ASSUME Places, NEW s \in Sessions, Signal(s)
  PROVE  /\ pc[s] \notin Dead /\ Turns(s, pc[s]) /\ Phased(s, phase[s]) /\ Idle(s) /\ Still
         /\ ghosts' = ghosts /\ slock' = slock /\ budget' \in Spent
         /\ \E n \in Memories : /\ Recalls(s, n) /\ n.written = mem[s].written /\ SameLease(n, mem[s])
                                /\ SameUnit(n, mem[s]) /\ SameGame(n, mem[s]) /\ SameRest(n, mem[s])
<1>1. SessionType /\ budget \in Spent /\ mem[s] \in Memories
  BY PlacesAt
<1>2. /\ Live(s) /\ Spend("signals", MaxSignals)
      /\ UNCHANGED <<pc, phase, helper, unit, slock, rec, world, ghosts, journaled>>
  BY DEF Signal
<1>3. PICK n : n = [mem[s] EXCEPT !.sig = TRUE]
  OBVIOUS
<1>4. /\ n \in Memories /\ n.written = mem[s].written /\ SameLease(n, mem[s])
      /\ SameUnit(n, mem[s]) /\ SameGame(n, mem[s]) /\ SameRest(n, mem[s])
  BY <1>1, <1>3, SignalIs
<1>5. Remember(s, n)
  BY <1>3 DEF Signal
<1>6. Recalls(s, n)
  BY <1>1, <1>4, <1>5, RememberDoes
<1>7. Turns(s, pc[s]) /\ Phased(s, phase[s]) /\ Idle(s) /\ Still /\ budget' \in Spent
  BY <1>1, <1>2, StaysPut, IdleIs, StillIs, SpendType
<1>8. pc[s] \notin Dead
  BY <1>2, LiveIs
<1> QED  BY <1>2, <1>4, <1>6, <1>7, <1>8

\* The command that a killed supervisor leaves behind is one that it was waiting for.
LEMMA LeftBehindIs ==
  ASSUME Places, NEW s \in Sessions, NEW o \in LeftBehind(s)
  PROVE  /\ o \in Orphans
         /\ \/ pc[s] = "recover" /\ o[1] = "input" /\ o[2] = mem[s].lease
            \/ pc[s] = "stale-input" /\ o[1] = "input" /\ o[2] = rec.lease
            \/ o[1] = "power" /\ o[2] = 0
<1>1. mem[s] \in Memories /\ Sound(pc[s], phase[s], mem[s], helper[s], unit[s])
  BY PlacesAt
<1>2. CASE pc[s] = "recover" /\ o = <<"input", mem[s].lease, mem[s].previous>>
  <2>1. mem[s].lease \in Tokens /\ mem[s].previous \in Modes
    BY <1>1, MemoryIs
  <2> QED  BY <1>2, <2>1 DEF Orphans
<1>3. CASE pc[s] = "stale-input" /\ o = <<"input", rec.lease, rec.previous>>
  <2>1. rec.lease \in Tokens /\ rec.previous \in Modes
    BY <1>3, StaleRecord DEF Stale, Lowering
  <2> QED  BY <1>3, <2>1 DEF Orphans
<1>4. CASE pc[s] = "stale-set" /\ o = <<"power", 0, rec.perf>>
  <2>1. rec.perf \in Powers
    BY <1>4, StaleRecord DEF Stale, Lowering
  <2> QED  BY <1>4, <2>1 DEF Orphans
<1>5. CASE pc[s] = "unboost" /\ o = <<"power", 0, mem[s].boost>>
  <2>1. mem[s].boost \in Powers
    BY <1>5, BoostAt
  <2> QED  BY <1>5, <2>1 DEF Orphans
<1>6. CASE pc[s] = "boosting" /\ o = <<"power", 0, "performance">>
  BY <1>6 DEF Orphans, Powers
<1> QED  BY <1>2, <1>3, <1>4, <1>5, <1>6 DEF LeftBehind

LEMMA KillDoes ==
  ASSUME Places, NEW s \in Sessions, Kill(s)
  PROVE  /\ pc[s] \notin Dead /\ Turns(s, "killed") /\ Phased(s, phase[s]) /\ Idle(s) /\ JournalStays
         /\ Recalls(s, FreshMemory) /\ slock' = NoOne /\ budget' \in Spent
         /\ UNCHANGED <<pad, fresh, power, powerBy>>
         /\ orphans' = orphans \cup LeftBehind(s) /\ orphans' \subseteq Orphans
         /\ ghosts' = IF unit[s] = "client" THEN ghosts \cup {s} ELSE ghosts
<1>1. SessionType /\ budget \in Spent /\ OrphanType
  BY PlacesAt
<1>2. /\ Live(s) /\ Spend("kills", MaxKills) /\ Goto(s, "killed") /\ slock' = NoOne
      /\ Remember(s, FreshMemory) /\ orphans' = orphans \cup LeftBehind(s)
      /\ ghosts' = IF unit[s] = "client" THEN ghosts \cup {s} ELSE ghosts
      /\ UNCHANGED <<phase, helper, unit, rec, pad, fresh, power, powerBy, journaled>>
  BY DEF Kill
<1>3. "killed" \in PCs /\ FreshMemory \in Memories
  BY FreshIs DEF PCs
<1>4. Turns(s, "killed") /\ Phased(s, phase[s]) /\ Idle(s) /\ Recalls(s, FreshMemory) /\ JournalStays
  BY <1>1, <1>2, <1>3, GotoDoes, StaysPut, IdleIs, RememberDoes DEF JournalStays
<1>5. orphans' \subseteq Orphans
  BY <1>1, <1>2, LeftBehindIs DEF OrphanType
<1>6. pc[s] \notin Dead /\ budget' \in Spent
  BY <1>1, <1>2, LiveIs, SpendType
<1> QED  BY <1>2, <1>4, <1>5, <1>6

\* Only the world changes.
Aside == UNCHANGED <<pc, phase, mem, helper, unit, slock, rec, ghosts, journaled>>

LEMMA OrphanDoes ==
  ASSUME Places, OrphanLands
  PROVE  /\ Aside /\ budget' = budget
         /\ \E o \in orphans :
              /\ orphans' = orphans \ {o}
              /\ \/ /\ o[1] = "input" /\ o[2] \in Tokens /\ ~PadBusy
                    /\ PadYields(o[2]) /\ pad'.token # o[2] /\ UNCHANGED <<power, powerBy>>
                 \/ /\ o[1] = "power" /\ PowerType' /\ UNCHANGED <<pad, fresh>>
                    /\ (power' = power /\ powerBy' = powerBy) \/ powerBy' = "orphan"
<1>1. PICK o \in orphans :
        /\ orphans' = orphans \ {o}
        /\ \/ /\ o[1] = "input" /\ Recovered(o[2], o[3]) /\ UNCHANGED <<power, powerBy>>
           \/ /\ o[1] = "power" /\ SetPower(o[3], "orphan") /\ UNCHANGED <<pad, fresh>>
  BY DEF OrphanLands
<1>2. OrphanType /\ PadType /\ PowerType /\ pad.token \leq fresh
  BY TypeIs DEF Places, Drawn
<1>3. Aside /\ budget' = budget
  BY DEF OrphanLands, Aside
<1>4. CASE o[1] = "input" /\ Recovered(o[2], o[3]) /\ UNCHANGED <<power, powerBy>>
  <2>1. o[2] \in Tokens /\ o[3] \in Modes
    BY <1>2, <1>4 DEF OrphanType, Orphans
  <2>2. PadYields(o[2]) /\ pad'.token # o[2] /\ ~PadBusy
    BY <1>2, <1>4, <2>1, RecoveredDoes DEF Recovered
  <2> QED  BY <1>1, <1>3, <1>4, <2>1, <2>2
<1>5. CASE o[1] = "power" /\ SetPower(o[3], "orphan") /\ UNCHANGED <<pad, fresh>>
  <2>1. o[3] \in Powers
    BY <1>2, <1>5 DEF OrphanType, Orphans
  <2>2. PowerType' /\ ((power' = power /\ powerBy' = powerBy) \/ powerBy' = "orphan")
    BY <1>2, <1>5, <2>1 DEF SetPower, PowerType, Owners
  <2> QED  BY <1>1, <1>3, <1>5, <2>2
<1> QED  BY <1>1, <1>4, <1>5

\* A step of the acquire helper: it draws a token, or keeps the one it has.
LEMMA AcquireDoes ==
  ASSUME Places, NEW s \in Sessions, Acquire(s)
  PROVE  /\ UNCHANGED <<pc, phase, mem, unit, slock, rec, power, powerBy, orphans, ghosts, journaled, budget>>
         /\ helper[s].state \in {"started", "claimed", "sent", "mutated"} /\ PadStep
         /\ \E h \in Helpers :
              /\ Helped(s, h) /\ h.state \in {"claimed", "sent", "mutated", "ok", "failed"}
              /\ h.state \in {"sent", "mutated", "ok"} => h.sent
              /\ h.sent => helper[s].token # 0
              /\ \/ h.token = helper[s].token /\ fresh' = fresh /\ h.state # "claimed"
                 \/ /\ h.token = fresh + 1 /\ fresh' = fresh + 1 /\ ~PadBusy /\ ~h.sent
                    /\ h.state = "claimed"
<1>1. /\ SessionType /\ PadType /\ helper[s] \in Helpers /\ fresh \in Nat
      /\ Helps(pc[s], helper[s])
  BY PlacesAt DEF Sound
<1>2. UNCHANGED <<pc, phase, mem, unit, slock, rec, power, powerBy, orphans, ghosts, journaled, budget>>
  BY DEF Acquire, HelperClaims, HelperSends, HelperMutates, HelperEnds, world
<1>3. pad \in Pads /\ helper[s].previous \in Modes
  BY <1>1, HelperIs DEF PadType
<1>4. CASE HelperClaims(s)
  <2>1. helper[s].state = "started" /\ ~PadBusy
    BY <1>4 DEF HelperClaims
  <2>2. CASE Helper(s, "failed") /\ UNCHANGED <<pad, fresh>>
    <3>1. /\ Helped(s, helper'[s]) /\ helper'[s] \in Helpers /\ helper'[s].state = "failed"
          /\ helper'[s].token = helper[s].token /\ helper'[s].sent = helper[s].sent
      BY <1>1, <2>2, StateDoes DEF Helper, HelperStates
    <3>2. PadStep /\ fresh' = fresh
      BY <1>1, <1>3, <2>2 DEF PadStep
    <3> QED  BY <1>1, <1>2, <2>1, <3>1, <3>2 DEF Helps
  <2>3. ASSUME NEW m \in Modes,
               helper' = [helper EXCEPT ![s] = [@ EXCEPT !.state = "claimed",
                                                         !.token = fresh + 1, !.previous = m]],
               NewPad("unsettled", "session")
        PROVE  /\ PadStep /\ fresh' = fresh + 1
               /\ \E h \in Helpers : Helped(s, h) /\ h.token = fresh + 1 /\ h.state = "claimed" /\ h.sent = helper[s].sent
    <3>1. PICK h : h = [helper[s] EXCEPT !.state = "claimed", !.token = fresh + 1, !.previous = m]
      OBVIOUS
    <3> DEFINE k == fresh + 1
    <3>a. k \in Nat
      BY <1>1
    <3>b. h = [helper[s] EXCEPT !.state = "claimed", !.token = k, !.previous = m]
      BY <3>1
    <3> HIDE DEF k
    <3>c. h \in Helpers /\ h.token = k /\ h.state = "claimed" /\ h.sent = helper[s].sent
      BY <1>1, <3>a, <3>b DEF Helpers, Tokens
    <3>2. h \in Helpers /\ h.token = fresh + 1 /\ h.state = "claimed" /\ h.sent = helper[s].sent
      BY <3>c DEF k
    <3>3. helper' = [helper EXCEPT ![s] = h]
      BY <2>3, <3>1
    <3>4. Helped(s, h)
      BY <1>1, <3>2, <3>3 DEF Helped, SessionType
    <3>5. PadStep /\ fresh' = fresh + 1
      BY <1>1, <2>3, NewPadIs DEF PadStep
    <3> QED  BY <3>2, <3>4, <3>5
  <2>4. CASE ~(Helper(s, "failed") /\ UNCHANGED <<pad, fresh>>)
    <3>1. /\ PadStep /\ fresh' = fresh + 1
          /\ \E h \in Helpers : Helped(s, h) /\ h.token = fresh + 1 /\ h.state = "claimed" /\ h.sent = helper[s].sent
      BY <1>4, <2>3, <2>4 DEF HelperClaims
    <3>2. ~helper[s].sent
      BY <1>1, <2>1 DEF Helps
    <3> QED  BY <1>2, <2>1, <3>1, <3>2
  <2> QED  BY <2>2, <2>4
<1>5. CASE HelperSends(s)
  <2>1. helper[s].state = "claimed" /\ UNCHANGED fresh /\ helper[s].token # 0 /\ ~helper[s].sent
    BY <1>1, <1>5 DEF HelperSends, Helps
  <2>2. CASE pc[s] = "acquiring"
    <3>1. helper' = [helper EXCEPT ![s].state = "sent", ![s].sent = TRUE] /\ UNCHANGED pad
      BY <1>5, <2>2 DEF HelperSends
    <3>2. PICK h : h = [helper[s] EXCEPT !.state = "sent", !.sent = TRUE]
      OBVIOUS
    <3>3. h \in Helpers /\ h.token = helper[s].token /\ h.state = "sent" /\ h.sent = TRUE
      BY <1>1, <3>2 DEF Helpers
    <3>4. helper' = [helper EXCEPT ![s] = h]
      BY <1>1, <3>1, <3>2
    <3>5. Helped(s, h)
      BY <1>1, <3>3, <3>4 DEF Helped, SessionType
    <3>6. PadStep
      BY <1>1, <1>3, <2>1, <3>1 DEF PadStep
    <3> QED  BY <1>2, <2>1, <3>3, <3>5, <3>6
  <2>3. CASE pc[s] # "acquiring"
    <3>1. Helper(s, "failed") /\ \E m \in {helper[s].previous, "unsettled"} : pad' = [pad EXCEPT !.mode = m]
      BY <1>5, <2>3 DEF HelperSends
    <3>2. /\ Helped(s, helper'[s]) /\ helper'[s] \in Helpers /\ helper'[s].state = "failed"
          /\ helper'[s].token = helper[s].token /\ helper'[s].sent = helper[s].sent
      BY <1>1, <3>1, StateDoes DEF Helper, HelperStates
    <3>3. PadStep
      BY <1>1, <1>3, <2>1, <3>1, ModeDoes
    <3> QED  BY <1>2, <2>1, <3>2, <3>3
  <2> QED  BY <2>2, <2>3
<1>6. ASSUME NEW x \in HelperStates, Helper(s, x), x \in {"mutated", "ok", "failed"},
             helper[s].state \in {"sent", "mutated"}, PadStep, fresh' = fresh
      PROVE  /\ helper[s].state \in {"started", "claimed", "sent", "mutated"}
             /\ \E h \in Helpers :
                  /\ Helped(s, h) /\ h.state \in {"claimed", "sent", "mutated", "ok", "failed"}
                  /\ h.state \in {"sent", "mutated", "ok"} => h.sent
                  /\ h.sent => helper[s].token # 0
                  /\ h.token = helper[s].token /\ fresh' = fresh /\ h.state # "claimed"
  <2>1. helper[s].sent /\ helper[s].token # 0
    BY <1>1, <1>6 DEF Helps
  <2>2. /\ Helped(s, helper'[s]) /\ helper'[s] \in Helpers /\ helper'[s].state = x
        /\ helper'[s].token = helper[s].token /\ helper'[s].sent = helper[s].sent
    BY <1>1, <1>6, StateDoes DEF Helper
  <2> QED  BY <1>6, <2>1, <2>2
<1>7. CASE HelperMutates(s)
  <2>1. helper[s].state = "sent" /\ Helper(s, "mutated") /\ UNCHANGED <<pad, fresh>>
    BY <1>7, WorldIs DEF HelperMutates
  <2>2. PadStep /\ "mutated" \in HelperStates
    BY <1>1, <1>3, <2>1 DEF PadStep, HelperStates
  <2> QED  BY <1>2, <1>6, <2>1, <2>2
<1>8. CASE HelperEnds(s)
  <2>1. /\ helper[s].state \in {"sent", "mutated"} /\ UNCHANGED fresh
        /\ Helper(s, "ok") \/ Helper(s, "failed")
        /\ \E m \in Modes \cup {"unsettled"} : pad' = [pad EXCEPT !.mode = m]
    BY <1>3, <1>8 DEF HelperEnds, Modes
  <2>2. PadStep /\ {"ok", "failed"} \subseteq HelperStates
    BY <1>1, <2>1, ModeDoes DEF HelperStates
  <2> QED  BY <1>2, <1>6, <2>1, <2>2
<1> QED  BY <1>4, <1>5, <1>7, <1>8 DEF Acquire

LEMMA GameDoes ==
  ASSUME Places, NEW s \in Sessions, ScopeSettles(s) \/ GameExits(s)
  PROVE  /\ UNCHANGED <<pc, phase, mem, helper, slock, rec, world, ghosts, journaled, budget>>
         /\ \E u \in {"active", "gone"} :
              /\ Scoped(s, u)
              /\ unit[s] = "client" \/ (unit[s] = "active" /\ u = "gone")
<1>1. SessionType
  BY PlacesAt
<1>2. \E u \in {"active", "gone"} :
        /\ unit' = [unit EXCEPT ![s] = u]
        /\ unit[s] = "client" \/ (unit[s] = "active" /\ u = "gone")
  BY DEF ScopeSettles, GameExits
<1>3. UNCHANGED <<pc, phase, mem, helper, slock, rec, world, ghosts, journaled, budget>>
  BY DEF ScopeSettles, GameExits
<1>4. ASSUME NEW u \in {"active", "gone"}, unit' = [unit EXCEPT ![s] = u] PROVE Scoped(s, u)
  BY <1>1, <1>4 DEF SessionType, Scoped, Units
<1> QED  BY <1>2, <1>3, <1>4

LEMMA UserDoes ==
  ASSUME Places
  PROVE  /\ UserSwitches =>
              /\ Aside /\ UNCHANGED <<power, powerBy, orphans>> /\ budget' \in Spent /\ PadStep /\ ~PadBusy
              /\ fresh' = fresh + 1 /\ pad'.token = fresh + 1 /\ pad'.by = "user"
         /\ UserSetsPower =>
              /\ Aside /\ UNCHANGED <<pad, fresh, orphans>> /\ budget' \in Spent
              /\ PowerType' /\ powerBy' = "user"
<1>1. budget \in Spent /\ PadType
  BY TypeIs DEF Places
<1>2. ASSUME UserSwitches
      PROVE  /\ Aside /\ UNCHANGED <<power, powerBy, orphans>> /\ budget' \in Spent /\ PadStep /\ ~PadBusy
             /\ fresh' = fresh + 1 /\ pad'.token = fresh + 1 /\ pad'.by = "user"
  <2>1. PICK m \in Modes \cup {"unsettled"} : NewPad(m, "user")
    BY <1>2 DEF UserSwitches
  <2>2. /\ pad' \in Pads /\ fresh' \in Nat /\ fresh' = fresh + 1
        /\ pad'.token = fresh + 1 /\ pad'.by = "user"
    BY <1>1, <2>1, NewPadIs
  <2>3. budget' \in Spent
    BY <1>1, <1>2, SpendType DEF UserSwitches
  <2> QED  BY <1>2, <2>2, <2>3 DEF UserSwitches, Aside, PadStep
<1>3. ASSUME UserSetsPower
      PROVE  /\ Aside /\ UNCHANGED <<pad, fresh, orphans>> /\ budget' \in Spent
             /\ PowerType' /\ powerBy' = "user"
  <2>1. budget' \in Spent
    BY <1>1, <1>3, SpendType DEF UserSetsPower
  <2> QED  BY <1>3, <2>1 DEF UserSetsPower, Aside, PowerType, Owners
<1> QED  BY <1>2, <1>3

-----------------------------------------------------------------------------
(* The first invariant is kept *)

LEMMA StillWorlds ==
  ASSUME Places, NEW s \in Sessions, slock' = slock, budget' \in Spent, ghosts' = ghosts,
         UNCHANGED world,
         \/ JournalStays
         \/ \E m \in Memories : JournalSays(s, m)
         \/ rec' = NoRecord /\ journaled' = journaled
  PROVE  Worlds
<1>1. ghosts' \subseteq Sessions
  BY PlacesAt
<1>2. JournalType'
  BY JournalTypes
<1> QED  BY <1>1, <1>2, WorldStays

LEMMA PreflightPlaces == ASSUME Places, NEW s \in Sessions, Preflight(s) PROVE Places'
<1>1. pc[s] = "locked" /\ Sound(pc[s], phase[s], mem[s], helper[s], unit[s])
  BY PlacesAt, PreflightDoes
<1>2. Recalls(s, mem[s]) /\ Phased(s, "preflight") /\ Idle(s) /\ rec' = rec
  BY PreflightDoes DEF Still, JournalStays
<1>3. Worlds
  BY PreflightDoes, StillWorlds DEF Still
<1>4. PICK p \in {"ready", "stale-power", "stale-input", "cleanup"} :
        /\ Turns(s, p) /\ (p \in {"stale-power", "stale-input"} => rec # NoRecord)
        /\ p = "stale-power" => rec.perf # "none"
  BY PreflightDoes
<1>5. Steps(s, p, "preflight", mem[s], helper[s], unit[s])
  BY <1>2, <1>4 DEF Steps, Idle
<1>6. Sound(p, "preflight", mem[s], helper[s], unit[s])
  BY <1>1 DEF Sound, Remembers, Whole, Enters, Helps, Runs, Blank, Stale, Early, Undoing, Dead, Begun
<1> QED  BY <1>1, <1>2, <1>3, <1>4, <1>5, <1>6, PlacesOn DEF Dead, Stale, Lowering

LEMMA StalePowerPlaces == ASSUME Places, NEW s \in Sessions, StalePower(s) PROVE Places'
<1>1. pc[s] = "stale-power" /\ Sound(pc[s], phase[s], mem[s], helper[s], unit[s])
  BY PlacesAt, StalePowerDoes
<1>2. Recalls(s, mem[s]) /\ Phased(s, phase[s]) /\ Idle(s) /\ rec' = rec
  BY StalePowerDoes DEF Still, JournalStays
<1>3. Worlds
  BY StalePowerDoes, StillWorlds DEF Still
<1>4. PICK p \in {"stale-set", "stale-journal", "cleanup"} : Turns(s, p)
  BY StalePowerDoes
<1>5. Steps(s, p, phase[s], mem[s], helper[s], unit[s])
  BY <1>2, <1>4 DEF Steps, Idle
<1>6. Sound(p, phase[s], mem[s], helper[s], unit[s])
  BY <1>1 DEF Sound, Remembers, Whole, Enters, Helps, Runs, Blank, Stale, Early, Undoing, Dead, Begun
<1>7. rec # NoRecord
  BY <1>1 DEF Places, Stales, Stale, Lowering
<1>8. rec.perf # "none"
  BY <1>1 DEF Places, Stales, Lowering
<1> QED  BY <1>1, <1>2, <1>3, <1>4, <1>5, <1>6, <1>7, <1>8, PlacesOn DEF Dead, Lowering

LEMMA StaleSetPlaces == ASSUME Places, NEW s \in Sessions, StaleSet(s) PROVE Places'
<1>1. /\ pc[s] = "stale-set" /\ Sound(pc[s], phase[s], mem[s], helper[s], unit[s])
      /\ JournalType /\ PadType /\ PowerType /\ OrphanType /\ ghosts \subseteq Sessions
  BY PlacesAt, StaleSetDoes
<1>2. Recalls(s, mem[s]) /\ Phased(s, phase[s]) /\ Idle(s) /\ rec' = rec /\ rec.perf \in Powers
  BY StaleSetDoes DEF JournalStays
<1>3. PowerType' /\ OrphanType'
  <2>1. "restore" \in Owners
    BY DEF Owners
  <2>2. PowerStep(rec.perf, "restore") \/ UNCHANGED <<power, powerBy>>
    BY StaleSetDoes
  <2>3. PowerType'
    BY <1>1, <1>2, <2>1, <2>2, PowerStepType DEF PowerType
  <2> QED  BY <1>1, <2>3, StaleSetDoes DEF OrphanType
<1>4. Worlds
  BY <1>1, <1>3, StaleSetDoes, JournalTypes, WorldsOn
<1>5. PICK p \in {"stale-journal", "cleanup"} : Turns(s, p)
  BY StaleSetDoes
<1>6. Steps(s, p, phase[s], mem[s], helper[s], unit[s])
  BY <1>2, <1>5 DEF Steps, Idle
<1>7. Sound(p, phase[s], mem[s], helper[s], unit[s])
  BY <1>1 DEF Sound, Remembers, Whole, Enters, Helps, Runs, Blank, Stale, Early, Undoing, Dead, Begun
<1>8. rec # NoRecord /\ rec.perf # "none"
  BY <1>1 DEF Places, Stales, Stale, Lowering
<1> QED  BY <1>1, <1>2, <1>4, <1>5, <1>6, <1>7, <1>8, PlacesOn DEF Dead, Lowering

LEMMA StaleJournalPlaces == ASSUME Places, NEW s \in Sessions, StaleJournal(s) PROVE Places'
<1>1. pc[s] = "stale-journal" /\ Sound(pc[s], phase[s], mem[s], helper[s], unit[s])
  BY PlacesAt, StaleJournalDoes
<1>2. Recalls(s, mem[s]) /\ Phased(s, phase[s]) /\ Idle(s) /\ (JournalStays \/ Settled)
  BY StaleJournalDoes
<1>3. JournalType' /\ ghosts' \subseteq Sessions
  <2>1. JournalType /\ ghosts \subseteq Sessions /\ ghosts' = ghosts
    BY PlacesAt, StaleJournalDoes
  <2> QED  BY <1>2, <2>1 DEF JournalType, JournalStays, Settled
<1>4. Worlds
  BY <1>3, StaleJournalDoes, WorldStays
<1>5. PICK p \in {"stale-input", "cleanup"} : Turns(s, p) /\ (p = "stale-input" => Settled)
  BY StaleJournalDoes
<1>6. Steps(s, p, phase[s], mem[s], helper[s], unit[s])
  BY <1>2, <1>5 DEF Steps, Idle
<1>7. Sound(p, phase[s], mem[s], helper[s], unit[s])
  BY <1>1 DEF Sound, Remembers, Whole, Enters, Helps, Runs, Blank, Stale, Early, Undoing, Dead, Begun
<1>8. Settled => rec' # NoRecord
  BY RecordIs DEF Settled
<1> QED  BY <1>1, <1>4, <1>5, <1>6, <1>7, <1>8, PlacesOn DEF Dead, Stale, Lowering

LEMMA StaleInputPlaces == ASSUME Places, NEW s \in Sessions, StaleInput(s) PROVE Places'
<1>1. /\ pc[s] = "stale-input" /\ Sound(pc[s], phase[s], mem[s], helper[s], unit[s])
      /\ PowerType /\ OrphanType /\ ghosts \subseteq Sessions
  BY PlacesAt, StaleInputDoes
<1>2. Recalls(s, mem[s]) /\ Phased(s, phase[s]) /\ Idle(s) /\ JournalStays
  BY StaleInputDoes
<1>3. PowerType' /\ OrphanType' /\ PadStep
  BY <1>1, StaleInputDoes DEF PowerType, OrphanType, PadYields
<1>4. Worlds
  BY <1>1, <1>3, StaleInputDoes, JournalTypes, WorldsOn
<1>5. PICK p \in {"stale-unlink", "cleanup"} : Turns(s, p)
  BY StaleInputDoes
<1>6. Steps(s, p, phase[s], mem[s], helper[s], unit[s])
  BY <1>2, <1>5 DEF Steps, Idle
<1>7. Sound(p, phase[s], mem[s], helper[s], unit[s])
  BY <1>1 DEF Sound, Remembers, Whole, Enters, Helps, Runs, Blank, Stale, Early, Undoing, Dead, Begun
<1>8. rec' # NoRecord
  BY <1>1, <1>2 DEF Places, Stales, Stale, JournalStays, Lowering
<1> QED  BY <1>1, <1>4, <1>5, <1>6, <1>7, <1>8, PlacesOn DEF Dead, Stale, Lowering

LEMMA StaleUnlinkPlaces == ASSUME Places, NEW s \in Sessions, StaleUnlink(s) PROVE Places'
<1>1. pc[s] = "stale-unlink" /\ Sound(pc[s], phase[s], mem[s], helper[s], unit[s])
  BY PlacesAt, StaleUnlinkDoes
<1>2. Recalls(s, mem[s]) /\ Phased(s, phase[s]) /\ Idle(s)
  BY StaleUnlinkDoes
<1>3. Worlds
  BY StaleUnlinkDoes, StillWorlds DEF JournalStays
<1>4. PICK p \in {"ready", "cleanup"} : Turns(s, p)
  BY StaleUnlinkDoes
<1>5. Steps(s, p, phase[s], mem[s], helper[s], unit[s])
  BY <1>2, <1>4 DEF Steps, Idle
<1>6. Sound(p, phase[s], mem[s], helper[s], unit[s])
  BY <1>1 DEF Sound, Remembers, Whole, Enters, Helps, Runs, Blank, Stale, Early, Undoing, Dead, Begun
<1> QED  BY <1>1, <1>3, <1>4, <1>5, <1>6, PlacesOn DEF Dead, Stale, Lowering

LEMMA StartAcquirePlaces == ASSUME Places, NEW s \in Sessions, StartAcquire(s) PROVE Places'
<1>1. pc[s] = "ready" /\ Sound(pc[s], phase[s], mem[s], helper[s], unit[s])
  BY PlacesAt, StartAcquireDoes
<1>2. Recalls(s, mem[s]) /\ Scoped(s, unit[s])
  BY StartAcquireDoes
<1>3. Worlds
  BY StartAcquireDoes, StillWorlds DEF Still
<1>4. CASE Turns(s, "cleanup") /\ Helped(s, helper[s])
  <2>1. PICK f \in {"preflight", "acquiring-input"} : Phased(s, f)
    BY <1>1, <1>4, StartAcquireDoes DEF Sound, Enters, Stale, Turns
  <2>2. Steps(s, "cleanup", f, mem[s], helper[s], unit[s])
    BY <1>2, <1>4, <2>1 DEF Steps
  <2>3. Sound("cleanup", f, mem[s], helper[s], unit[s])
    BY <1>1 DEF Sound, Remembers, Whole, Enters, Helps, Runs, Blank, Stale, Early, Undoing, Dead, Begun
  <2> QED  BY <1>1, <1>3, <2>2, <2>3, PlacesOn DEF Dead, Stale, Lowering
<1>5. CASE /\ Turns(s, "acquiring") /\ Phased(s, "acquiring-input")
           /\ \E h \in Helpers : /\ Helped(s, h) /\ h.state = "started" /\ h.token = helper[s].token
                                 /\ h.sent = helper[s].sent
  <2>1. PICK h \in Helpers : /\ Helped(s, h) /\ h.state = "started" /\ h.token = helper[s].token
                             /\ h.sent = helper[s].sent
    BY <1>5
  <2>2. Steps(s, "acquiring", "acquiring-input", mem[s], h, unit[s])
    BY <1>2, <1>5, <2>1 DEF Steps
  <2>3. Sound("acquiring", "acquiring-input", mem[s], h, unit[s])
    BY <1>1, <2>1 DEF Sound, Remembers, Whole, Enters, Helps, Runs, Blank, Stale, Early, Undoing, Dead, Begun
  <2> QED  BY <1>1, <1>3, <2>2, <2>3, PlacesOn DEF Dead, Stale, Lowering
<1> QED  BY <1>4, <1>5, StartAcquireDoes

LEMMA ReadReceiptPlaces == ASSUME Places, NEW s \in Sessions, ReadReceipt(s) PROVE Places'
<1>1. /\ pc[s] = "acquiring" /\ helper[s].sent /\ mem[s].lease = 0
      /\ Sound(pc[s], phase[s], mem[s], helper[s], unit[s])
  BY PlacesAt, ReadReceiptDoes
<1>2. Phased(s, phase[s]) /\ Scoped(s, unit[s]) /\ UNCHANGED world /\ slock' = slock
      /\ ghosts' = ghosts /\ budget' \in Spent
  BY ReadReceiptDoes
<1>3. PICK m \in Memories, n \in Memories :
        /\ m.lease = helper[s].token /\ m.written = mem[s].written
        /\ SameUnit(m, mem[s]) /\ SameGame(m, mem[s]) /\ SameRest(m, mem[s])
        /\ \/ /\ Turns(s, "acquiring") /\ Helped(s, helper[s])
              /\ JournalSays(s, m) /\ rec'.phase = "acquiring-input"
              /\ Recalls(s, n) /\ n.written = "acquiring-input"
              /\ SameLease(n, m) /\ SameUnit(n, m) /\ SameGame(n, m) /\ SameRest(n, m)
           \/ /\ Turns(s, "cleanup") /\ Over(s) /\ Recalls(s, m)
              /\ JournalStays \/ (JournalSays(s, m) /\ rec'.phase = "acquiring-input")
  BY ReadReceiptDoes
<1>4. Worlds
  BY <1>2, <1>3, StillWorlds
<1>5. helper[s].token # 0
  BY <1>1 DEF Sound, Helps
<1>6. CASE /\ Turns(s, "acquiring") /\ Helped(s, helper[s]) /\ Recalls(s, n) /\ n.written = "acquiring-input"
           /\ SameLease(n, m) /\ SameUnit(n, m) /\ SameGame(n, m) /\ SameRest(n, m)
  <2>1. Steps(s, "acquiring", phase[s], n, helper[s], unit[s])
    BY <1>2, <1>6 DEF Steps
  <2>2. Sound("acquiring", phase[s], n, helper[s], unit[s])
    BY <1>1, <1>3, <1>5, <1>6 DEF SameLease, SameUnit, SameGame, SameRest, Sound, Remembers, Whole, Enters,
         Helps, Runs, Blank, Stale, Early, Undoing, Dead, Begun
  <2> QED  BY <1>1, <1>4, <2>1, <2>2, PlacesOn DEF Dead, Stale, Lowering
<1>7. CASE Turns(s, "cleanup") /\ Over(s) /\ Recalls(s, m)
  <2>1. PICK h \in Helpers : /\ Helped(s, h) /\ h.state \in {"ok", "failed"}
                             /\ h.token = helper[s].token /\ h.sent = helper[s].sent
    BY <1>7 DEF Over
  <2>2. Steps(s, "cleanup", phase[s], m, h, unit[s])
    BY <1>2, <1>7, <2>1 DEF Steps
  <2>3. Sound("cleanup", phase[s], m, h, unit[s])
    BY <1>1, <1>3, <1>5, <2>1 DEF SameLease, SameUnit, SameGame, SameRest, Sound, Remembers, Whole, Enters,
         Helps, Runs, Blank, Stale, Early, Undoing, Dead, Begun
  <2> QED  BY <1>1, <1>4, <2>2, <2>3, PlacesOn DEF Dead, Stale, Lowering
<1> QED  BY <1>3, <1>6, <1>7

LEMMA AcquireEndsPlaces == ASSUME Places, NEW s \in Sessions, AcquireEnds(s) PROVE Places'
<1>1. /\ pc[s] = "acquiring" /\ Sound(pc[s], phase[s], mem[s], helper[s], unit[s])
      /\ helper[s].state \in {"ok", "failed"} /\ (helper[s].sent => mem[s].lease # 0)
  BY PlacesAt, AcquireEndsDoes
<1>2. Recalls(s, mem[s]) /\ Idle(s)
  BY AcquireEndsDoes
<1>3. Worlds
  BY AcquireEndsDoes, StillWorlds DEF Still
<1>4. CASE Turns(s, "owned") /\ Phased(s, "input-owned") /\ helper[s].state = "ok"
  <2>1. Steps(s, "owned", "input-owned", mem[s], helper[s], unit[s])
    BY <1>2, <1>4 DEF Steps, Idle
  <2>2. mem[s].written = "acquiring-input"
    <3>1. mem[s] \in Memories
      BY PlacesAt
    <3>2. mem[s].written \in {"acquiring-input", "starting", "running", "restoring", "none"}
      BY <3>1 DEF Memories, RecordPhases
    <3> QED  BY <1>1, <1>4, <3>2 DEF Sound, Helps, Remembers, Whole, Begun
  <2>3. Sound("owned", "input-owned", mem[s], helper[s], unit[s])
    BY <1>1, <1>4, <2>2 DEF Sound, Remembers, Whole, Enters, Helps, Runs, Blank, Stale, Early, Undoing, Dead,
         Begun
  <2> QED  BY <1>1, <1>3, <2>1, <2>3, PlacesOn DEF Dead, Stale, Lowering
<1>5. CASE Turns(s, "cleanup") /\ Phased(s, phase[s])
  <2>1. Steps(s, "cleanup", phase[s], mem[s], helper[s], unit[s])
    BY <1>2, <1>5 DEF Steps, Idle
  <2>2. Sound("cleanup", phase[s], mem[s], helper[s], unit[s])
    BY <1>1 DEF Sound, Remembers, Whole, Enters, Helps, Runs, Blank, Stale, Early, Undoing, Dead, Begun
  <2> QED  BY <1>1, <1>3, <2>1, <2>2, PlacesOn DEF Dead, Stale, Lowering
<1> QED  BY <1>4, <1>5, AcquireEndsDoes

LEMMA AcquireStopsPlaces == ASSUME Places, NEW s \in Sessions, AcquireStops(s) PROVE Places'
<1>1. pc[s] = "acquiring" /\ Sound(pc[s], phase[s], mem[s], helper[s], unit[s])
  BY PlacesAt, AcquireStopsDoes
<1>2. Recalls(s, mem[s]) /\ Phased(s, phase[s]) /\ Scoped(s, unit[s])
  BY AcquireStopsDoes
<1>3. Worlds
  BY AcquireStopsDoes, StillWorlds DEF Still
<1>4. PICK h \in Helpers : /\ Helped(s, h) /\ h.state \in {"ok", "failed"}
                           /\ h.token = helper[s].token /\ h.sent = helper[s].sent
                           /\ h.state = "ok" => helper[s].state = "ok"
  BY AcquireStopsDoes DEF Over
<1>5. PICK p \in {"acquiring", "cleanup"} : Turns(s, p)
  BY AcquireStopsDoes
<1>6. Steps(s, p, phase[s], mem[s], h, unit[s])
  BY <1>2, <1>4, <1>5 DEF Steps
<1>7. Sound(p, phase[s], mem[s], h, unit[s])
  BY <1>1, <1>4 DEF Sound, Remembers, Whole, Enters, Helps, Runs, Blank, Stale, Early, Undoing, Dead, Begun
<1> QED  BY <1>1, <1>3, <1>6, <1>7, PlacesOn DEF Dead, Stale, Lowering

LEMMA BoostPlaces == ASSUME Places, NEW s \in Sessions, Boost(s) PROVE Places'
<1>1. pc[s] = "owned" /\ Sound(pc[s], phase[s], mem[s], helper[s], unit[s]) /\ power \in Powers
  BY PlacesAt, BoostDoes DEF PowerType
<1>2. Phased(s, phase[s]) /\ Idle(s) /\ UNCHANGED world /\ slock' = slock /\ ghosts' = ghosts /\ budget' \in Spent
  BY BoostDoes
<1>3. Worlds
  <2>1. JournalStays \/ \E m \in Memories : JournalSays(s, m)
    BY BoostDoes
  <2> QED  BY <1>2, <2>1, StillWorlds
<1>4. CASE (Turns(s, "cleanup") \/ Turns(s, "launch")) /\ Recalls(s, mem[s])
  <2>1. PICK p \in {"cleanup", "launch"} : Turns(s, p)
    BY <1>4
  <2>2. Steps(s, p, phase[s], mem[s], helper[s], unit[s])
    BY <1>2, <1>4, <2>1 DEF Steps, Idle
  <2>3. Sound(p, phase[s], mem[s], helper[s], unit[s])
    BY <1>1 DEF Sound, Remembers, Whole, Enters, Helps, Runs, Blank, Stale, Early, Undoing, Dead, Begun
  <2> QED  BY <1>1, <1>3, <2>2, <2>3, PlacesOn DEF Dead, Stale, Lowering
<1>5. ASSUME NEW m \in Memories, NEW n \in Memories, m.boost = power, power # "performance",
             m.kept = mem[s].kept, m.written = mem[s].written,
             SameLease(m, mem[s]), SameUnit(m, mem[s]), SameGame(m, mem[s]),
             Turns(s, "boosting"), Recalls(s, n), n.written = mem[s].written,
             SameLease(n, m), SameUnit(n, m), SameGame(n, m), SameRest(n, m)
      PROVE  Places'
  <2>1. Steps(s, "boosting", phase[s], n, helper[s], unit[s])
    BY <1>2, <1>5 DEF Steps, Idle
  <2>2. n.boost = power /\ power # "none"
    BY <1>1, <1>5 DEF SameRest, Powers
  <2>3. Sound("boosting", phase[s], n, helper[s], unit[s])
    BY <1>1, <1>5, <2>2 DEF SameLease, SameUnit, SameGame, SameRest, Sound, Remembers, Whole, Enters, Helps,
         Runs, Blank, Stale, Early, Undoing, Dead, Begun
  <2> QED  BY <1>1, <1>3, <2>1, <2>3, PlacesOn DEF Dead, Stale, Lowering
<1> QED  BY <1>4, <1>5, BoostDoes

LEMMA ApplyBoostPlaces == ASSUME Places, NEW s \in Sessions, ApplyBoost(s) PROVE Places'
<1>1. /\ pc[s] = "boosting" /\ Sound(pc[s], phase[s], mem[s], helper[s], unit[s])
      /\ PowerType /\ ghosts \subseteq Sessions
  BY PlacesAt, ApplyBoostDoes
<1>2. Turns(s, "launch") /\ Recalls(s, mem[s]) /\ Phased(s, phase[s]) /\ Idle(s)
  BY ApplyBoostDoes
<1>3. PowerType' /\ OrphanType'
  <2>1. s \in Owners /\ "performance" \in Powers
    BY DEF Owners, Powers
  <2>2. PowerStep("performance", s) \/ UNCHANGED <<power, powerBy>>
    BY ApplyBoostDoes
  <2>3. PowerType'
    BY <1>1, <2>1, <2>2, PowerStepType DEF PowerType
  <2> QED  BY <2>3, ApplyBoostDoes DEF OrphanType
<1>4. Worlds
  BY <1>1, <1>3, ApplyBoostDoes, JournalTypes, WorldsOn
<1>5. Steps(s, "launch", phase[s], mem[s], helper[s], unit[s])
  BY <1>2 DEF Steps, Idle
<1>6. Sound("launch", phase[s], mem[s], helper[s], unit[s])
  BY <1>1 DEF Sound, Remembers, Whole, Enters, Helps, Runs, Blank, Stale, Early, Undoing, Dead, Begun
<1> QED  BY <1>1, <1>4, <1>5, <1>6, PlacesOn DEF Dead, Stale, Lowering

LEMMA JournalLaunchPlaces == ASSUME Places, NEW s \in Sessions, JournalLaunch(s) PROVE Places'
<1>1. pc[s] = "launch" /\ Sound(pc[s], phase[s], mem[s], helper[s], unit[s])
  BY PlacesAt, JournalLaunchDoes
<1>2. Idle(s) /\ UNCHANGED world /\ slock' = slock /\ ghosts' = ghosts /\ budget' \in Spent
  BY JournalLaunchDoes
<1>3. Worlds
  <2>1. JournalStays \/ \E m \in Memories : JournalSays(s, m)
    BY JournalLaunchDoes
  <2> QED  BY <1>2, <2>1, StillWorlds
<1>4. CASE Turns(s, "cleanup") /\ Phased(s, phase[s]) /\ Recalls(s, mem[s])
  <2>1. Steps(s, "cleanup", phase[s], mem[s], helper[s], unit[s])
    BY <1>2, <1>4 DEF Steps, Idle
  <2>2. Sound("cleanup", phase[s], mem[s], helper[s], unit[s])
    BY <1>1 DEF Sound, Remembers, Whole, Enters, Helps, Runs, Blank, Stale, Early, Undoing, Dead, Begun
  <2> QED  BY <1>1, <1>3, <2>1, <2>2, PlacesOn DEF Dead, Stale, Lowering
<1>5. ASSUME NEW m \in Memories, NEW n \in Memories, Phased(s, "starting-backend"),
             m.unit, m.scope = mem[s].scope, m.written = mem[s].written,
             SameLease(m, mem[s]), SameGame(m, mem[s]), SameRest(m, mem[s]),
             \/ /\ Turns(s, "popen") /\ Recalls(s, n) /\ n.written = "starting"
                /\ SameLease(n, m) /\ SameUnit(n, m) /\ SameGame(n, m) /\ SameRest(n, m)
             \/ Turns(s, "cleanup") /\ Recalls(s, m)
      PROVE  Places'
  <2>1. CASE /\ Turns(s, "popen") /\ Recalls(s, n) /\ n.written = "starting"
             /\ SameLease(n, m) /\ SameUnit(n, m) /\ SameGame(n, m) /\ SameRest(n, m)
    <3>1. Steps(s, "popen", "starting-backend", n, helper[s], unit[s])
      BY <1>2, <1>5, <2>1 DEF Steps, Idle
    <3>2. Sound("popen", "starting-backend", n, helper[s], unit[s])
      BY <1>1, <1>5, <2>1 DEF SameLease, SameUnit, SameGame, SameRest, Sound, Remembers, Whole, Enters, Helps,
           Runs, Blank, Stale, Early, Undoing, Dead, Begun
    <3> QED  BY <1>1, <1>3, <3>1, <3>2, PlacesOn DEF Dead, Stale, Lowering
  <2>2. CASE Turns(s, "cleanup") /\ Recalls(s, m)
    <3>1. Steps(s, "cleanup", "starting-backend", m, helper[s], unit[s])
      BY <1>2, <1>5, <2>2 DEF Steps, Idle
    <3>2. Sound("cleanup", "starting-backend", m, helper[s], unit[s])
      BY <1>1, <1>5 DEF SameLease, SameUnit, SameGame, SameRest, Sound, Remembers, Whole, Enters, Helps, Runs,
           Blank, Stale, Early, Undoing, Dead, Begun
    <3> QED  BY <1>1, <1>3, <3>1, <3>2, PlacesOn DEF Dead, Stale, Lowering
  <2> QED  BY <1>5, <2>1, <2>2
<1> QED  BY <1>4, <1>5, JournalLaunchDoes

LEMMA PopenPlaces == ASSUME Places, NEW s \in Sessions, Popen(s) PROVE Places'
<1>1. pc[s] = "popen" /\ Sound(pc[s], phase[s], mem[s], helper[s], unit[s])
  BY PlacesAt, PopenDoes
<1>2. Phased(s, phase[s]) /\ Helped(s, helper[s])
  BY PopenDoes
<1>3. Worlds
  BY PopenDoes, StillWorlds DEF Still
<1>4. CASE Turns(s, "cleanup") /\ Recalls(s, mem[s]) /\ Scoped(s, unit[s])
  <2>1. Steps(s, "cleanup", phase[s], mem[s], helper[s], unit[s])
    BY <1>2, <1>4 DEF Steps
  <2>2. Sound("cleanup", phase[s], mem[s], helper[s], unit[s])
    BY <1>1 DEF Sound, Remembers, Whole, Enters, Helps, Runs, Blank, Stale, Early, Undoing, Dead, Begun
  <2> QED  BY <1>1, <1>3, <2>1, <2>2, PlacesOn DEF Dead, Stale, Lowering
<1>5. ASSUME NEW n \in Memories, Turns(s, "starting"), Scoped(s, "client"), Recalls(s, n), n.client,
             n.quiesced = mem[s].quiesced, n.written = mem[s].written,
             SameLease(n, mem[s]), SameUnit(n, mem[s]), SameRest(n, mem[s])
      PROVE  Places'
  <2>1. Steps(s, "starting", phase[s], n, helper[s], "client")
    BY <1>2, <1>5 DEF Steps
  <2>2. Sound("starting", phase[s], n, helper[s], "client")
    BY <1>1, <1>5 DEF SameLease, SameUnit, SameGame, SameRest, Sound, Remembers, Whole, Enters, Helps, Runs,
         Blank, Stale, Early, Undoing, Dead, Begun
  <2> QED  BY <1>1, <1>3, <2>1, <2>2, PlacesOn DEF Dead, Stale, Lowering
<1> QED  BY <1>4, <1>5, PopenDoes

LEMMA AwaitScopePlaces == ASSUME Places, NEW s \in Sessions, AwaitScope(s) PROVE Places'
<1>1. pc[s] = "starting" /\ Sound(pc[s], phase[s], mem[s], helper[s], unit[s])
  BY PlacesAt, AwaitScopeDoes
<1>2. Idle(s) /\ UNCHANGED world /\ slock' = slock /\ ghosts' = ghosts /\ budget' \in Spent
  BY AwaitScopeDoes
<1>3. Worlds
  <2>1. JournalStays \/ \E m \in Memories : JournalSays(s, m)
    BY AwaitScopeDoes
  <2> QED  BY <1>2, <2>1, StillWorlds
<1>4. CASE Turns(s, "stopping") /\ Phased(s, "stopping") /\ Recalls(s, mem[s])
  <2>1. Steps(s, "stopping", "stopping", mem[s], helper[s], unit[s])
    BY <1>2, <1>4 DEF Steps, Idle
  <2>2. Sound("stopping", "stopping", mem[s], helper[s], unit[s])
    BY <1>1 DEF Sound, Remembers, Whole, Enters, Helps, Runs, Blank, Stale, Early, Undoing, Dead, Begun
  <2> QED  BY <1>1, <1>3, <2>1, <2>2, PlacesOn DEF Dead, Stale, Lowering
<1>5. CASE unit[s] = "gone" /\ Turns(s, "cleanup") /\ Phased(s, phase[s]) /\ Quiet(s)
  <2>1. PICK n \in Memories : /\ Recalls(s, n) /\ n.quiesced /\ n.client = mem[s].client
                              /\ n.written = mem[s].written
                              /\ SameLease(n, mem[s]) /\ SameUnit(n, mem[s]) /\ SameRest(n, mem[s])
    BY <1>5 DEF Quiet
  <2>2. Steps(s, "cleanup", phase[s], n, helper[s], unit[s])
    BY <1>2, <1>5, <2>1 DEF Steps, Idle
  <2>3. Sound("cleanup", phase[s], n, helper[s], unit[s])
    BY <1>1, <1>5, <2>1 DEF SameLease, SameUnit, SameGame, SameRest, Sound, Remembers, Whole, Enters, Helps,
         Runs, Blank, Stale, Early, Undoing, Dead, Begun
  <2> QED  BY <1>1, <1>3, <2>2, <2>3, PlacesOn DEF Dead, Stale, Lowering
<1>6. ASSUME NEW m \in Memories, NEW n \in Memories,
             m.scope, m.unit = mem[s].unit, m.written = mem[s].written,
             SameLease(m, mem[s]), SameGame(m, mem[s]), SameRest(m, mem[s]),
             \/ /\ Turns(s, "running") /\ Phased(s, "running") /\ Recalls(s, n) /\ n.written = "running"
                /\ SameLease(n, m) /\ SameUnit(n, m) /\ SameGame(n, m) /\ SameRest(n, m)
             \/ Turns(s, "cleanup") /\ Phased(s, phase[s]) /\ Recalls(s, m)
      PROVE  Places'
  <2>1. CASE /\ Turns(s, "running") /\ Phased(s, "running") /\ Recalls(s, n) /\ n.written = "running"
             /\ SameLease(n, m) /\ SameUnit(n, m) /\ SameGame(n, m) /\ SameRest(n, m)
    <3>1. Steps(s, "running", "running", n, helper[s], unit[s])
      BY <1>2, <2>1 DEF Steps, Idle
    <3>2. Sound("running", "running", n, helper[s], unit[s])
      BY <1>1, <1>6, <2>1 DEF SameLease, SameUnit, SameGame, SameRest, Sound, Remembers, Whole, Enters, Helps,
           Runs, Blank, Stale, Early, Undoing, Dead, Begun
    <3> QED  BY <1>1, <1>3, <3>1, <3>2, PlacesOn DEF Dead, Stale, Lowering
  <2>2. CASE Turns(s, "cleanup") /\ Phased(s, phase[s]) /\ Recalls(s, m)
    <3>1. Steps(s, "cleanup", phase[s], m, helper[s], unit[s])
      BY <1>2, <2>2 DEF Steps, Idle
    <3>2. Sound("cleanup", phase[s], m, helper[s], unit[s])
      BY <1>1, <1>6 DEF SameLease, SameUnit, SameGame, SameRest, Sound, Remembers, Whole, Enters, Helps, Runs,
           Blank, Stale, Early, Undoing, Dead, Begun
    <3> QED  BY <1>1, <1>3, <3>1, <3>2, PlacesOn DEF Dead, Stale, Lowering
  <2> QED  BY <1>6, <2>1, <2>2
<1> QED  BY <1>4, <1>5, <1>6, AwaitScopeDoes

LEMMA RunPlaces == ASSUME Places, NEW s \in Sessions, Run(s) PROVE Places'
<1>1. pc[s] = "running" /\ Sound(pc[s], phase[s], mem[s], helper[s], unit[s])
  BY PlacesAt, RunDoes
<1>2. Idle(s)
  BY RunDoes
<1>3. Worlds
  BY RunDoes, StillWorlds DEF Still
<1>4. CASE unit[s] = "gone" /\ Turns(s, "cleanup") /\ Phased(s, phase[s]) /\ Quiet(s)
  <2>1. PICK n \in Memories : /\ Recalls(s, n) /\ n.quiesced /\ n.client = mem[s].client
                              /\ n.written = mem[s].written
                              /\ SameLease(n, mem[s]) /\ SameUnit(n, mem[s]) /\ SameRest(n, mem[s])
    BY <1>4 DEF Quiet
  <2>2. Steps(s, "cleanup", phase[s], n, helper[s], unit[s])
    BY <1>2, <1>4, <2>1 DEF Steps, Idle
  <2>3. Sound("cleanup", phase[s], n, helper[s], unit[s])
    BY <1>1, <1>4, <2>1 DEF SameLease, SameUnit, SameGame, SameRest, Sound, Remembers, Whole, Enters, Helps,
         Runs, Blank, Stale, Early, Undoing, Dead, Begun
  <2> QED  BY <1>1, <1>3, <2>2, <2>3, PlacesOn DEF Dead, Stale, Lowering
<1>5. CASE Turns(s, "stopping") /\ Phased(s, "stopping") /\ Recalls(s, mem[s])
  <2>1. Steps(s, "stopping", "stopping", mem[s], helper[s], unit[s])
    BY <1>2, <1>5 DEF Steps, Idle
  <2>2. Sound("stopping", "stopping", mem[s], helper[s], unit[s])
    BY <1>1 DEF Sound, Remembers, Whole, Enters, Helps, Runs, Blank, Stale, Early, Undoing, Dead, Begun
  <2> QED  BY <1>1, <1>3, <2>1, <2>2, PlacesOn DEF Dead, Stale, Lowering
<1> QED  BY <1>4, <1>5, RunDoes

LEMMA StopPlaces == ASSUME Places, NEW s \in Sessions, Stop(s) PROVE Places'
<1>1. pc[s] = "stopping" /\ Sound(pc[s], phase[s], mem[s], helper[s], unit[s])
  BY PlacesAt, StopDoes
<1>2. Turns(s, "cleanup") /\ Phased(s, phase[s]) /\ Helped(s, helper[s])
  BY StopDoes
<1>3. Worlds
  BY StopDoes, StillWorlds DEF Still
<1>4. CASE Scoped(s, "gone") /\ Quiet(s)
  <2>1. PICK n \in Memories : /\ Recalls(s, n) /\ n.quiesced /\ n.client = mem[s].client
                              /\ n.written = mem[s].written
                              /\ SameLease(n, mem[s]) /\ SameUnit(n, mem[s]) /\ SameRest(n, mem[s])
    BY <1>4 DEF Quiet
  <2>2. Steps(s, "cleanup", phase[s], n, helper[s], "gone")
    BY <1>2, <1>4, <2>1 DEF Steps
  <2>3. Sound("cleanup", phase[s], n, helper[s], "gone")
    BY <1>1, <2>1 DEF SameLease, SameUnit, SameGame, SameRest, Sound, Remembers, Whole, Enters, Helps, Runs,
         Blank, Stale, Early, Undoing, Dead, Begun
  <2> QED  BY <1>1, <1>3, <2>2, <2>3, PlacesOn DEF Dead, Stale, Lowering
<1>5. CASE Scoped(s, unit[s]) /\ Recalls(s, mem[s])
  <2>1. Steps(s, "cleanup", phase[s], mem[s], helper[s], unit[s])
    BY <1>2, <1>5 DEF Steps
  <2>2. Sound("cleanup", phase[s], mem[s], helper[s], unit[s])
    BY <1>1 DEF Sound, Remembers, Whole, Enters, Helps, Runs, Blank, Stale, Early, Undoing, Dead, Begun
  <2> QED  BY <1>1, <1>3, <2>1, <2>2, PlacesOn DEF Dead, Stale, Lowering
<1> QED  BY <1>4, <1>5, StopDoes

LEMMA CleanupPlaces == ASSUME Places, NEW s \in Sessions, Cleanup(s) PROVE Places'
<1> DEFINE f == IF mem[s].client /\ phase[s] \in {"starting-backend", "running"} THEN "stopping" ELSE phase[s]
<1>1. /\ pc[s] = "cleanup" /\ Sound(pc[s], phase[s], mem[s], helper[s], unit[s])
      /\ mem[s] \in Memories /\ unit[s] \in Units /\ ghosts \subseteq Sessions
  BY PlacesAt, CleanupDoes
<1>2. Phased(s, f) /\ Helped(s, helper[s])
  BY CleanupDoes
<1>3. Worlds
  <2>1. ghosts' \subseteq Sessions
    BY <1>1, CleanupDoes
  <2> QED  BY <2>1, CleanupDoes, JournalTypes, WorldStays DEF Still
<1>4. mem[s].client \in BOOLEAN /\ mem[s].quiesced \in BOOLEAN
  BY <1>1, MemoryIs
<1>f. /\ mem[s].client => f = "stopping"
      /\ ~mem[s].client => f = phase[s]
      /\ f \in {"preflight", "acquiring-input", "input-owned", "starting-backend", "stopping", "running"}
      /\ mem[s].lease = 0 => f \in {"preflight", "acquiring-input"}
  BY <1>1, <1>4 DEF Sound, Enters, Whole, Begun
<1> HIDE DEF f
<1>5. CASE /\ mem[s].client => mem[s].quiesced
           /\ Turns(s, "power") /\ Scoped(s, unit[s]) /\ Recalls(s, mem[s])
  <2>1. Steps(s, "power", f, mem[s], helper[s], unit[s])
    BY <1>2, <1>5 DEF Steps
  <2>2. unit[s] \in {"none", "gone"}
    BY <1>1, <1>5 DEF Sound, Runs, Dead
  <2>3. Sound("power", f, mem[s], helper[s], unit[s])
    BY <1>1, <1>4, <1>f, <1>5, <2>2 DEF Sound, Remembers, Whole, Enters, Helps, Runs, Blank, Stale, Early,
         Undoing, Dead, Begun
  <2> QED  BY <1>1, <1>3, <2>1, <2>3, PlacesOn DEF Dead, Stale, Lowering
<1>6. CASE mem[s].client /\ Turns(s, "power") /\ Scoped(s, "gone") /\ Quiet(s)
  <2>1. PICK n \in Memories : /\ Recalls(s, n) /\ n.quiesced /\ n.client = mem[s].client
                              /\ n.written = mem[s].written
                              /\ SameLease(n, mem[s]) /\ SameUnit(n, mem[s]) /\ SameRest(n, mem[s])
    BY <1>6 DEF Quiet
  <2>2. Steps(s, "power", f, n, helper[s], "gone")
    BY <1>2, <1>6, <2>1 DEF Steps
  <2>3. Sound("power", f, n, helper[s], "gone")
    BY <1>1, <1>4, <1>f, <1>6, <2>1 DEF SameLease, SameUnit, SameGame, SameRest, Sound, Remembers, Whole,
         Enters, Helps, Runs, Blank, Stale, Early, Undoing, Dead, Begun
  <2> QED  BY <1>1, <1>3, <2>2, <2>3, PlacesOn DEF Dead, Stale, Lowering
<1>7. CASE mem[s].client /\ Turns(s, "release") /\ Scoped(s, unit[s]) /\ Recalls(s, mem[s])
  <2>1. Steps(s, "release", f, mem[s], helper[s], unit[s])
    BY <1>2, <1>7 DEF Steps
  <2>2. Sound("release", f, mem[s], helper[s], unit[s])
    BY <1>1, <1>4, <1>f, <1>7 DEF Sound, Remembers, Whole, Enters, Helps, Runs, Blank, Stale, Early, Undoing,
         Dead, Begun
  <2> QED  BY <1>1, <1>3, <2>1, <2>2, PlacesOn DEF Dead, Stale, Lowering
<1> QED  BY <1>5, <1>6, <1>7, CleanupDoes

LEMMA FailsPlaces ==
  ASSUME Places, NEW s \in Sessions, Fails(s), Phased(s, phase[s]), Idle(s), Worlds,
         \/ pc[s] \in {"power", "unboost", "clear"} /\ Turns(s, "restore")
         \/ pc[s] = "recover" /\ Turns(s, "remove")
  PROVE  Places'
<1>1. Sound(pc[s], phase[s], mem[s], helper[s], unit[s])
  BY PlacesAt
<1>2. PICK n \in Memories : /\ Recalls(s, n) /\ n.kept = TRUE /\ n.boost = mem[s].boost
                            /\ n.written = mem[s].written
                            /\ SameLease(n, mem[s]) /\ SameUnit(n, mem[s]) /\ SameGame(n, mem[s])
  BY DEF Fails
<1>3. CASE pc[s] \in {"power", "unboost", "clear"} /\ Turns(s, "restore")
  <2>1. Steps(s, "restore", phase[s], n, helper[s], unit[s])
    BY <1>2, <1>3 DEF Steps, Idle
  <2>2. Sound("restore", phase[s], n, helper[s], unit[s])
    BY <1>1, <1>2, <1>3 DEF SameLease, SameUnit, SameGame, SameRest, Sound, Remembers, Whole, Enters, Helps,
         Runs, Blank, Stale, Early, Undoing, Dead, Begun
  <2> QED  BY <1>3, <2>1, <2>2, PlacesOn DEF Dead, Stale, Lowering
<1>4. CASE pc[s] = "recover" /\ Turns(s, "remove")
  <2>1. Steps(s, "remove", phase[s], n, helper[s], unit[s])
    BY <1>2, <1>4 DEF Steps, Idle
  <2>2. Sound("remove", phase[s], n, helper[s], unit[s])
    BY <1>1, <1>2, <1>4 DEF SameLease, SameUnit, SameGame, SameRest, Sound, Remembers, Whole, Enters, Helps,
         Runs, Blank, Stale, Early, Undoing, Dead, Begun
  <2> QED  BY <1>4, <2>1, <2>2, PlacesOn DEF Dead, Stale, Lowering
<1> QED  BY <1>3, <1>4

LEMMA RestorePowerPlaces == ASSUME Places, NEW s \in Sessions, RestorePower(s) PROVE Places'
<1>1. pc[s] = "power" /\ Sound(pc[s], phase[s], mem[s], helper[s], unit[s])
  BY PlacesAt, RestorePowerDoes
<1>2. Phased(s, phase[s]) /\ Idle(s)
  BY RestorePowerDoes
<1>3. Worlds
  BY RestorePowerDoes, StillWorlds DEF Still
<1>4. CASE Turns(s, "restore") /\ Fails(s)
  BY <1>1, <1>2, <1>3, <1>4, FailsPlaces
<1>5. ASSUME NEW p \in {"restore", "unboost", "clear"}, Turns(s, p), Recalls(s, mem[s]),
             p = "restore" <=> mem[s].boost = "none"
      PROVE  Places'
  <2>1. Steps(s, p, phase[s], mem[s], helper[s], unit[s])
    BY <1>2, <1>5 DEF Steps, Idle
  <2>2. Sound(p, phase[s], mem[s], helper[s], unit[s])
    BY <1>1, <1>5 DEF Sound, Remembers, Whole, Enters, Helps, Runs, Blank, Stale, Early, Undoing, Dead, Begun
  <2> QED  BY <1>1, <1>3, <2>1, <2>2, PlacesOn DEF Dead, Stale, Lowering
<1> QED  BY <1>4, <1>5, RestorePowerDoes

LEMMA UnboostPlaces == ASSUME Places, NEW s \in Sessions, Unboost(s) PROVE Places'
<1>1. /\ pc[s] = "unboost" /\ Sound(pc[s], phase[s], mem[s], helper[s], unit[s])
      /\ PowerType /\ OrphanType /\ ghosts \subseteq Sessions
  BY PlacesAt, UnboostDoes
<1>2. Phased(s, phase[s]) /\ Idle(s) /\ mem[s].boost \in Powers
  BY UnboostDoes
<1>3. PowerType' /\ OrphanType'
  <2>1. "restore" \in Owners
    BY DEF Owners
  <2>2. PowerStep(mem[s].boost, "restore") \/ UNCHANGED <<power, powerBy>>
    BY UnboostDoes
  <2>3. PowerType'
    BY <1>1, <1>2, <2>1, <2>2, PowerStepType DEF PowerType
  <2> QED  BY <1>1, <2>3, UnboostDoes DEF OrphanType
<1>4. Worlds
  BY <1>1, <1>3, UnboostDoes, JournalTypes, WorldsOn
<1>5. CASE Turns(s, "restore") /\ Fails(s)
  BY <1>1, <1>2, <1>4, <1>5, FailsPlaces
<1>6. CASE Turns(s, "clear") /\ Recalls(s, mem[s])
  <2>1. Steps(s, "clear", phase[s], mem[s], helper[s], unit[s])
    BY <1>2, <1>6 DEF Steps, Idle
  <2>2. Sound("clear", phase[s], mem[s], helper[s], unit[s])
    BY <1>1 DEF Sound, Remembers, Whole, Enters, Helps, Runs, Blank, Stale, Early, Undoing, Dead, Begun
  <2> QED  BY <1>1, <1>4, <2>1, <2>2, PlacesOn DEF Dead, Stale, Lowering
<1> QED  BY <1>5, <1>6, UnboostDoes

LEMMA ClearPowerPlaces == ASSUME Places, NEW s \in Sessions, ClearPower(s) PROVE Places'
<1>1. pc[s] = "clear" /\ Sound(pc[s], phase[s], mem[s], helper[s], unit[s])
  BY PlacesAt, ClearPowerDoes
<1>2. Turns(s, "restore") /\ Phased(s, phase[s]) /\ Idle(s) /\ UNCHANGED world /\ slock' = slock
      /\ ghosts' = ghosts /\ budget' \in Spent
  BY ClearPowerDoes
<1>3. Worlds
  <2>1. JournalStays \/ \E m \in Memories : JournalSays(s, m)
    BY ClearPowerDoes
  <2> QED  BY <1>2, <2>1, StillWorlds
<1>4. CASE Fails(s)
  BY <1>1, <1>2, <1>3, <1>4, FailsPlaces
<1>5. ASSUME NEW m \in Memories, NEW n \in Memories,
             m.boost = "none", m.kept = mem[s].kept, m.written = mem[s].written,
             SameLease(m, mem[s]), SameUnit(m, mem[s]), SameGame(m, mem[s]),
             Recalls(s, n), n.written = mem[s].written,
             SameLease(n, m), SameUnit(n, m), SameGame(n, m), SameRest(n, m)
      PROVE  Places'
  <2>1. Steps(s, "restore", phase[s], n, helper[s], unit[s])
    BY <1>2, <1>5 DEF Steps, Idle
  <2>2. Sound("restore", phase[s], n, helper[s], unit[s])
    BY <1>1, <1>5 DEF SameLease, SameUnit, SameGame, SameRest, Sound, Remembers, Whole, Enters, Helps, Runs,
         Blank, Stale, Early, Undoing, Dead, Begun
  <2> QED  BY <1>1, <1>3, <2>1, <2>2, PlacesOn DEF Dead, Stale, Lowering
<1> QED  BY <1>4, <1>5, ClearPowerDoes

LEMMA RestorePlaces == ASSUME Places, NEW s \in Sessions, Restore(s) PROVE Places'
<1>1. /\ pc[s] = "restore" /\ Sound(pc[s], phase[s], mem[s], helper[s], unit[s])
      /\ mem[s] \in Memories
  BY PlacesAt, RestoreDoes
<1>2. Idle(s) /\ UNCHANGED world /\ slock' = slock /\ ghosts' = ghosts /\ budget' \in Spent
  BY RestoreDoes
<1>3. Worlds
  <2>1. JournalStays \/ \E m \in Memories : JournalSays(s, m)
    BY <1>1, RestoreDoes
  <2> QED  BY <1>2, <2>1, StillWorlds
<1>4. CASE mem[s].lease = 0 /\ Turns(s, "remove") /\ Phased(s, phase[s]) /\ Recalls(s, mem[s])
  <2>1. Steps(s, "remove", phase[s], mem[s], helper[s], unit[s])
    BY <1>2, <1>4 DEF Steps, Idle
  <2>2. Sound("remove", phase[s], mem[s], helper[s], unit[s])
    BY <1>1, <1>4 DEF Sound, Remembers, Whole, Enters, Helps, Runs, Blank, Stale, Early, Undoing, Dead, Begun
  <2> QED  BY <1>1, <1>3, <2>1, <2>2, PlacesOn DEF Dead, Stale, Lowering
<1>5. ASSUME mem[s].lease # 0, Turns(s, "recover"), Phased(s, "restoring"), Recalls(s, mem[s])
      PROVE  Places'
  <2>1. Steps(s, "recover", "restoring", mem[s], helper[s], unit[s])
    BY <1>2, <1>5 DEF Steps, Idle
  <2>2. Sound("recover", "restoring", mem[s], helper[s], unit[s])
    BY <1>1, <1>5 DEF Sound, Remembers, Whole, Enters, Helps, Runs, Blank, Stale, Early, Undoing, Dead, Begun
  <2> QED  BY <1>1, <1>3, <2>1, <2>2, PlacesOn DEF Dead, Stale, Lowering
<1>6. ASSUME NEW n \in Memories,
             mem[s].lease # 0, Turns(s, "recover"), Phased(s, "restoring"), Recalls(s, n),
             mem[s].written # "none", n.written = RestoringPhase(s), SameLease(n, mem[s]),
             SameUnit(n, mem[s]), SameGame(n, mem[s]), SameRest(n, mem[s])
      PROVE  Places'
  <2>1. Steps(s, "recover", "restoring", n, helper[s], unit[s])
    BY <1>2, <1>6 DEF Steps, Idle
  <2>2. Sound("recover", "restoring", n, helper[s], unit[s])
    BY <1>1, <1>6 DEF SameLease, SameUnit, SameGame, SameRest, RestoringPhase, Sound, Remembers, Whole, Enters,
         Helps, Runs, Blank, Stale, Early, Undoing, Dead, Begun
  <2> QED  BY <1>1, <1>3, <2>1, <2>2, PlacesOn DEF Dead, Stale, Lowering
<1> QED  BY <1>4, <1>5, <1>6, RestoreDoes

LEMMA RecoverPlaces == ASSUME Places, NEW s \in Sessions, Recover(s) PROVE Places'
<1>1. /\ pc[s] = "recover" /\ Sound(pc[s], phase[s], mem[s], helper[s], unit[s])
      /\ PowerType /\ OrphanType /\ ghosts \subseteq Sessions
  BY PlacesAt, RecoverDoes
<1>2. Turns(s, "remove") /\ Phased(s, phase[s]) /\ Idle(s)
  BY RecoverDoes
<1>3. PowerType' /\ OrphanType' /\ PadStep
  BY <1>1, RecoverDoes DEF PowerType, OrphanType, PadYields
<1>4. Worlds
  BY <1>1, <1>3, RecoverDoes, JournalTypes, WorldsOn
<1>5. CASE Fails(s)
  BY <1>1, <1>2, <1>4, <1>5, FailsPlaces
<1>6. CASE Recalls(s, mem[s])
  <2>1. Steps(s, "remove", phase[s], mem[s], helper[s], unit[s])
    BY <1>2, <1>6 DEF Steps, Idle
  <2>2. Sound("remove", phase[s], mem[s], helper[s], unit[s])
    BY <1>1 DEF Sound, Remembers, Whole, Enters, Helps, Runs, Blank, Stale, Early, Undoing, Dead, Begun
  <2> QED  BY <1>1, <1>4, <2>1, <2>2, PlacesOn DEF Dead, Stale, Lowering
<1> QED  BY <1>5, <1>6, RecoverDoes

LEMMA RemovePlaces == ASSUME Places, NEW s \in Sessions, Remove(s) PROVE Places'
<1>1. pc[s] = "remove" /\ Sound(pc[s], phase[s], mem[s], helper[s], unit[s])
  BY PlacesAt, RemoveDoes
<1>2. Turns(s, "release") /\ Phased(s, phase[s]) /\ Recalls(s, mem[s]) /\ Idle(s)
  BY RemoveDoes
<1>3. Worlds
  BY RemoveDoes, StillWorlds DEF JournalStays
<1>4. Steps(s, "release", phase[s], mem[s], helper[s], unit[s])
  BY <1>2 DEF Steps, Idle
<1>5. Sound("release", phase[s], mem[s], helper[s], unit[s])
  BY <1>1 DEF Sound, Remembers, Whole, Enters, Helps, Runs, Blank, Stale, Early, Undoing, Dead, Begun
<1> QED  BY <1>1, <1>3, <1>4, <1>5, PlacesOn DEF Dead, Stale, Lowering

LEMMA SignalPlaces == ASSUME Places, NEW s \in Sessions, Signal(s) PROVE Places'
<1>1. pc[s] \notin Dead /\ Sound(pc[s], phase[s], mem[s], helper[s], unit[s])
  BY PlacesAt, SignalDoes
<1>2. Turns(s, pc[s]) /\ Phased(s, phase[s]) /\ Idle(s) /\ rec' = rec
  BY SignalDoes DEF Still, JournalStays
<1>3. Worlds
  BY SignalDoes, StillWorlds DEF Still
<1>4. PICK n \in Memories : /\ Recalls(s, n) /\ n.written = mem[s].written /\ SameLease(n, mem[s])
                            /\ SameUnit(n, mem[s]) /\ SameGame(n, mem[s]) /\ SameRest(n, mem[s])
  BY SignalDoes
<1>5. Steps(s, pc[s], phase[s], n, helper[s], unit[s])
  BY <1>2, <1>4 DEF Steps, Idle
<1>6. Sound(pc[s], phase[s], n, helper[s], unit[s])
  <2>1. Whole(n)
    BY <1>1, <1>4 DEF SameLease, SameUnit, SameGame, SameRest, Sound, Whole
  <2>2. Remembers(pc[s], n)
    BY <1>1, <1>4 DEF SameLease, SameUnit, SameGame, SameRest, Sound, Remembers, Blank
  <2> QED  BY <1>1, <1>4, <2>1, <2>2 DEF SameLease, SameUnit, SameGame, SameRest, Sound, Enters, Runs
<1>7. /\ pc[s] \in Stale => rec' # NoRecord
      /\ pc[s] \in Lowering => rec'.perf # "none"
  BY <1>2 DEF Places, Stales
<1> QED  BY <1>1, <1>3, <1>5, <1>6, <1>7, PlacesOn

\* All of the first invariant, for a step that takes or frees the flock.
LEMMA PlacesFor ==
  ASSUME Places, NEW s \in Sessions, NEW p, NEW f, NEW m, NEW h, NEW u,
         Steps(s, p, f, m, h, u), Sound(p, f, m, h, u), p \notin Stale, rec' = rec, journaled' = journaled,
         UNCHANGED <<pad, fresh, power, powerBy>>, orphans' \subseteq Orphans,
         slock' \in Sessions \cup {NoOne}, ghosts' \subseteq Sessions, budget' \in Spent, Lock'
  PROVE  Places'
<1>1. Lock /\ Sounds /\ Stales /\ Drawn /\ JournalType /\ PadType /\ PowerType
  BY TypeIs DEF Places
<1>2. TypeOK'
  <2>1. SessionType' /\ JournalType' /\ PadType' /\ PowerType' /\ OrphanType'
    BY <1>1, StepsType DEF JournalType, PadType, PowerType, OrphanType
  <2> QED  BY <2>1 DEF TypeOK, SessionType, JournalType, PadType, PowerType, OrphanType, Units, Pads, Spent,
       Owners
<1>3. Turns(s, p)
  BY DEF Steps
<1>4. Sounds'
  BY <1>1, SoundsOn
<1>5. Stales'
  BY <1>1, <1>3, StalesOn DEF Stale, Lowering
<1>6. Drawn'
  BY <1>1 DEF Drawn
<1> QED  BY <1>2, <1>4, <1>5, <1>6 DEF Places

LEMMA LaunchPlaces == ASSUME Places, NEW s \in Sessions, Launch(s) PROVE Places'
<1>1. /\ pc[s] = "new" /\ Sound(pc[s], phase[s], mem[s], helper[s], unit[s])
      /\ ghosts \subseteq Sessions /\ slock \in Sessions \cup {NoOne} /\ OrphanType /\ Lock
  BY PlacesAt, LaunchDoes DEF Places
<1>2. Recalls(s, mem[s]) /\ Idle(s) /\ rec' = rec /\ journaled' = journaled /\ budget' \in Spent
      /\ UNCHANGED <<pad, fresh, power, powerBy, orphans>> /\ ghosts' = ghosts
  BY LaunchDoes, WorldIs DEF Still, JournalStays
<1>3. CASE slock = NoOne /\ slock' = s /\ Turns(s, "locked") /\ Phased(s, "locked")
  <2>1. Steps(s, "locked", "locked", mem[s], helper[s], unit[s])
    BY <1>2, <1>3 DEF Steps, Idle
  <2>2. Sound("locked", "locked", mem[s], helper[s], unit[s])
    BY <1>1 DEF Sound, Remembers, Whole, Enters, Helps, Runs, Blank, Stale, Early, Undoing, Dead, Begun
  <2>3. Lock'
    BY <1>1, <1>3, Named DEF Lock, Turns, Dead
  <2> QED  BY <1>1, <1>2, <1>3, <2>1, <2>2, <2>3, PlacesFor DEF Stale, OrphanType
<1>4. CASE slock # NoOne /\ slock' = slock /\ Turns(s, "done") /\ Phased(s, "done")
  <2>1. Steps(s, "done", "done", mem[s], helper[s], unit[s])
    BY <1>2, <1>4 DEF Steps, Idle
  <2>2. Sound("done", "done", mem[s], helper[s], unit[s])
    BY <1>1 DEF Sound, Remembers, Whole, Enters, Helps, Runs, Blank, Stale, Early, Undoing, Dead, Begun
  <2>3. Lock'
    BY <1>1, <1>4 DEF Lock, Turns, Dead
  <2> QED  BY <1>1, <1>2, <1>4, <2>1, <2>2, <2>3, PlacesFor DEF Stale, OrphanType
<1> QED  BY <1>3, <1>4, LaunchDoes

LEMMA ReleasePlaces == ASSUME Places, NEW s \in Sessions, Release(s) PROVE Places'
<1>1. /\ pc[s] = "release" /\ Sound(pc[s], phase[s], mem[s], helper[s], unit[s])
      /\ ghosts \subseteq Sessions /\ OrphanType /\ Lock
  BY PlacesAt, ReleaseDoes DEF Places
<1>2. Turns(s, "done") /\ Phased(s, "done") /\ Recalls(s, FreshMemory) /\ Idle(s) /\ rec' = rec
      /\ journaled' = journaled /\ budget' \in Spent /\ slock' = NoOne /\ ghosts' = ghosts
      /\ UNCHANGED <<pad, fresh, power, powerBy, orphans>>
  BY ReleaseDoes, WorldIs DEF Still, JournalStays
<1>3. Steps(s, "done", "done", FreshMemory, helper[s], unit[s])
  BY <1>2 DEF Steps, Idle
<1>4. Sound("done", "done", FreshMemory, helper[s], unit[s])
  BY <1>1, FreshIs DEF Sound, Remembers, Whole, Enters, Helps, Runs, Blank, Stale, Early, Undoing, Dead, Begun
<1>5. Lock'
  BY <1>1, <1>2, Named DEF Lock, Turns, Dead
<1> QED  BY <1>1, <1>2, <1>3, <1>4, <1>5, PlacesFor DEF Stale, OrphanType

LEMMA KillPlaces == ASSUME Places, NEW s \in Sessions, Kill(s) PROVE Places'
<1>1. /\ pc[s] \notin Dead /\ Sound(pc[s], phase[s], mem[s], helper[s], unit[s])
      /\ ghosts \subseteq Sessions /\ OrphanType /\ Lock
  BY PlacesAt, KillDoes DEF Places
<1>2. Turns(s, "killed") /\ Phased(s, phase[s]) /\ Recalls(s, FreshMemory) /\ Idle(s) /\ rec' = rec
      /\ journaled' = journaled /\ budget' \in Spent /\ slock' = NoOne
      /\ UNCHANGED <<pad, fresh, power, powerBy>> /\ orphans' \subseteq Orphans
  BY KillDoes DEF JournalStays
<1>3. ghosts' \subseteq Sessions
  BY <1>1, KillDoes
<1>4. Steps(s, "killed", phase[s], FreshMemory, helper[s], unit[s])
  BY <1>2 DEF Steps, Idle
<1>5. Sound("killed", phase[s], FreshMemory, helper[s], unit[s])
  BY <1>1, FreshIs DEF Sound, Remembers, Whole, Enters, Helps, Runs, Blank, Stale, Early, Undoing, Dead, Begun
<1>6. Lock'
  BY <1>1, <1>2, Named DEF Lock, Turns, Dead
<1> QED  BY <1>1, <1>2, <1>3, <1>4, <1>5, <1>6, PlacesFor DEF Stale

LEMMA AcquirePlaces == ASSUME Places, NEW s \in Sessions, Acquire(s) PROVE Places'
<1>1. /\ Sound(pc[s], phase[s], mem[s], helper[s], unit[s]) /\ TypeOK /\ SessionType /\ Lock /\ Sounds
      /\ Stales /\ fresh \in Nat /\ PadType /\ Drawn /\ pad.token \in Nat
  BY PlacesAt DEF Places
<1>2. UNCHANGED <<pc, phase, mem, unit, slock, rec, power, powerBy, orphans, ghosts, journaled, budget>>
  BY AcquireDoes
<1>3. helper[s].state \in {"started", "claimed", "sent", "mutated"} /\ PadStep
  BY AcquireDoes
<1>4. PICK h \in Helpers :
        /\ Helped(s, h) /\ h.state \in {"claimed", "sent", "mutated", "ok", "failed"}
        /\ h.state \in {"sent", "mutated", "ok"} => h.sent
        /\ h.sent => helper[s].token # 0
        /\ \/ h.token = helper[s].token /\ h.state # "claimed"
           \/ h.token = fresh + 1 /\ ~h.sent /\ h.state = "claimed"
  BY AcquireDoes
<1>5. Steps(s, pc[s], phase[s], mem[s], h, unit[s])
  BY <1>1, <1>2, <1>4, StaysPut DEF Steps
<1>6. pc[s] \in {"acquiring", "killed"}
  BY <1>1, <1>3 DEF Sound, Helps
<1>7. Helps(pc[s], h)
  BY <1>1, <1>4, <1>6 DEF Helps, Early, Stale
<1>8. Sounds'
  BY <1>1, <1>5, <1>7, SoundsOn DEF Sound
<1>9. SessionType' /\ PadType' /\ Drawn'
  BY <1>1, <1>3, <1>5, StepsType DEF PadStep, PadType, Drawn
<1>10. Lock' /\ Stales'
  BY <1>1, <1>2 DEF Lock, Stales
<1>11. TypeOK'
  BY <1>1, <1>2, <1>9 DEF TypeOK, SessionType, PadType, Units, Pads
<1> QED  BY <1>8, <1>9, <1>10, <1>11 DEF Places

LEMMA GamePlaces == ASSUME Places, NEW s \in Sessions, ScopeSettles(s) \/ GameExits(s) PROVE Places'
<1>1. /\ Sound(pc[s], phase[s], mem[s], helper[s], unit[s]) /\ TypeOK /\ SessionType /\ Lock /\ Sounds
      /\ Stales /\ Drawn
  BY PlacesAt DEF Places
<1>2. UNCHANGED <<pc, phase, mem, helper, slock, rec, world, ghosts, journaled, budget>>
  BY GameDoes
<1>3. PICK u \in {"active", "gone"} : Scoped(s, u) /\ (unit[s] = "client" \/ (unit[s] = "active" /\ u = "gone"))
  BY GameDoes
<1>4. Steps(s, pc[s], phase[s], mem[s], helper[s], u)
  BY <1>1, <1>2, <1>3, StaysPut DEF Steps
<1>5. Runs(pc[s], mem[s], u)
  BY <1>1, <1>3 DEF Sound, Runs
<1>6. Sounds'
  BY <1>1, <1>4, <1>5, SoundsOn DEF Sound
<1>7. Lock' /\ Stales' /\ Drawn' /\ SessionType'
  BY <1>1, <1>2, <1>4, StepsType, WorldIs DEF Lock, Stales, Drawn
<1>8. TypeOK'
  BY <1>1, <1>2, <1>7, WorldIs DEF TypeOK, SessionType, Units
<1> QED  BY <1>6, <1>7, <1>8 DEF Places

LEMMA AsidePlaces ==
  ASSUME Places, Aside, UNCHANGED <<pad, fresh>> \/ PadStep, PowerType', orphans' \subseteq Orphans, budget' \in Spent
  PROVE  Places'
<1>1. TypeOK /\ PadType /\ Lock /\ Sounds /\ Stales /\ Drawn
  BY TypeIs DEF Places
<1>2. pad.token \in Nat /\ fresh \in Nat
  BY <1>1 DEF PadType, Pads, Tokens
<1>3. PadType' /\ Drawn'
  BY <1>1, <1>2 DEF PadType, Drawn, PadStep
<1>4. TypeOK'
  BY <1>1, <1>3 DEF Aside, TypeOK, PadType, PowerType, Pads, Spent, Owners
<1>5. Lock' /\ Sounds' /\ Stales'
  BY <1>1 DEF Aside, Lock, Sounds, Stales
<1> QED  BY <1>3, <1>4, <1>5 DEF Places

LEMMA OrphanPlaces == ASSUME Places, OrphanLands PROVE Places'
<1>1. OrphanType /\ PowerType /\ budget \in Spent
  BY TypeIs DEF Places
<1>2. PICK o \in orphans :
        /\ orphans' = orphans \ {o}
        /\ \/ PadYields(o[2]) /\ UNCHANGED <<power, powerBy>>
           \/ PowerType' /\ UNCHANGED <<pad, fresh>>
  BY OrphanDoes
<1>3. UNCHANGED <<pad, fresh>> \/ PadStep
  BY <1>2 DEF PadYields
<1>4. PowerType' /\ orphans' \subseteq Orphans
  BY <1>1, <1>2 DEF PowerType, OrphanType
<1> QED  BY <1>1, <1>3, <1>4, OrphanDoes, AsidePlaces

LEMMA UserPlaces == ASSUME Places, UserSwitches \/ UserSetsPower PROVE Places'
<1>1. OrphanType /\ PowerType
  BY TypeIs DEF Places
<1>2. PowerType' /\ orphans' \subseteq Orphans
  BY <1>1, UserDoes DEF PowerType, OrphanType
<1> QED  BY <1>2, UserDoes, AsidePlaces

LEMMA InitPlaces == Init => Places
<1> SUFFICES ASSUME Init PROVE Places
  OBVIOUS
<1>1. /\ pc = [s \in Sessions |-> "new"] /\ phase = [s \in Sessions |-> "init"]
      /\ mem = [s \in Sessions |-> FreshMemory] /\ unit = [s \in Sessions |-> "none"]
      /\ slock = NoOne /\ rec = NoRecord /\ fresh = 1 /\ power \in Powers /\ powerBy = "user"
      /\ orphans = {} /\ ghosts = {} /\ journaled = {}
  BY DEF Init
<1>2. PICK h : h = [state |-> "none", token |-> 0, previous |-> "joymouse", sent |-> FALSE]
  OBVIOUS
<1>3. helper = [s \in Sessions |-> h]
  BY <1>2 DEF Init
<1>4. h \in Helpers /\ h.state = "none" /\ h.token = 0 /\ h.sent = FALSE
  BY <1>2 DEF Helpers, Tokens, Modes
<1>5. SessionType
  BY <1>1, <1>3, <1>4, FreshIs DEF SessionType, PCs, Phases, Units
<1>6. pad = [token |-> 1, mode |-> "joymouse", by |-> "user"]
  BY DEF Init
<1>7. pad \in Pads /\ pad.token = 1
  BY <1>6 DEF Pads, Tokens, Modes
<1>8. budget \in Spent
  BY DEF Init, Spent
<1>9. TypeOK
  <2>1. PadType /\ JournalType /\ PowerType /\ OrphanType
    BY <1>1, <1>7 DEF PadType, JournalType, PowerType, Owners, OrphanType
  <2> QED  BY <1>1, <1>5, <1>8, <2>1, TypeIs
<1>10. Lock /\ Stales /\ Drawn
  BY <1>1, <1>7, Named DEF Lock, Stales, Drawn, Dead, Stale, Lowering
<1>11. ASSUME NEW s \in Sessions PROVE Sound("new", "init", FreshMemory, h, "none")
  BY <1>4, FreshIs DEF Sound, Remembers, Whole, Enters, Helps, Runs, Blank, Stale, Early, Undoing, Dead, Begun
<1>12. Sounds
  BY <1>1, <1>3, <1>11 DEF Sounds
<1> QED  BY <1>9, <1>10, <1>12 DEF Places

LEMMA PlacesStep == Places /\ [Next]_vars => Places'
<1> SUFFICES ASSUME Places, [Next]_vars PROVE Places'
  OBVIOUS
<1>1. ASSUME NEW s \in Sessions, Supervise(s) PROVE Places'
  <2>1. CASE Launch(s) \/ Preflight(s)
    BY <2>1, LaunchPlaces, PreflightPlaces
  <2>2. CASE StalePower(s) \/ StaleSet(s) \/ StaleJournal(s) \/ StaleInput(s) \/ StaleUnlink(s)
    BY <2>2, StalePowerPlaces, StaleSetPlaces, StaleJournalPlaces, StaleInputPlaces, StaleUnlinkPlaces
  <2>3. CASE StartAcquire(s) \/ ReadReceipt(s) \/ AcquireEnds(s) \/ AcquireStops(s)
    BY <2>3, StartAcquirePlaces, ReadReceiptPlaces, AcquireEndsPlaces, AcquireStopsPlaces
  <2>4. CASE Boost(s) \/ ApplyBoost(s)
    BY <2>4, BoostPlaces, ApplyBoostPlaces
  <2>5. CASE JournalLaunch(s) \/ Popen(s) \/ AwaitScope(s) \/ Run(s) \/ Stop(s)
    BY <2>5, JournalLaunchPlaces, PopenPlaces, AwaitScopePlaces, RunPlaces, StopPlaces
  <2>6. CASE Cleanup(s) \/ RestorePower(s) \/ Unboost(s) \/ ClearPower(s)
    BY <2>6, CleanupPlaces, RestorePowerPlaces, UnboostPlaces, ClearPowerPlaces
  <2>7. CASE Restore(s) \/ Recover(s) \/ Remove(s) \/ Release(s)
    BY <2>7, RestorePlaces, RecoverPlaces, RemovePlaces, ReleasePlaces
  <2> QED  BY <1>1, <2>1, <2>2, <2>3, <2>4, <2>5, <2>6, <2>7 DEF Supervise
<1>2. ASSUME NEW s \in Sessions, Acquire(s) \/ ScopeSettles(s) \/ GameExits(s) \/ Signal(s) \/ Kill(s)
      PROVE  Places'
  BY <1>2, AcquirePlaces, GamePlaces, SignalPlaces, KillPlaces
<1>3. CASE OrphanLands \/ UserSwitches \/ UserSetsPower
  BY <1>3, OrphanPlaces, UserPlaces
<1>4. CASE UNCHANGED vars
  <2>1. Aside /\ UNCHANGED <<pad, fresh, power, powerBy, orphans, budget>>
    BY <1>4, WorldIs DEF vars, Aside
  <2>2. PowerType' /\ orphans' \subseteq Orphans /\ budget' \in Spent
    BY <2>1, TypeIs DEF Places, PowerType, OrphanType
  <2> QED  BY <2>1, <2>2, AsidePlaces
<1> QED  BY <1>1, <1>2, <1>3, <1>4 DEF Next

LEMMA PlacesHold == Spec => []Places
<1> QED  BY InitPlaces, PlacesStep, PTL DEF Spec

\* Every variable keeps its type.
THEOREM TypeCorrect == Spec => []TypeOK
<1>1. Places => TypeOK
  BY DEF Places
<1> QED  BY <1>1, PlacesHold, PTL

-----------------------------------------------------------------------------
(* Phases *)

PhaseStep == \A s \in Sessions : phase'[s] # phase[s] => <<phase[s], phase'[s]>> \in AllowedTransitions

LEMMA PhaseGoes ==
  ASSUME NEW s \in Sessions, NEW f, Phased(s, f),
         f = phase[s] \/ <<phase[s], f>> \in AllowedTransitions
  PROVE  PhaseStep
BY DEF Phased, PhaseStep

LEMMA PhaseStarts ==
  ASSUME Places, NEW s \in Sessions,
         Launch(s) \/ Preflight(s) \/ StartAcquire(s) \/ AcquireEnds(s) \/ JournalLaunch(s)
  PROVE  PhaseStep
<1>1. Enters(pc[s], phase[s], mem[s])
  BY PlacesAt DEF Sound
<1>2. CASE Launch(s)
  <2>1. phase[s] = "init"
    BY <1>1, <1>2, LaunchDoes DEF Enters
  <2> QED  BY <1>2, <2>1, LaunchDoes, PhaseGoes DEF AllowedTransitions
<1>3. CASE Preflight(s)
  <2>1. phase[s] = "locked"
    BY <1>1, <1>3, PreflightDoes DEF Enters
  <2> QED  BY <1>3, <2>1, PreflightDoes, PhaseGoes DEF AllowedTransitions
<1>4. CASE StartAcquire(s)
  <2>1. phase[s] = "preflight"
    BY <1>1, <1>4, StartAcquireDoes DEF Enters
  <2> QED  BY <1>4, <2>1, StartAcquireDoes, PhaseGoes DEF AllowedTransitions
<1>5. CASE AcquireEnds(s)
  <2>1. phase[s] = "acquiring-input"
    BY <1>1, <1>5, AcquireEndsDoes DEF Enters
  <2> QED  BY <1>5, <2>1, AcquireEndsDoes, PhaseGoes DEF AllowedTransitions
<1>6. CASE JournalLaunch(s)
  <2>1. phase[s] = "input-owned"
    BY <1>1, <1>6, JournalLaunchDoes DEF Enters
  <2> QED  BY <1>6, <2>1, JournalLaunchDoes, PhaseGoes DEF AllowedTransitions
<1> QED  BY <1>2, <1>3, <1>4, <1>5, <1>6

LEMMA PhaseEnds ==
  ASSUME Places, NEW s \in Sessions, AwaitScope(s) \/ Run(s) \/ Cleanup(s) \/ Restore(s) \/ Release(s)
  PROVE  PhaseStep
<1>1. Enters(pc[s], phase[s], mem[s]) /\ phase[s] \in Phases
  BY PlacesAt DEF Sound
<1>2. CASE AwaitScope(s)
  <2>1. phase[s] = "starting-backend"
    BY <1>1, <1>2, AwaitScopeDoes DEF Enters
  <2>2. Phased(s, "stopping") \/ Phased(s, "running") \/ Phased(s, phase[s])
    BY <1>2, AwaitScopeDoes
  <2> QED  BY <2>1, <2>2, PhaseGoes DEF AllowedTransitions
<1>3. CASE Run(s)
  <2>1. phase[s] = "running"
    BY <1>1, <1>3, RunDoes DEF Enters
  <2>2. Phased(s, "stopping") \/ Phased(s, phase[s])
    BY <1>3, RunDoes
  <2> QED  BY <2>1, <2>2, PhaseGoes DEF AllowedTransitions
<1>4. CASE Cleanup(s)
  <2>1. Phased(s, phase[s]) \/ (Phased(s, "stopping") /\ phase[s] \in {"starting-backend", "running"})
    BY <1>4, CleanupDoes
  <2> QED  BY <2>1, PhaseGoes DEF AllowedTransitions
<1>5. CASE Restore(s)
  <2>1. phase[s] \in {"preflight", "acquiring-input", "input-owned", "starting-backend", "running", "stopping"}
    BY <1>1, <1>5, RestoreDoes DEF Enters
  <2>2. Phased(s, phase[s]) \/ Phased(s, "restoring")
    BY <1>5, RestoreDoes
  <2> QED  BY <2>1, <2>2, PhaseGoes DEF AllowedTransitions
<1>6. CASE Release(s)
  <2>1. phase[s] \in {"preflight", "acquiring-input", "restoring", "stopping"}
    BY <1>1, <1>6, ReleaseDoes DEF Enters
  <2> QED  BY <1>6, <2>1, ReleaseDoes, PhaseGoes DEF AllowedTransitions
<1> QED  BY <1>2, <1>3, <1>4, <1>5, <1>6

LEMMA PhaseStays ==
  ASSUME Places, NEW s \in Sessions,
         \/ StalePower(s) \/ StaleSet(s) \/ StaleJournal(s) \/ StaleInput(s) \/ StaleUnlink(s)
         \/ ReadReceipt(s) \/ AcquireStops(s) \/ Boost(s) \/ ApplyBoost(s) \/ Popen(s) \/ Stop(s)
         \/ RestorePower(s) \/ Unboost(s) \/ ClearPower(s) \/ Recover(s) \/ Remove(s)
  PROVE  UNCHANGED phase
<1>1. CASE StalePower(s) \/ StaleSet(s) \/ StaleJournal(s) \/ StaleInput(s) \/ StaleUnlink(s)
  BY <1>1 DEF StalePower, StaleSet, StaleJournal, StaleInput, StaleUnlink
<1>2. CASE ReadReceipt(s) \/ AcquireStops(s) \/ Boost(s) \/ ApplyBoost(s) \/ Popen(s) \/ Stop(s)
  BY <1>2 DEF ReadReceipt, AcquireStops, Boost, ApplyBoost, Popen, Stop
<1>3. CASE RestorePower(s) \/ Unboost(s) \/ ClearPower(s) \/ Recover(s) \/ Remove(s)
  BY <1>3 DEF RestorePower, Unboost, ClearPower, Recover, Remove
<1> QED  BY <1>1, <1>2, <1>3

LEMMA AllowedStep == Places /\ [Next]_vars => PhaseStep
<1> SUFFICES ASSUME Places, [Next]_vars PROVE PhaseStep
  OBVIOUS
<1>1. UNCHANGED phase => PhaseStep
  BY DEF PhaseStep
<1>2. ASSUME NEW s \in Sessions, Supervise(s) PROVE PhaseStep
  BY <1>1, <1>2, PhaseStarts, PhaseEnds, PhaseStays DEF Supervise
<1>3. ASSUME NEW s \in Sessions, Acquire(s) PROVE UNCHANGED phase
  BY <1>3, AcquireDoes
<1>4. ASSUME NEW s \in Sessions, ScopeSettles(s) \/ GameExits(s) \/ Signal(s) \/ Kill(s)
      PROVE  UNCHANGED phase
  BY <1>4 DEF ScopeSettles, GameExits, Signal, Kill
<1>5. CASE OrphanLands \/ UserSwitches \/ UserSetsPower
  BY <1>1, <1>5, OrphanDoes, UserDoes DEF Aside
<1>6. CASE UNCHANGED vars
  BY <1>1, <1>6 DEF vars
<1> QED  BY <1>1, <1>2, <1>3, <1>4, <1>5, <1>6 DEF Next

\* No path through a session asks for a phase change that transition() would refuse.
THEOREM PhasesAreAllowedHolds == Spec => PhasesAreAllowed
<1>1. Places /\ [Next]_vars => [PhaseStep]_vars
  BY AllowedStep
<1>2. [][PhaseStep]_vars => PhasesAreAllowed
  BY PTL DEF PhaseStep, PhasesAreAllowed
<1> QED  BY <1>1, <1>2, PlacesHold, PTL DEF Spec

-----------------------------------------------------------------------------
(* Second invariant: whose the journal is *)

\* What session s at place p with memory m may rely on in journal r: nobody writes
\* over it, and nobody begins while an entry is there.
Owning(s, p, m, r) ==
  /\ p \in {"stale-input", "stale-unlink"} => r.perf = "none"
  /\ p = "ready" \/ (p = "acquiring" /\ m.lease = 0) => r = NoRecord
  /\ m.lease # 0 => r = NoRecord \/ r.by = s
  /\ m.written # "none" /\ p # "release" => r.by = s
  /\ m.written \in Begun /\ p # "release" => r.unit
  /\ r.by = s => p \notin Early \cup {"new"} /\ (p \notin Dead => m.lease = r.lease)

Owned  == \A s \in Sessions : Owning(s, pc[s], mem[s], rec)
Shaped == rec # NoRecord => Valid(rec) /\ rec.perf # "performance"

JournalInv == Places /\ Owned /\ Shaped

LEMMA JournalAt ==
  ASSUME JournalInv, NEW s \in Sessions
  PROVE  /\ Places /\ Owning(s, pc[s], mem[s], rec) /\ Sound(pc[s], phase[s], mem[s], helper[s], unit[s])
         /\ rec \in Records \cup {NoRecord} /\ mem[s] \in Memories
<1>1. Places /\ Owned
  BY DEF JournalInv
<1> QED  BY <1>1, PlacesAt DEF Owned, JournalType

\* Of the others, none is at work.
LEMMA OwnedOn ==
  ASSUME Places, Owned, NEW s \in Sessions, NEW p, NEW m, Turns(s, p), Recalls(s, m), pc[s] \notin Dead,
         Owning(s, p, m, rec'), rec'.by \in {rec.by, s, NoOne}
  PROVE  Owned'
<1> SUFFICES ASSUME NEW t \in Sessions, t # s PROVE Owning(t, pc'[t], mem'[t], rec')
  BY DEF Owned, Turns, Recalls
<1>1. pc'[t] = pc[t] /\ mem'[t] = mem[t]
  BY DEF Turns, Recalls
<1>2. pc[t] \in Dead
  BY OthersRest DEF Places
<1>3. Blank(mem[t])
  BY <1>2, PlacesAt DEF Sound, Remembers
<1>4. rec'.by = t => pc[t] # "new"
  BY Named DEF Owned, Owning
<1> QED  BY <1>1, <1>2, <1>3, <1>4 DEF Owning, Blank, Dead, Early, Stale, Begun

\* A step that leaves the journal alone.
LEMMA JournalKept ==
  ASSUME JournalInv, NEW s \in Sessions, NEW p, NEW m, Turns(s, p), Recalls(s, m), pc[s] \notin Dead,
         JournalStays, Owning(s, p, m, rec)
  PROVE  Owned' /\ Shaped'
<1>1. Places /\ Owned /\ Shaped /\ rec' = rec
  BY DEF JournalInv, JournalStays
<1>2. Owned'
  BY <1>1, OwnedOn
<1> QED  BY <1>1, <1>2 DEF Shaped, Valid

\* A step that publishes memory m.
LEMMA JournalWritten ==
  ASSUME JournalInv, NEW s \in Sessions, NEW p, NEW m \in Memories, NEW n \in Memories, NEW q,
         Turns(s, p), Recalls(s, n), pc[s] \notin Dead,
         JournalSays(s, m), rec'.phase = q, n.lease = m.lease, m.lease # 0,
         n.written \in Begun => m.unit, p \notin Early \cup {"new"},
         q # "acquiring-input" => m.unit, q = "running" => m.scope, m.scope => m.unit,
         m.boost # "performance"
  PROVE  Owned' /\ Shaped'
<1>1. Places /\ Owned /\ Shaped
  BY DEF JournalInv
<1>2. rec'.by = s /\ rec'.lease = m.lease /\ rec'.unit = m.unit /\ rec'.scope = m.scope /\ rec'.perf = m.boost
  BY DEF JournalSays
<1>3. Owning(s, p, n, rec')
  BY <1>2 DEF Owning, Early, Stale
<1>4. Owned'
  BY <1>1, <1>2, <1>3, OwnedOn
<1>5. Valid(rec)' /\ rec'.perf # "performance"
  BY <1>2 DEF Valid
<1> QED  BY <1>4, <1>5 DEF Shaped

LEMMA StaleOwns ==
  ASSUME JournalInv, NEW s \in Sessions, Preflight(s) \/ StalePower(s) \/ StaleSet(s) \/ StaleInput(s)
  PROVE  Owned' /\ Shaped'
<1>1. Places /\ Owning(s, pc[s], mem[s], rec) /\ Sound(pc[s], phase[s], mem[s], helper[s], unit[s])
  BY JournalAt
<1>2. CASE Preflight(s)
  <2>1. pc[s] = "locked" /\ Recalls(s, mem[s]) /\ JournalStays
    BY <1>1, <1>2, PreflightDoes DEF Still
  <2>2. PICK p \in {"ready", "stale-power", "stale-input", "cleanup"} :
          Turns(s, p) /\ (p = "ready" => rec = NoRecord) /\ (p = "stale-input" => rec.perf = "none")
    BY <1>1, <1>2, PreflightDoes
  <2>3. Owning(s, p, mem[s], rec)
    BY <1>1, <2>1, <2>2 DEF Owning, Sound, Remembers, Blank, Early, Begun
  <2> QED  BY <2>1, <2>2, <2>3, JournalKept DEF Dead
<1>3. CASE StalePower(s)
  <2>1. pc[s] = "stale-power" /\ Recalls(s, mem[s]) /\ JournalStays
    BY <1>1, <1>3, StalePowerDoes DEF Still
  <2>2. PICK p \in {"stale-set", "stale-journal", "cleanup"} : Turns(s, p)
    BY <1>1, <1>3, StalePowerDoes
  <2>3. Owning(s, p, mem[s], rec)
    BY <1>1, <2>1, <2>2 DEF Owning, Sound, Remembers, Blank, Early, Stale, Begun
  <2> QED  BY <2>1, <2>2, <2>3, JournalKept DEF Dead
<1>4. CASE StaleSet(s)
  <2>1. pc[s] = "stale-set" /\ Recalls(s, mem[s]) /\ JournalStays
    BY <1>1, <1>4, StaleSetDoes
  <2>2. PICK p \in {"stale-journal", "cleanup"} : Turns(s, p)
    BY <1>1, <1>4, StaleSetDoes
  <2>3. Owning(s, p, mem[s], rec)
    BY <1>1, <2>1, <2>2 DEF Owning, Sound, Remembers, Blank, Early, Stale, Begun
  <2> QED  BY <2>1, <2>2, <2>3, JournalKept DEF Dead
<1>5. CASE StaleInput(s)
  <2>1. pc[s] = "stale-input" /\ Recalls(s, mem[s]) /\ JournalStays
    BY <1>1, <1>5, StaleInputDoes
  <2>2. PICK p \in {"stale-unlink", "cleanup"} : Turns(s, p)
    BY <1>1, <1>5, StaleInputDoes
  <2>3. Owning(s, p, mem[s], rec)
    BY <1>1, <2>1, <2>2 DEF Owning, Sound, Remembers, Blank, Early, Stale, Begun
  <2> QED  BY <2>1, <2>2, <2>3, JournalKept DEF Dead
<1> QED  BY <1>2, <1>3, <1>4, <1>5

LEMMA StaleJournalOwns == ASSUME JournalInv, NEW s \in Sessions, StaleJournal(s) PROVE Owned' /\ Shaped'
<1>1. /\ Places /\ Owning(s, pc[s], mem[s], rec) /\ Sound(pc[s], phase[s], mem[s], helper[s], unit[s])
      /\ Owned /\ Shaped
  BY JournalAt DEF JournalInv
<1>2. pc[s] = "stale-journal" /\ Recalls(s, mem[s])
  BY <1>1, StaleJournalDoes
<1>3. Blank(mem[s]) /\ rec.by # s
  BY <1>1, <1>2 DEF Owning, Sound, Remembers, Early, Stale
<1>4. rec # NoRecord
  BY <1>1, <1>2 DEF Places, Stales, Stale
<1>5. CASE Turns(s, "cleanup") /\ JournalStays
  <2>1. Owning(s, "cleanup", mem[s], rec)
    BY <1>3 DEF Owning, Blank, Begun
  <2> QED  BY <1>2, <1>5, <2>1, JournalKept DEF Dead
<1>6. ASSUME NEW p \in {"stale-input", "cleanup"}, Turns(s, p), Settled PROVE Owned' /\ Shaped'
  <2>1. rec'.by = rec.by /\ rec'.perf = "none"
    BY <1>6 DEF Settled
  <2>2. Owning(s, p, mem[s], rec')
    BY <1>3, <2>1 DEF Owning, Blank, Begun
  <2>3. Owned'
    BY <1>1, <1>2, <1>6, <2>1, <2>2, OwnedOn DEF Dead
  <2>4. Valid(rec)'
    BY <1>1, <1>4, <1>6 DEF Shaped, Settled, Valid
  <2> QED  BY <2>1, <2>3, <2>4 DEF Shaped
<1> QED  BY <1>1, <1>5, <1>6, StaleJournalDoes

\* The journal is emptied.
LEMMA JournalEmptied ==
  ASSUME JournalInv, NEW s \in Sessions, NEW p, Turns(s, p), Recalls(s, mem[s]), pc[s] \notin Dead,
         rec' = NoRecord, p = "release" \/ (p = "ready" /\ Blank(mem[s]))
  PROVE  Owned' /\ Shaped'
<1>1. Places /\ Owned
  BY DEF JournalInv
<1>2. rec'.by = NoOne /\ NoOne # s
  BY Named DEF NoRecord
<1>3. Owning(s, p, mem[s], rec')
  BY <1>2 DEF Owning, Blank, Begun
<1> QED  BY <1>1, <1>2, <1>3, OwnedOn DEF Shaped

LEMMA StaleUnlinkOwns == ASSUME JournalInv, NEW s \in Sessions, StaleUnlink(s) PROVE Owned' /\ Shaped'
<1>1. Places /\ Owning(s, pc[s], mem[s], rec) /\ Sound(pc[s], phase[s], mem[s], helper[s], unit[s])
  BY JournalAt
<1>2. pc[s] = "stale-unlink" /\ Recalls(s, mem[s]) /\ journaled' = journaled
  BY <1>1, StaleUnlinkDoes
<1>3. Blank(mem[s]) /\ rec.by # s
  BY <1>1, <1>2 DEF Owning, Sound, Remembers, Early, Stale
<1>4. CASE Turns(s, "ready") /\ rec' = NoRecord
  BY <1>2, <1>3, <1>4, JournalEmptied DEF Dead
<1>5. CASE Turns(s, "cleanup") /\ rec' = rec
  <2>1. Owning(s, "cleanup", mem[s], rec)
    BY <1>3 DEF Owning, Blank, Begun
  <2> QED  BY <1>2, <1>5, <2>1, JournalKept DEF Dead, JournalStays
<1> QED  BY <1>1, <1>4, <1>5, StaleUnlinkDoes

\* A step past the recovery of a stale journal that leaves the journal, and the
\* lease and the phase that the session remembers.
LEMMA JournalLeft ==
  ASSUME JournalInv, NEW s \in Sessions, NEW p, NEW m, Turns(s, p), Recalls(s, m), JournalStays,
         m.lease = mem[s].lease, m.written = mem[s].written,
         pc[s] \notin Dead \cup Early \cup {"release"}, p \notin Early \cup {"new"},
         p = "acquiring" => pc[s] = "acquiring"
  PROVE  Owned' /\ Shaped'
<1>1. Owning(s, pc[s], mem[s], rec)
  BY JournalAt
<1>2. Owning(s, p, m, rec)
  BY <1>1 DEF Owning, Early, Stale
<1> QED  BY <1>2, JournalKept

LEMMA AcquireOwns ==
  ASSUME JournalInv, NEW s \in Sessions,
         StartAcquire(s) \/ ReadReceipt(s) \/ AcquireEnds(s) \/ AcquireStops(s)
  PROVE  Owned' /\ Shaped'
<1>1. Places /\ Owning(s, pc[s], mem[s], rec) /\ Sound(pc[s], phase[s], mem[s], helper[s], unit[s])
  BY JournalAt
<1>2. CASE StartAcquire(s)
  <2>1. pc[s] = "ready" /\ Recalls(s, mem[s]) /\ JournalStays
    BY <1>1, <1>2, StartAcquireDoes DEF Still
  <2>2. PICK p \in {"acquiring", "cleanup"} : Turns(s, p)
    BY <1>1, <1>2, StartAcquireDoes
  <2>3. Blank(mem[s]) /\ rec = NoRecord
    BY <1>1, <2>1 DEF Owning, Sound, Remembers, Early
  <2>4. Owning(s, p, mem[s], rec)
    BY <2>3, NoRecordIs DEF Owning, Blank, Begun
  <2> QED  BY <2>1, <2>2, <2>4, JournalKept DEF Dead
<1>3. CASE ReadReceipt(s)
  <2>1. PICK m \in Memories, n \in Memories :
          /\ m.lease = helper[s].token /\ m.written = mem[s].written
          /\ SameUnit(m, mem[s]) /\ SameGame(m, mem[s]) /\ SameRest(m, mem[s])
          /\ \/ /\ Turns(s, "acquiring") /\ Helped(s, helper[s])
                /\ JournalSays(s, m) /\ rec'.phase = "acquiring-input"
                /\ Recalls(s, n) /\ n.written = "acquiring-input"
                /\ SameLease(n, m) /\ SameUnit(n, m) /\ SameGame(n, m) /\ SameRest(n, m)
             \/ /\ Turns(s, "cleanup") /\ Over(s) /\ Recalls(s, m)
                /\ JournalStays \/ (JournalSays(s, m) /\ rec'.phase = "acquiring-input")
    BY <1>1, <1>3, ReadReceiptDoes
  <2>2. pc[s] = "acquiring" /\ helper[s].sent /\ mem[s].lease = 0
    BY <1>1, <1>3, ReadReceiptDoes
  <2>3. rec = NoRecord /\ m.lease # 0 /\ mem[s].written = "none" /\ mem[s].boost = "none" /\ ~mem[s].unit
    BY <1>1, <2>1, <2>2 DEF Owning, Sound, Helps, Remembers, Whole
  <2>4. m.boost = "none" /\ (m.scope => m.unit) /\ m.written = "none"
    BY <1>1, <2>1, <2>3 DEF Sound, Whole, SameRest, SameUnit
  <2>5. CASE /\ Turns(s, "acquiring") /\ JournalSays(s, m) /\ rec'.phase = "acquiring-input"
             /\ Recalls(s, n) /\ n.written = "acquiring-input" /\ SameLease(n, m)
    BY <2>2, <2>3, <2>4, <2>5, JournalWritten DEF Dead, Early, Stale, Begun, SameLease
  <2>6. CASE Turns(s, "cleanup") /\ Recalls(s, m) /\ JournalSays(s, m) /\ rec'.phase = "acquiring-input"
    BY <2>2, <2>3, <2>4, <2>6, JournalWritten DEF Dead, Early, Stale, Begun
  <2>7. CASE Turns(s, "cleanup") /\ Recalls(s, m) /\ JournalStays
    <3>1. Owning(s, "cleanup", m, rec)
      BY <2>3, <2>4, NoRecordIs DEF Owning, Begun
    <3> QED  BY <2>2, <2>7, <3>1, JournalKept DEF Dead
  <2> QED  BY <2>1, <2>5, <2>6, <2>7
<1>4. CASE AcquireEnds(s)
  <2>1. pc[s] = "acquiring" /\ Recalls(s, mem[s]) /\ JournalStays
    BY <1>1, <1>4, AcquireEndsDoes DEF Still
  <2>2. PICK p \in {"owned", "cleanup"} : Turns(s, p)
    BY <1>1, <1>4, AcquireEndsDoes
  <2> QED  BY <2>1, <2>2, JournalLeft DEF Dead, Early, Stale
<1>5. CASE AcquireStops(s)
  <2>1. pc[s] = "acquiring" /\ Recalls(s, mem[s]) /\ JournalStays
    BY <1>1, <1>5, AcquireStopsDoes DEF Still
  <2>2. PICK p \in {"acquiring", "cleanup"} : Turns(s, p)
    BY <1>1, <1>5, AcquireStopsDoes
  <2> QED  BY <2>1, <2>2, JournalLeft DEF Dead, Early, Stale
<1> QED  BY <1>2, <1>3, <1>4, <1>5

LEMMA BoostOwns == ASSUME JournalInv, NEW s \in Sessions, Boost(s) \/ ApplyBoost(s) PROVE Owned' /\ Shaped'
<1>1. Places /\ Sound(pc[s], phase[s], mem[s], helper[s], unit[s])
  BY JournalAt
<1>2. CASE Boost(s)
  <2>1. pc[s] = "owned"
    BY <1>1, <1>2, BoostDoes
  <2>2. mem[s].lease # 0 /\ mem[s].written = "acquiring-input" /\ (mem[s].scope => mem[s].unit)
    BY <1>1, <2>1 DEF Sound, Remembers, Whole
  <2>3. CASE (Turns(s, "cleanup") \/ Turns(s, "launch")) /\ Recalls(s, mem[s]) /\ JournalStays
    BY <2>1, <2>3, JournalLeft DEF Dead, Early, Stale
  <2>4. ASSUME NEW m \in Memories, NEW n \in Memories,
               m.boost = power, power # "performance", m.kept = mem[s].kept, m.written = mem[s].written,
               SameLease(m, mem[s]), SameUnit(m, mem[s]), SameGame(m, mem[s]),
               Turns(s, "boosting"), JournalSays(s, m), rec'.phase = mem[s].written,
               Recalls(s, n), n.written = mem[s].written,
               SameLease(n, m), SameUnit(n, m), SameGame(n, m), SameRest(n, m)
        PROVE  Owned' /\ Shaped'
    <3>1. m.lease # 0 /\ n.lease = m.lease /\ (m.scope => m.unit) /\ m.boost # "performance"
      BY <2>2, <2>4 DEF SameLease, SameUnit
    <3> QED  BY <2>1, <2>2, <2>4, <3>1, JournalWritten DEF Dead, Early, Stale, Begun
  <2>5. ASSUME NEW m \in Memories,
               m.boost = power, power # "performance", m.kept = mem[s].kept, m.written = mem[s].written,
               SameLease(m, mem[s]), SameUnit(m, mem[s]), SameGame(m, mem[s]),
               Turns(s, "launch"), Recalls(s, mem[s]),
               JournalStays \/ (JournalSays(s, m) /\ rec'.phase = mem[s].written)
        PROVE  Owned' /\ Shaped'
    <3>1. m.lease # 0 /\ mem[s].lease = m.lease /\ (m.scope => m.unit) /\ m.boost # "performance"
      BY <2>2, <2>5 DEF SameLease, SameUnit
    <3>2. CASE JournalStays
      BY <2>1, <2>5, <3>2, JournalLeft DEF Dead, Early, Stale
    <3>3. CASE JournalSays(s, m) /\ rec'.phase = mem[s].written
      <4>1. mem[s] \in Memories
        BY JournalAt
      <4> QED  BY <2>1, <2>2, <2>5, <3>1, <3>3, <4>1, JournalWritten DEF Dead, Early, Stale, Begun
    <3> QED  BY <2>5, <3>2, <3>3
  <2> QED  BY <1>1, <1>2, <2>3, <2>4, <2>5, BoostDoes
<1>3. CASE ApplyBoost(s)
  <2>1. pc[s] = "boosting" /\ Recalls(s, mem[s]) /\ JournalStays /\ Turns(s, "launch")
    BY <1>1, <1>3, ApplyBoostDoes
  <2> QED  BY <2>1, JournalLeft DEF Dead, Early, Stale
<1> QED  BY <1>2, <1>3

LEMMA JournalLaunchOwns == ASSUME JournalInv, NEW s \in Sessions, JournalLaunch(s) PROVE Owned' /\ Shaped'
<1>1. Places /\ Sound(pc[s], phase[s], mem[s], helper[s], unit[s])
  BY JournalAt
<1>2. pc[s] = "launch"
  BY <1>1, JournalLaunchDoes
<1>3. mem[s].lease # 0 /\ mem[s].written = "acquiring-input" /\ mem[s].boost # "performance"
  BY <1>1, <1>2 DEF Sound, Remembers, Whole
<1>4. CASE Turns(s, "cleanup") /\ Recalls(s, mem[s]) /\ JournalStays
  BY <1>2, <1>4, JournalLeft DEF Dead, Early, Stale
<1>5. ASSUME NEW m \in Memories, NEW n \in Memories,
             m.unit, m.scope = mem[s].scope, m.written = mem[s].written,
             SameLease(m, mem[s]), SameGame(m, mem[s]), SameRest(m, mem[s]),
             \/ /\ Turns(s, "popen") /\ JournalSays(s, m) /\ rec'.phase = "starting"
                /\ Recalls(s, n) /\ n.written = "starting"
                /\ SameLease(n, m) /\ SameUnit(n, m) /\ SameGame(n, m) /\ SameRest(n, m)
             \/ /\ Turns(s, "cleanup") /\ Recalls(s, m)
                /\ JournalStays \/ (JournalSays(s, m) /\ rec'.phase = "starting")
      PROVE  Owned' /\ Shaped'
  <2>1. m.lease # 0 /\ m.boost # "performance" /\ m.lease = mem[s].lease
    BY <1>3, <1>5 DEF SameLease, SameRest
  <2>2. CASE /\ Turns(s, "popen") /\ JournalSays(s, m) /\ rec'.phase = "starting"
             /\ Recalls(s, n) /\ n.written = "starting" /\ SameLease(n, m)
    BY <1>2, <1>5, <2>1, <2>2, JournalWritten DEF Dead, Early, Stale, SameLease
  <2>3. CASE Turns(s, "cleanup") /\ Recalls(s, m) /\ JournalStays
    BY <1>2, <1>5, <2>1, <2>3, JournalLeft DEF Dead, Early, Stale
  <2>4. CASE Turns(s, "cleanup") /\ Recalls(s, m) /\ JournalSays(s, m) /\ rec'.phase = "starting"
    BY <1>2, <1>5, <2>1, <2>4, JournalWritten DEF Dead, Early, Stale
  <2> QED  BY <1>5, <2>2, <2>3, <2>4
<1> QED  BY <1>1, <1>4, <1>5, JournalLaunchDoes

LEMMA AwaitScopeOwns == ASSUME JournalInv, NEW s \in Sessions, AwaitScope(s) PROVE Owned' /\ Shaped'
<1>1. Places /\ Sound(pc[s], phase[s], mem[s], helper[s], unit[s])
  BY JournalAt
<1>2. pc[s] = "starting"
  BY <1>1, AwaitScopeDoes
<1>3. mem[s].lease # 0 /\ mem[s].unit /\ mem[s].boost # "performance"
  BY <1>1, <1>2 DEF Sound, Remembers, Whole, Begun
<1>4. CASE Turns(s, "stopping") /\ Recalls(s, mem[s]) /\ JournalStays
  BY <1>2, <1>4, JournalLeft DEF Dead, Early, Stale
<1>5. CASE Turns(s, "cleanup") /\ Quiet(s) /\ JournalStays
  BY <1>2, <1>5, JournalLeft DEF Dead, Early, Stale, Quiet, SameLease
<1>6. ASSUME NEW m \in Memories, NEW n \in Memories,
             m.scope, m.unit = mem[s].unit, m.written = mem[s].written,
             SameLease(m, mem[s]), SameGame(m, mem[s]), SameRest(m, mem[s]),
             \/ /\ Turns(s, "running") /\ JournalSays(s, m) /\ rec'.phase = "running"
                /\ Recalls(s, n) /\ n.written = "running"
                /\ SameLease(n, m) /\ SameUnit(n, m) /\ SameGame(n, m) /\ SameRest(n, m)
             \/ /\ Turns(s, "cleanup") /\ Recalls(s, m)
                /\ JournalStays \/ (JournalSays(s, m) /\ rec'.phase = "running")
      PROVE  Owned' /\ Shaped'
  <2>1. m.lease # 0 /\ m.boost # "performance" /\ m.lease = mem[s].lease /\ m.unit
    BY <1>3, <1>6 DEF SameLease, SameRest
  <2>2. CASE /\ Turns(s, "running") /\ JournalSays(s, m) /\ rec'.phase = "running"
             /\ Recalls(s, n) /\ n.written = "running" /\ SameLease(n, m)
    BY <1>2, <1>6, <2>1, <2>2, JournalWritten DEF Dead, Early, Stale, SameLease
  <2>3. CASE Turns(s, "cleanup") /\ Recalls(s, m) /\ JournalStays
    BY <1>2, <1>6, <2>1, <2>3, JournalLeft DEF Dead, Early, Stale
  <2>4. CASE Turns(s, "cleanup") /\ Recalls(s, m) /\ JournalSays(s, m) /\ rec'.phase = "running"
    BY <1>2, <1>6, <2>1, <2>4, JournalWritten DEF Dead, Early, Stale
  <2> QED  BY <1>6, <2>2, <2>3, <2>4
<1> QED  BY <1>1, <1>4, <1>5, <1>6, AwaitScopeDoes

LEMMA StillOwns ==
  ASSUME JournalInv, NEW s \in Sessions,
         \/ Popen(s) \/ Run(s) \/ Stop(s) \/ Cleanup(s)
         \/ RestorePower(s) \/ Unboost(s) \/ Recover(s)
  PROVE  Owned' /\ Shaped'
<1>1. Places
  BY JournalAt
<1>2. Quiet(s) \/ Fails(s) => \E n \in Memories : /\ Recalls(s, n) /\ n.lease = mem[s].lease
                                                  /\ n.written = mem[s].written
  BY DEF Quiet, Fails, SameLease
<1>3. CASE Popen(s)
  <2>1. pc[s] = "popen" /\ JournalStays
    BY <1>1, <1>3, PopenDoes DEF Still
  <2>2. \E n : Recalls(s, n) /\ n.lease = mem[s].lease /\ n.written = mem[s].written
    BY <1>1, <1>3, PopenDoes DEF SameLease
  <2>3. Turns(s, "cleanup") \/ Turns(s, "starting")
    BY <1>1, <1>3, PopenDoes
  <2> QED  BY <2>1, <2>2, <2>3, JournalLeft DEF Dead, Early, Stale
<1>4. CASE Run(s)
  <2>1. pc[s] = "running" /\ JournalStays
    BY <1>1, <1>4, RunDoes DEF Still
  <2>2. \E n : Recalls(s, n) /\ n.lease = mem[s].lease /\ n.written = mem[s].written
    BY <1>1, <1>2, <1>4, RunDoes
  <2>3. Turns(s, "cleanup") \/ Turns(s, "stopping")
    BY <1>1, <1>4, RunDoes
  <2> QED  BY <2>1, <2>2, <2>3, JournalLeft DEF Dead, Early, Stale
<1>5. CASE Stop(s)
  <2>1. pc[s] = "stopping" /\ JournalStays /\ Turns(s, "cleanup")
    BY <1>1, <1>5, StopDoes DEF Still
  <2>2. \E n : Recalls(s, n) /\ n.lease = mem[s].lease /\ n.written = mem[s].written
    BY <1>1, <1>2, <1>5, StopDoes
  <2> QED  BY <2>1, <2>2, JournalLeft DEF Dead, Early, Stale
<1>6. CASE Cleanup(s)
  <2>1. pc[s] = "cleanup" /\ JournalStays
    BY <1>1, <1>6, CleanupDoes DEF Still
  <2>2. \E n : Recalls(s, n) /\ n.lease = mem[s].lease /\ n.written = mem[s].written
    BY <1>1, <1>2, <1>6, CleanupDoes
  <2>3. Turns(s, "power") \/ Turns(s, "release")
    BY <1>1, <1>6, CleanupDoes
  <2> QED  BY <2>1, <2>2, <2>3, JournalLeft DEF Dead, Early, Stale
<1>7. CASE RestorePower(s)
  <2>1. pc[s] = "power" /\ JournalStays
    BY <1>1, <1>7, RestorePowerDoes DEF Still
  <2>2. \E n : Recalls(s, n) /\ n.lease = mem[s].lease /\ n.written = mem[s].written
    BY <1>1, <1>2, <1>7, RestorePowerDoes
  <2>3. \E p \in {"restore", "unboost", "clear"} : Turns(s, p)
    BY <1>1, <1>7, RestorePowerDoes
  <2> QED  BY <2>1, <2>2, <2>3, JournalLeft DEF Dead, Early, Stale
<1>8. CASE Unboost(s)
  <2>1. pc[s] = "unboost" /\ JournalStays
    BY <1>1, <1>8, UnboostDoes
  <2>2. \E n : Recalls(s, n) /\ n.lease = mem[s].lease /\ n.written = mem[s].written
    BY <1>1, <1>2, <1>8, UnboostDoes
  <2>3. Turns(s, "clear") \/ Turns(s, "restore")
    BY <1>1, <1>8, UnboostDoes
  <2> QED  BY <2>1, <2>2, <2>3, JournalLeft DEF Dead, Early, Stale
<1>9. CASE Recover(s)
  <2>1. pc[s] = "recover" /\ JournalStays /\ Turns(s, "remove")
    BY <1>1, <1>9, RecoverDoes
  <2>2. \E n : Recalls(s, n) /\ n.lease = mem[s].lease /\ n.written = mem[s].written
    BY <1>1, <1>2, <1>9, RecoverDoes
  <2> QED  BY <2>1, <2>2, JournalLeft DEF Dead, Early, Stale
<1> QED  BY <1>3, <1>4, <1>5, <1>6, <1>7, <1>8, <1>9

LEMMA ClearPowerOwns == ASSUME JournalInv, NEW s \in Sessions, ClearPower(s) PROVE Owned' /\ Shaped'
<1>1. Places /\ Sound(pc[s], phase[s], mem[s], helper[s], unit[s])
  BY JournalAt
<1>2. pc[s] = "clear" /\ Turns(s, "restore")
  BY <1>1, ClearPowerDoes
<1>3. /\ mem[s].lease # 0 /\ (mem[s].written # "acquiring-input" => mem[s].unit)
      /\ mem[s].written = "running" => mem[s].scope
      /\ mem[s].scope => mem[s].unit
  <2>1. mem[s].written \in RecordPhases
    BY <1>1, <1>2, BoostAt
  <2> QED  BY <1>1, <1>2, <2>1 DEF Sound, Remembers, Whole, RecordPhases, Begun
<1>4. PICK m \in Memories, n \in Memories :
        /\ m.boost = "none" /\ m.kept = mem[s].kept /\ m.written = mem[s].written
        /\ SameLease(m, mem[s]) /\ SameUnit(m, mem[s]) /\ SameGame(m, mem[s])
        /\ \/ /\ JournalSays(s, m) /\ rec'.phase = mem[s].written
              /\ Recalls(s, n) /\ n.written = mem[s].written
              /\ SameLease(n, m) /\ SameUnit(n, m) /\ SameGame(n, m) /\ SameRest(n, m)
           \/ /\ Fails(s)
              /\ JournalStays \/ (JournalSays(s, m) /\ rec'.phase = mem[s].written)
  BY <1>1, ClearPowerDoes
<1>5. m.lease # 0 /\ m.lease = mem[s].lease /\ m.unit = mem[s].unit /\ m.scope = mem[s].scope
  BY <1>3, <1>4 DEF SameLease, SameUnit
<1>6. CASE JournalSays(s, m) /\ rec'.phase = mem[s].written
  <2>1. PICK k \in Memories : Recalls(s, k) /\ k.lease = m.lease /\ k.written = mem[s].written
    BY <1>4, <1>5 DEF Fails, SameLease
  <2> QED  BY <1>2, <1>3, <1>4, <1>5, <1>6, <2>1, JournalWritten DEF Dead, Early, Stale, Begun
<1>7. CASE Fails(s) /\ JournalStays
  <2>1. PICK k \in Memories : Recalls(s, k) /\ k.lease = mem[s].lease /\ k.written = mem[s].written
    BY <1>7 DEF Fails, SameLease
  <2> QED  BY <1>2, <1>7, <2>1, JournalLeft DEF Dead, Early, Stale
<1> QED  BY <1>4, <1>6, <1>7

LEMMA RestoreOwns == ASSUME JournalInv, NEW s \in Sessions, Restore(s) PROVE Owned' /\ Shaped'
<1>1. /\ Places /\ Sound(pc[s], phase[s], mem[s], helper[s], unit[s]) /\ mem[s] \in Memories
      /\ Owning(s, pc[s], mem[s], rec)
  BY JournalAt
<1>2. pc[s] = "restore"
  BY <1>1, RestoreDoes
<1>3. /\ mem[s].scope => mem[s].unit
      /\ mem[s].boost # "performance"
  BY <1>1 DEF Sound, Whole
<1>4. CASE (Turns(s, "remove") \/ Turns(s, "recover")) /\ Recalls(s, mem[s]) /\ JournalStays
  BY <1>2, <1>4, JournalLeft DEF Dead, Early, Stale
<1>5. ASSUME NEW n \in Memories, mem[s].lease # 0, Turns(s, "recover"), Recalls(s, n),
             n.written = RestoringPhase(s) \/ n.written = mem[s].written, n.lease = mem[s].lease,
             JournalSays(s, mem[s]), rec'.phase = RestoringPhase(s)
      PROVE  Owned' /\ Shaped'
  <2>1. n.written \in Begun => mem[s].unit
    BY <1>1, <1>5 DEF RestoringPhase, Begun, Sound, Whole
  <2>2. /\ RestoringPhase(s) # "acquiring-input" => mem[s].unit
        /\ RestoringPhase(s) # "running"
    BY DEF RestoringPhase
  <2> QED  BY <1>1, <1>2, <1>3, <1>5, <2>1, <2>2, JournalWritten DEF Dead, Early, Stale
<1>6. \/ (Turns(s, "remove") \/ Turns(s, "recover")) /\ Recalls(s, mem[s]) /\ JournalStays
      \/ \E n \in Memories :
           /\ mem[s].lease # 0 /\ Turns(s, "recover") /\ Recalls(s, n)
           /\ n.written = RestoringPhase(s) \/ n.written = mem[s].written
           /\ n.lease = mem[s].lease /\ JournalSays(s, mem[s]) /\ rec'.phase = RestoringPhase(s)
  BY <1>1, RestoreDoes DEF SameLease
<1> QED  BY <1>4, <1>5, <1>6

LEMMA EndOwns ==
  ASSUME JournalInv, NEW s \in Sessions, Launch(s) \/ Remove(s) \/ Release(s) \/ Signal(s) \/ Kill(s)
  PROVE  Owned' /\ Shaped'
<1>1. /\ Places /\ Owning(s, pc[s], mem[s], rec) /\ Sound(pc[s], phase[s], mem[s], helper[s], unit[s])
      /\ Owned /\ Shaped
  BY JournalAt DEF JournalInv
<1>2. CASE Launch(s)
  <2>1. pc[s] = "new" /\ Recalls(s, mem[s]) /\ rec' = rec
    BY <1>1, <1>2, LaunchDoes DEF Still, JournalStays
  <2>2. PICK p \in {"locked", "done"} : Turns(s, p)
    BY <1>1, <1>2, LaunchDoes
  <2>3. Owning(s, p, mem[s], rec)
    BY <1>1, <2>1, <2>2 DEF Owning, Sound, Remembers, Blank, Dead, Begun
  <2>4. Owned'
    BY <1>1, <2>1, <2>2, <2>3 DEF Owned, Turns, Recalls
  <2> QED  BY <1>1, <2>1, <2>4 DEF Shaped, Valid
<1>3. CASE Remove(s)
  <2>1. pc[s] = "remove" /\ Turns(s, "release") /\ Recalls(s, mem[s]) /\ journaled' = journaled
    BY <1>1, <1>3, RemoveDoes
  <2>2. CASE rec' = rec
    BY <2>1, <2>2, JournalLeft DEF Dead, Early, Stale, JournalStays
  <2>3. CASE rec' = NoRecord
    BY <2>1, <2>3, JournalEmptied DEF Dead
  <2> QED  BY <1>1, <1>3, <2>2, <2>3, RemoveDoes
<1>4. CASE Release(s)
  <2>1. pc[s] = "release" /\ Turns(s, "done") /\ Recalls(s, FreshMemory) /\ JournalStays
    BY <1>1, <1>4, ReleaseDoes DEF Still
  <2>2. Owning(s, "done", FreshMemory, rec)
    BY FreshIs DEF Owning, Dead, Early, Stale, Begun
  <2> QED  BY <2>1, <2>2, JournalKept DEF Dead
<1>5. CASE Signal(s)
  <2>1. pc[s] \notin Dead /\ Turns(s, pc[s]) /\ JournalStays
    BY <1>1, <1>5, SignalDoes DEF Still
  <2>2. PICK n \in Memories : Recalls(s, n) /\ n.lease = mem[s].lease /\ n.written = mem[s].written
    BY <1>1, <1>5, SignalDoes DEF SameLease
  <2>3. Owning(s, pc[s], n, rec)
    BY <1>1, <2>2 DEF Owning
  <2> QED  BY <2>1, <2>2, <2>3, JournalKept
<1>6. CASE Kill(s)
  <2>1. pc[s] \notin Dead /\ Turns(s, "killed") /\ Recalls(s, FreshMemory) /\ JournalStays
    BY <1>1, <1>6, KillDoes
  <2>2. Owning(s, "killed", FreshMemory, rec)
    BY FreshIs DEF Owning, Dead, Early, Stale, Begun
  <2> QED  BY <2>1, <2>2, JournalKept
<1> QED  BY <1>2, <1>3, <1>4, <1>5, <1>6

LEMMA JournalInit == Init => JournalInv
<1> SUFFICES ASSUME Init PROVE JournalInv
  OBVIOUS
<1>1. rec = NoRecord /\ pc = [s \in Sessions |-> "new"] /\ mem = [s \in Sessions |-> FreshMemory]
  BY DEF Init
<1>2. Owned
  BY <1>1, FreshIs, NoRecordIs DEF Owned, Owning, Begun
<1> QED  BY <1>1, <1>2, InitPlaces DEF JournalInv, Shaped

LEMMA JournalStep == JournalInv /\ [Next]_vars => JournalInv'
<1> SUFFICES ASSUME JournalInv, [Next]_vars PROVE JournalInv'
  OBVIOUS
<1>1. Places /\ Owned /\ Shaped
  BY DEF JournalInv
<1>2. Places'
  BY <1>1, PlacesStep
<1>3. UNCHANGED <<pc, mem, rec>> => Owned' /\ Shaped'
  BY <1>1 DEF Owned, Shaped, Valid
<1>4. ASSUME NEW s \in Sessions, Supervise(s) PROVE Owned' /\ Shaped'
  <2>1. CASE Launch(s) \/ Remove(s) \/ Release(s)
    BY <2>1, EndOwns
  <2>2. CASE Preflight(s) \/ StalePower(s) \/ StaleSet(s) \/ StaleJournal(s) \/ StaleInput(s) \/ StaleUnlink(s)
    BY <2>2, StaleOwns, StaleJournalOwns, StaleUnlinkOwns
  <2>3. CASE StartAcquire(s) \/ ReadReceipt(s) \/ AcquireEnds(s) \/ AcquireStops(s) \/ Boost(s) \/ ApplyBoost(s)
    BY <2>3, AcquireOwns, BoostOwns
  <2>4. CASE JournalLaunch(s) \/ AwaitScope(s) \/ ClearPower(s) \/ Restore(s)
    BY <2>4, JournalLaunchOwns, AwaitScopeOwns, ClearPowerOwns, RestoreOwns
  <2>5. CASE Popen(s) \/ Run(s) \/ Stop(s) \/ Cleanup(s) \/ RestorePower(s) \/ Unboost(s) \/ Recover(s)
    BY <2>5, StillOwns
  <2> QED  BY <1>4, <2>1, <2>2, <2>3, <2>4, <2>5 DEF Supervise
<1>5. ASSUME NEW s \in Sessions, Acquire(s) \/ ScopeSettles(s) \/ GameExits(s) PROVE UNCHANGED <<pc, mem, rec>>
  BY <1>1, <1>5, AcquireDoes, GameDoes
<1>6. ASSUME NEW s \in Sessions, Signal(s) \/ Kill(s) PROVE Owned' /\ Shaped'
  BY <1>6, EndOwns
<1>7. OrphanLands \/ UserSwitches \/ UserSetsPower => UNCHANGED <<pc, mem, rec>>
  BY <1>1, OrphanDoes, UserDoes DEF Aside
<1>8. UNCHANGED vars => UNCHANGED <<pc, mem, rec>>
  BY DEF vars
<1>9. Owned' /\ Shaped'
  BY <1>3, <1>4, <1>5, <1>6, <1>7, <1>8 DEF Next
<1> QED  BY <1>2, <1>9 DEF JournalInv

LEMMA JournalHolds == Spec => []JournalInv
<1> QED  BY JournalInit, JournalStep, PTL DEF Spec

\* No launch is refused for good because of what an earlier session wrote: every
\* record in place passes the validation of its reader.
THEOREM RecordIsValidHolds == Spec => []RecordIsValid
<1>1. JournalInv => RecordIsValid
  BY DEF JournalInv, Shaped, RecordIsValid
<1> QED  BY <1>1, JournalHolds, PTL

-----------------------------------------------------------------------------
(* Third invariant: leases *)

\* Every token that anything names was drawn before.
Tokened ==
  /\ \A l \in journaled : l \leq fresh
  /\ \A s \in Sessions : mem[s].lease \leq fresh /\ helper[s].token \leq fresh
  /\ rec # NoRecord => rec.lease \leq fresh
  /\ \A o \in orphans : o[2] \leq fresh

\* A journal entry is removed only after its lease is no longer in force.
Freed ==
  \A s \in Sessions :
    /\ pc[s] = "stale-unlink" => pad.token # rec.lease
    /\ pc[s] = "remove" /\ ~mem[s].kept /\ mem[s].lease # 0 => pad.token # mem[s].lease

LeaseInv == JournalInv /\ Tokened /\ Freed /\ JournaledLeaseSurvives

LEMMA TokenTypes ==
  ASSUME Places
  PROVE  /\ fresh \in Nat /\ pad.token \in Nat /\ journaled \subseteq Nat /\ (rec # NoRecord => rec.lease \in Nat)
         /\ \A s \in Sessions : mem[s].lease \in Nat /\ helper[s].token \in Nat
         /\ \A o \in orphans : o[2] \in Nat
<1>1. SessionType /\ JournalType /\ PadType /\ OrphanType
  BY TypeIs DEF Places
<1>2. fresh \in Nat /\ pad.token \in Nat
  BY <1>1 DEF PadType, Pads, Tokens
<1>3. journaled \subseteq Nat /\ (rec # NoRecord => rec.lease \in Nat)
  BY <1>1, RecordIs DEF JournalType, Tokens
<1>4. \A s \in Sessions : mem[s].lease \in Nat /\ helper[s].token \in Nat
  BY <1>1, MemoryIs, HelperIs DEF SessionType
<1>5. \A o \in orphans : o[2] \in Nat
  BY <1>1 DEF OrphanType, Orphans, Tokens
<1> QED  BY <1>2, <1>3, <1>4, <1>5

\* What a supervisor's step does with leases.
Leasing(s) ==
  /\ \E m : Recalls(s, m) /\ m.lease \in {mem[s].lease, 0, helper[s].token}
  /\ \E h : Helped(s, h) /\ h.token = helper[s].token
  /\ \/ JournalStays
     \/ Settled
     \/ \E m \in Memories : /\ JournalSays(s, m) /\ m.lease \in {mem[s].lease, helper[s].token}
                            /\ rec = NoRecord \/ m.lease = rec.lease
     \/ rec' = NoRecord /\ journaled' = journaled /\ pad.token # rec.lease /\ UNCHANGED <<pad, fresh>>
  /\ UNCHANGED <<pad, fresh>> \/ PadStep
  /\ \A o \in orphans' : \/ o \in orphans \/ o[2] \in {0, mem[s].lease}
                         \/ rec # NoRecord /\ o[2] = rec.lease

LEMMA LeaseOn ==
  ASSUME JournalInv, Tokened, JournaledLeaseSurvives, NEW s \in Sessions, Leasing(s)
  PROVE  Tokened' /\ JournaledLeaseSurvives'
<1>1. /\ fresh \in Nat /\ pad.token \in Nat /\ journaled \subseteq Nat /\ (rec # NoRecord => rec.lease \in Nat)
      /\ \A t \in Sessions : mem[t].lease \in Nat /\ helper[t].token \in Nat
      /\ \A o \in orphans : o[2] \in Nat
  BY TokenTypes DEF JournalInv
<1>2. fresh' \in Nat /\ fresh \leq fresh' /\ (pad'.token = pad.token \/ pad'.token = fresh + 1)
  BY <1>1 DEF Leasing, PadStep
<1>3. \A t \in Sessions : mem'[t].lease \leq fresh' /\ helper'[t].token \leq fresh'
  <2>1. PICK m : Recalls(s, m) /\ m.lease \in {mem[s].lease, 0, helper[s].token}
    BY DEF Leasing
  <2>2. PICK h : Helped(s, h) /\ h.token = helper[s].token
    BY DEF Leasing
  <2>3. TAKE t \in Sessions
  <2>4. mem'[t].lease \leq fresh /\ mem'[t].lease \in Nat
    BY <1>1, <2>1 DEF Tokened, Recalls
  <2>5. helper'[t].token \leq fresh /\ helper'[t].token \in Nat
    BY <1>1, <2>2 DEF Tokened, Helped
  <2> QED  BY <1>1, <1>2, <2>4, <2>5
<1>4. \A o \in orphans' : o[2] \leq fresh'
  <2>1. TAKE o \in orphans'
  <2>2. o \in orphans \/ o[2] \in {0, mem[s].lease} \/ (rec # NoRecord /\ o[2] = rec.lease)
    BY DEF Leasing
  <2>3. o[2] \in Nat /\ o[2] \leq fresh
    BY <1>1, <2>2 DEF Tokened
  <2> QED  BY <1>1, <1>2, <2>3
<1>5. ASSUME NEW l \in journaled
      PROVE  l \leq fresh' /\ (pad'.token = l => rec # NoRecord /\ rec.lease = l /\ pad.token = l)
  <2>1. l \in Nat /\ l \leq fresh
    BY <1>1 DEF Tokened
  <2> QED  BY <1>1, <1>2, <2>1 DEF JournaledLeaseSurvives
<1>6. CASE JournalStays \/ Settled
  <2>1. /\ journaled' = journaled
        /\ rec' # NoRecord => rec # NoRecord /\ rec'.lease = rec.lease
        /\ rec # NoRecord => rec' # NoRecord /\ rec'.lease = rec.lease
    <3>1. CASE JournalStays
      BY <3>1 DEF JournalStays
    <3>2. CASE Settled
      <4>1. rec' \in Records /\ rec'.by = rec.by /\ rec'.lease = rec.lease /\ journaled' = journaled
        BY <3>2 DEF Settled
      <4> QED  BY <4>1, RecordIs, NoRecordIs
    <3> QED  BY <1>6, <3>1, <3>2
  <2>2. rec' # NoRecord => rec'.lease \leq fresh'
    BY <1>1, <1>2, <2>1 DEF Tokened
  <2> QED  BY <1>3, <1>4, <1>5, <2>1, <2>2 DEF Tokened, JournaledLeaseSurvives
<1>7. ASSUME NEW m \in Memories, JournalSays(s, m), m.lease \in {mem[s].lease, helper[s].token},
             rec = NoRecord \/ m.lease = rec.lease
      PROVE  Tokened' /\ JournaledLeaseSurvives'
  <2>1. rec' # NoRecord /\ rec'.lease = m.lease /\ journaled' = journaled \cup {m.lease}
    BY <1>7, RecordIs DEF JournalSays
  <2>2. m.lease \in Nat /\ m.lease \leq fresh
    BY <1>1, <1>7 DEF Tokened
  <2>3. m.lease \leq fresh'
    BY <1>1, <1>2, <2>2
  <2> QED  BY <1>3, <1>4, <1>5, <1>7, <2>1, <2>3 DEF Tokened, JournaledLeaseSurvives
<1>8. CASE rec' = NoRecord /\ journaled' = journaled /\ pad.token # rec.lease /\ UNCHANGED <<pad, fresh>>
  BY <1>3, <1>4, <1>5, <1>8 DEF Tokened, JournaledLeaseSurvives
<1> QED  BY <1>6, <1>7, <1>8 DEF Leasing

\* What a session may write is the lease the journal already names, if it names one.
LEMMA LeaseAt ==
  ASSUME JournalInv, NEW s \in Sessions, pc[s] \notin Dead, mem[s].lease # 0
  PROVE  rec = NoRecord \/ mem[s].lease = rec.lease
BY JournalAt DEF Owning

\* A step of a session that brings it neither to the removal of a stale journal nor
\* to that of its own.
Passes(s) == pc[s] \notin Dead /\ \E p \in PCs \ {"stale-unlink", "remove"} : Turns(s, p)

LEMMA FreedOn ==
  ASSUME Places, Freed, NEW s \in Sessions, Passes(s)
  PROVE  Freed'
<1>1. PICK p \in PCs \ {"stale-unlink", "remove"} : Turns(s, p)
  BY DEF Passes
<1> SUFFICES ASSUME NEW t \in Sessions PROVE pc'[t] \notin {"stale-unlink", "remove"}
  BY DEF Freed
<1>2. CASE t = s
  BY <1>1, <1>2 DEF Turns
<1>3. CASE t # s
  <2>1. pc[t] \in Dead
    BY <1>3, OthersRest DEF Places, Passes
  <2> QED  BY <1>1, <1>3, <2>1 DEF Turns, Dead
<1> QED  BY <1>2, <1>3

\* A step that leaves the journal and the input state.
Restful(s) ==
  /\ JournalStays /\ UNCHANGED <<pad, fresh>>
  /\ \E m : Recalls(s, m) /\ m.lease \in {mem[s].lease, 0, helper[s].token}
  /\ \E h : Helped(s, h) /\ h.token = helper[s].token

LEMMA RestfulLeases ==
  ASSUME NEW s \in Sessions, Restful(s),
         orphans' = orphans \/ \E p \in Powers : orphans' = orphans \cup {<<"power", 0, p>>}
  PROVE  Leasing(s)
<1>1. \A o \in orphans' : o \in orphans \/ o[2] = 0
  OBVIOUS
<1> QED  BY <1>1 DEF Restful, Leasing

LEMMA SameLeases ==
  ASSUME NEW s \in Sessions, Quiet(s) \/ Fails(s) \/ Recalls(s, mem[s])
  PROVE  \E m : Recalls(s, m) /\ m.lease = mem[s].lease
BY DEF Quiet, Fails, SameLease

LEMMA StaleLeases ==
  ASSUME JournalInv, NEW s \in Sessions,
         Preflight(s) \/ StalePower(s) \/ StaleSet(s) \/ StaleJournal(s)
  PROVE  Leasing(s) /\ Passes(s)
<1>1. Places
  BY JournalAt
<1>2. CASE Preflight(s)
  <2>1. pc[s] = "locked" /\ Recalls(s, mem[s]) /\ Idle(s) /\ Still
    BY <1>1, <1>2, PreflightDoes
  <2>2. \E p \in {"ready", "stale-power", "stale-input", "cleanup"} : Turns(s, p)
    BY <1>1, <1>2, PreflightDoes
  <2> QED  BY <2>1, <2>2, WorldIs, RestfulLeases DEF Restful, Idle, Still, Passes, Dead, PCs
<1>3. CASE StalePower(s)
  <2>1. pc[s] = "stale-power" /\ Recalls(s, mem[s]) /\ Idle(s) /\ Still
    BY <1>1, <1>3, StalePowerDoes
  <2>2. \E p \in {"stale-set", "stale-journal", "cleanup"} : Turns(s, p)
    BY <1>1, <1>3, StalePowerDoes
  <2> QED  BY <2>1, <2>2, WorldIs, RestfulLeases DEF Restful, Idle, Still, Passes, Dead, PCs
<1>4. CASE StaleSet(s)
  <2>1. /\ pc[s] = "stale-set" /\ Recalls(s, mem[s]) /\ Idle(s) /\ JournalStays /\ UNCHANGED <<pad, fresh>>
        /\ rec.perf \in Powers
    BY <1>1, <1>4, StaleSetDoes
  <2>2. \E p \in {"stale-journal", "cleanup"} : Turns(s, p)
    BY <1>1, <1>4, StaleSetDoes
  <2>3. orphans' = orphans \/ orphans' = orphans \cup {<<"power", 0, rec.perf>>}
    BY <1>1, <1>4, StaleSetDoes
  <2> QED  BY <2>1, <2>2, <2>3, RestfulLeases DEF Restful, Idle, Passes, Dead, PCs
<1>5. CASE StaleJournal(s)
  <2>1. pc[s] = "stale-journal" /\ Recalls(s, mem[s]) /\ Idle(s) /\ UNCHANGED world /\ (JournalStays \/ Settled)
    BY <1>1, <1>5, StaleJournalDoes
  <2>2. \E p \in {"stale-input", "cleanup"} : Turns(s, p)
    BY <1>1, <1>5, StaleJournalDoes
  <2>3. Leasing(s)
    BY <2>1, WorldIs DEF Leasing, Idle
  <2> QED  BY <2>1, <2>2, <2>3 DEF Passes, Dead, PCs
<1> QED  BY <1>2, <1>3, <1>4, <1>5

LEMMA AcquireLeases ==
  ASSUME JournalInv, NEW s \in Sessions,
         StartAcquire(s) \/ ReadReceipt(s) \/ AcquireEnds(s) \/ AcquireStops(s)
  PROVE  Leasing(s) /\ Passes(s)
<1>1. Places
  BY JournalAt
<1>2. Over(s) => \E h : Helped(s, h) /\ h.token = helper[s].token
  BY DEF Over
<1>3. CASE StartAcquire(s)
  <2>1. pc[s] = "ready" /\ Recalls(s, mem[s]) /\ Still
    BY <1>1, <1>3, StartAcquireDoes
  <2>2. \E p \in {"acquiring", "cleanup"} : Turns(s, p)
    BY <1>1, <1>3, StartAcquireDoes
  <2>3. \E h : Helped(s, h) /\ h.token = helper[s].token
    BY <1>1, <1>3, StartAcquireDoes
  <2> QED  BY <2>1, <2>2, <2>3, WorldIs, RestfulLeases DEF Restful, Still, Passes, Dead, PCs
<1>4. CASE ReadReceipt(s)
  <2>1. pc[s] = "acquiring" /\ mem[s].lease = 0 /\ UNCHANGED world
    BY <1>1, <1>4, ReadReceiptDoes
  <2>2. rec = NoRecord
    BY <2>1, JournalAt DEF Owning
  <2>3. \E p \in {"acquiring", "cleanup"} : Turns(s, p)
    BY <1>1, <1>4, ReadReceiptDoes
  <2>4. \E h : Helped(s, h) /\ h.token = helper[s].token
    BY <1>1, <1>2, <1>4, ReadReceiptDoes
  <2>5. \E m : Recalls(s, m) /\ m.lease = helper[s].token
    BY <1>1, <1>4, ReadReceiptDoes DEF SameLease
  <2>6. JournalStays \/ \E m \in Memories : JournalSays(s, m) /\ m.lease = helper[s].token
    BY <1>1, <1>4, ReadReceiptDoes
  <2>7. Leasing(s)
    BY <2>1, <2>2, <2>4, <2>5, <2>6, WorldIs DEF Leasing
  <2> QED  BY <2>1, <2>3, <2>7 DEF Passes, Dead, PCs
<1>5. CASE AcquireEnds(s)
  <2>1. pc[s] = "acquiring" /\ Recalls(s, mem[s]) /\ Idle(s) /\ Still
    BY <1>1, <1>5, AcquireEndsDoes
  <2>2. \E p \in {"owned", "cleanup"} : Turns(s, p)
    BY <1>1, <1>5, AcquireEndsDoes
  <2> QED  BY <2>1, <2>2, WorldIs, RestfulLeases DEF Restful, Idle, Still, Passes, Dead, PCs
<1>6. CASE AcquireStops(s)
  <2>1. pc[s] = "acquiring" /\ Recalls(s, mem[s]) /\ Still
    BY <1>1, <1>6, AcquireStopsDoes
  <2>2. \E p \in {"acquiring", "cleanup"} : Turns(s, p)
    BY <1>1, <1>6, AcquireStopsDoes
  <2>3. \E h : Helped(s, h) /\ h.token = helper[s].token
    BY <1>1, <1>2, <1>6, AcquireStopsDoes
  <2> QED  BY <2>1, <2>2, <2>3, WorldIs, RestfulLeases DEF Restful, Still, Passes, Dead, PCs
<1> QED  BY <1>3, <1>4, <1>5, <1>6

\* A step that may write the journal, under the lease the session has.
LEMMA WritingLeases ==
  ASSUME JournalInv, NEW s \in Sessions, pc[s] \notin Dead, mem[s].lease # 0, Idle(s), UNCHANGED world,
         \E m : Recalls(s, m) /\ m.lease = mem[s].lease,
         JournalStays \/ \E m \in Memories : JournalSays(s, m) /\ m.lease = mem[s].lease
  PROVE  Leasing(s)
BY LeaseAt, WorldIs DEF Leasing, Idle

LEMMA GameLeases ==
  ASSUME JournalInv, NEW s \in Sessions,
         Boost(s) \/ ApplyBoost(s) \/ JournalLaunch(s) \/ AwaitScope(s) \/ ClearPower(s)
  PROVE  Leasing(s) /\ Passes(s)
<1>1. Places /\ Sound(pc[s], phase[s], mem[s], helper[s], unit[s])
  BY JournalAt
<1>2. CASE Boost(s)
  <2>1. pc[s] = "owned" /\ Idle(s) /\ UNCHANGED world
    BY <1>1, <1>2, BoostDoes
  <2>2. mem[s].lease # 0
    BY <1>1, <2>1 DEF Sound, Remembers
  <2>3. \E p \in {"cleanup", "launch", "boosting"} : Turns(s, p)
    BY <1>1, <1>2, BoostDoes
  <2>4. \E m : Recalls(s, m) /\ m.lease = mem[s].lease
    BY <1>1, <1>2, BoostDoes DEF SameLease
  <2>5. JournalStays \/ \E m \in Memories : JournalSays(s, m) /\ m.lease = mem[s].lease
    BY <1>1, <1>2, BoostDoes DEF SameLease
  <2>6. Leasing(s)
    BY <2>1, <2>2, <2>4, <2>5, WritingLeases DEF Dead
  <2> QED  BY <2>1, <2>3, <2>6 DEF Passes, Dead, PCs
<1>3. CASE ApplyBoost(s)
  <2>1. pc[s] = "boosting" /\ Recalls(s, mem[s]) /\ Idle(s) /\ JournalStays /\ UNCHANGED <<pad, fresh>>
    BY <1>1, <1>3, ApplyBoostDoes
  <2>2. Turns(s, "launch") /\ "performance" \in Powers
        /\ (orphans' = orphans \/ orphans' = orphans \cup {<<"power", 0, "performance">>})
    BY <1>1, <1>3, ApplyBoostDoes DEF Powers
  <2> QED  BY <2>1, <2>2, RestfulLeases DEF Restful, Idle, Passes, Dead, PCs
<1>4. CASE JournalLaunch(s)
  <2>1. pc[s] = "launch" /\ Idle(s) /\ UNCHANGED world
    BY <1>1, <1>4, JournalLaunchDoes
  <2>2. mem[s].lease # 0
    BY <1>1, <2>1 DEF Sound, Remembers
  <2>3. \E p \in {"cleanup", "popen"} : Turns(s, p)
    BY <1>1, <1>4, JournalLaunchDoes
  <2>4. \E m : Recalls(s, m) /\ m.lease = mem[s].lease
    BY <1>1, <1>4, JournalLaunchDoes DEF SameLease
  <2>5. JournalStays \/ \E m \in Memories : JournalSays(s, m) /\ m.lease = mem[s].lease
    BY <1>1, <1>4, JournalLaunchDoes DEF SameLease
  <2>6. Leasing(s)
    BY <2>1, <2>2, <2>4, <2>5, WritingLeases DEF Dead
  <2> QED  BY <2>1, <2>3, <2>6 DEF Passes, Dead, PCs
<1>5. CASE AwaitScope(s)
  <2>1. pc[s] = "starting" /\ Idle(s) /\ UNCHANGED world
    BY <1>1, <1>5, AwaitScopeDoes
  <2>2. mem[s].lease # 0
    BY <1>1, <2>1 DEF Sound, Remembers, Whole, Begun
  <2>3. \E p \in {"stopping", "cleanup", "running"} : Turns(s, p)
    BY <1>1, <1>5, AwaitScopeDoes
  <2>4. \E m : Recalls(s, m) /\ m.lease = mem[s].lease
    BY <1>1, <1>5, AwaitScopeDoes, SameLeases DEF SameLease
  <2>5. JournalStays \/ \E m \in Memories : JournalSays(s, m) /\ m.lease = mem[s].lease
    BY <1>1, <1>5, AwaitScopeDoes DEF SameLease
  <2>6. Leasing(s)
    BY <2>1, <2>2, <2>4, <2>5, WritingLeases DEF Dead
  <2> QED  BY <2>1, <2>3, <2>6 DEF Passes, Dead, PCs
<1>6. CASE ClearPower(s)
  <2>1. pc[s] = "clear" /\ Idle(s) /\ UNCHANGED world /\ Turns(s, "restore")
    BY <1>1, <1>6, ClearPowerDoes
  <2>2. mem[s].lease # 0
    BY <1>1, <2>1 DEF Sound, Remembers, Whole
  <2>4. \E m : Recalls(s, m) /\ m.lease = mem[s].lease
    BY <1>1, <1>6, ClearPowerDoes, SameLeases DEF SameLease
  <2>5. JournalStays \/ \E m \in Memories : JournalSays(s, m) /\ m.lease = mem[s].lease
    BY <1>1, <1>6, ClearPowerDoes DEF SameLease
  <2>6. Leasing(s)
    BY <2>1, <2>2, <2>4, <2>5, WritingLeases DEF Dead
  <2> QED  BY <2>1, <2>6 DEF Passes, Dead, PCs
<1> QED  BY <1>2, <1>3, <1>4, <1>5, <1>6

\* Of a session at work, what its own next place asks for is enough.
LEMMA FreedAt ==
  ASSUME Places, NEW s \in Sessions, NEW p, NEW m, Turns(s, p), Recalls(s, m), pc[s] \notin Dead,
         p = "stale-unlink" => pad'.token # rec'.lease,
         p = "remove" /\ ~m.kept /\ m.lease # 0 => pad'.token # m.lease
  PROVE  Freed'
<1> SUFFICES ASSUME NEW t \in Sessions
             PROVE  /\ pc'[t] = "stale-unlink" => pad'.token # rec'.lease
                    /\ pc'[t] = "remove" /\ ~mem'[t].kept /\ mem'[t].lease # 0 => pad'.token # mem'[t].lease
  BY DEF Freed
<1>1. CASE t = s
  BY <1>1 DEF Turns, Recalls
<1>2. CASE t # s
  <2>1. pc[t] \in Dead /\ pc'[t] = pc[t]
    BY <1>2, OthersRest DEF Places, Turns
  <2> QED  BY <2>1 DEF Dead
<1> QED  BY <1>1, <1>2

\* Starting, running, stopping and the power profile: neither journal nor input.
LEMMA RunLeases ==
  ASSUME JournalInv, NEW s \in Sessions,
         \/ Popen(s) \/ Run(s) \/ Stop(s) \/ Cleanup(s) \/ RestorePower(s) \/ Unboost(s) \/ Release(s)
  PROVE  Leasing(s) /\ Passes(s)
<1>1. Places
  BY JournalAt
<1>2. CASE Popen(s)
  <2>1. pc[s] = "popen" /\ Helped(s, helper[s]) /\ Still
    BY <1>1, <1>2, PopenDoes
  <2>2. \E p \in {"cleanup", "starting"} : Turns(s, p)
    BY <1>1, <1>2, PopenDoes
  <2>3. \E m : Recalls(s, m) /\ m.lease = mem[s].lease
    BY <1>1, <1>2, PopenDoes DEF SameLease
  <2> QED  BY <2>1, <2>2, <2>3, WorldIs, RestfulLeases DEF Restful, Still, Passes, Dead, PCs
<1>3. CASE Run(s)
  <2>1. pc[s] = "running" /\ Idle(s) /\ Still
    BY <1>1, <1>3, RunDoes
  <2>2. \E p \in {"cleanup", "stopping"} : Turns(s, p)
    BY <1>1, <1>3, RunDoes
  <2>3. \E m : Recalls(s, m) /\ m.lease = mem[s].lease
    BY <1>1, <1>3, RunDoes, SameLeases
  <2> QED  BY <2>1, <2>2, <2>3, WorldIs, RestfulLeases DEF Restful, Idle, Still, Passes, Dead, PCs
<1>4. CASE Stop(s)
  <2>1. pc[s] = "stopping" /\ Helped(s, helper[s]) /\ Still /\ Turns(s, "cleanup")
    BY <1>1, <1>4, StopDoes
  <2>2. \E m : Recalls(s, m) /\ m.lease = mem[s].lease
    BY <1>1, <1>4, StopDoes, SameLeases
  <2> QED  BY <2>1, <2>2, WorldIs, RestfulLeases DEF Restful, Still, Passes, Dead, PCs
<1>5. CASE Cleanup(s)
  <2>1. pc[s] = "cleanup" /\ Helped(s, helper[s]) /\ Still
    BY <1>1, <1>5, CleanupDoes
  <2>2. \E p \in {"power", "release"} : Turns(s, p)
    BY <1>1, <1>5, CleanupDoes
  <2>3. \E m : Recalls(s, m) /\ m.lease = mem[s].lease
    BY <1>1, <1>5, CleanupDoes, SameLeases
  <2> QED  BY <2>1, <2>2, <2>3, WorldIs, RestfulLeases DEF Restful, Still, Passes, Dead, PCs
<1>6. CASE RestorePower(s)
  <2>1. pc[s] = "power" /\ Idle(s) /\ Still
    BY <1>1, <1>6, RestorePowerDoes
  <2>2. \E p \in {"restore", "unboost", "clear"} : Turns(s, p)
    BY <1>1, <1>6, RestorePowerDoes
  <2>3. \E m : Recalls(s, m) /\ m.lease = mem[s].lease
    BY <1>1, <1>6, RestorePowerDoes, SameLeases
  <2> QED  BY <2>1, <2>2, <2>3, WorldIs, RestfulLeases DEF Restful, Idle, Still, Passes, Dead, PCs
<1>7. CASE Unboost(s)
  <2>1. pc[s] = "unboost" /\ Idle(s) /\ JournalStays /\ UNCHANGED <<pad, fresh>> /\ mem[s].boost \in Powers
    BY <1>1, <1>7, UnboostDoes
  <2>2. \E p \in {"clear", "restore"} : Turns(s, p)
    BY <1>1, <1>7, UnboostDoes
  <2>3. \E m : Recalls(s, m) /\ m.lease = mem[s].lease
    BY <1>1, <1>7, UnboostDoes, SameLeases
  <2>4. orphans' = orphans \/ orphans' = orphans \cup {<<"power", 0, mem[s].boost>>}
    BY <1>1, <1>7, UnboostDoes
  <2> QED  BY <2>1, <2>2, <2>3, <2>4, RestfulLeases DEF Restful, Idle, Passes, Dead, PCs
<1>8. CASE Release(s)
  <2>1. pc[s] = "release" /\ Turns(s, "done") /\ Recalls(s, FreshMemory) /\ Idle(s) /\ Still
    BY <1>1, <1>8, ReleaseDoes
  <2> QED  BY <2>1, FreshIs, WorldIs, RestfulLeases DEF Restful, Idle, Still, Passes, Dead, PCs
<1> QED  BY <1>2, <1>3, <1>4, <1>5, <1>6, <1>7, <1>8

\* Where a lease is taken back, and the journal's entry after it.
LEMMA RestoreLeases ==
  ASSUME JournalInv, Freed, NEW s \in Sessions,
         \/ StaleInput(s) \/ StaleUnlink(s) \/ Restore(s) \/ Recover(s) \/ Remove(s)
  PROVE  Leasing(s) /\ Freed'
<1>1. Places /\ Owning(s, pc[s], mem[s], rec) /\ Sound(pc[s], phase[s], mem[s], helper[s], unit[s])
  BY JournalAt
<1>2. CASE StaleInput(s)
  <2>1. pc[s] = "stale-input" /\ Recalls(s, mem[s]) /\ Idle(s) /\ JournalStays /\ PadStep /\ orphans' = orphans
    BY <1>1, <1>2, StaleInputDoes DEF PadYields
  <2>2. Turns(s, "cleanup") \/ (Turns(s, "stale-unlink") /\ pad'.token # rec.lease)
    BY <1>1, <1>2, StaleInputDoes
  <2>3. Leasing(s)
    BY <2>1 DEF Leasing, Idle
  <2>4. Freed'
    BY <1>1, <2>1, <2>2, FreedAt DEF Dead, JournalStays
  <2> QED  BY <2>3, <2>4
<1>3. CASE StaleUnlink(s)
  <2>1. pc[s] = "stale-unlink" /\ Recalls(s, mem[s]) /\ Idle(s) /\ UNCHANGED world /\ journaled' = journaled
    BY <1>1, <1>3, StaleUnlinkDoes
  <2>2. rec' = NoRecord \/ rec' = rec
    BY <1>1, <1>3, StaleUnlinkDoes DEF JournalStays
  <2>3. \E p \in {"ready", "cleanup"} : Turns(s, p)
    BY <1>1, <1>3, StaleUnlinkDoes
  <2>4. pad.token # rec.lease
    BY <2>1 DEF Freed
  <2>5. Leasing(s)
    BY <2>1, <2>2, <2>4, WorldIs DEF Leasing, Idle, JournalStays
  <2>6. Freed'
    BY <1>1, <2>1, <2>3, FreedAt DEF Dead
  <2> QED  BY <2>5, <2>6
<1>4. CASE Restore(s)
  <2>1. pc[s] = "restore" /\ Idle(s) /\ UNCHANGED world
    BY <1>1, <1>4, RestoreDoes
  <2>2. CASE mem[s].lease = 0 /\ Turns(s, "remove") /\ Recalls(s, mem[s]) /\ JournalStays
    <3>1. Leasing(s)
      BY <2>1, <2>2, WorldIs DEF Leasing, Idle
    <3>2. Freed'
      BY <1>1, <2>1, <2>2, FreedAt DEF Dead
    <3> QED  BY <3>1, <3>2
  <2>3. CASE /\ mem[s].lease # 0 /\ Turns(s, "recover")
             /\ \E m : Recalls(s, m) /\ m.lease = mem[s].lease
             /\ JournalStays \/ JournalSays(s, mem[s])
    <3>1. mem[s] \in Memories
      BY JournalAt
    <3>2. Leasing(s)
      BY <2>1, <2>3, <3>1, WritingLeases DEF Dead
    <3>3. Freed'
      BY <1>1, <2>1, <2>3, FreedAt DEF Dead
    <3> QED  BY <3>2, <3>3
  <2> QED  BY <1>1, <1>4, <2>2, <2>3, RestoreDoes DEF SameLease
<1>5. CASE Recover(s)
  <2>1. pc[s] = "recover" /\ Turns(s, "remove") /\ Idle(s) /\ JournalStays /\ PadStep /\ orphans' = orphans
    BY <1>1, <1>5, RecoverDoes DEF PadYields
  <2>2. Fails(s) \/ (Recalls(s, mem[s]) /\ pad'.token # mem[s].lease)
    BY <1>1, <1>5, RecoverDoes
  <2>3. \E m : Recalls(s, m) /\ m.lease = mem[s].lease
    BY <2>2, SameLeases
  <2>4. Leasing(s)
    BY <2>1, <2>3 DEF Leasing, Idle
  <2>5. Freed'
    BY <1>1, <2>1, <2>2, FreedAt DEF Dead, Fails
  <2> QED  BY <2>4, <2>5
<1>6. CASE Remove(s)
  <2>1. /\ pc[s] = "remove" /\ Turns(s, "release") /\ Recalls(s, mem[s]) /\ Idle(s)
        /\ UNCHANGED world /\ journaled' = journaled
    BY <1>1, <1>6, RemoveDoes
  <2>2. Freed'
    BY <1>1, <2>1, FreedAt DEF Dead
  <2>3. CASE rec' = rec
    BY <2>1, <2>2, <2>3, WorldIs DEF Leasing, Idle, JournalStays
  <2>4. CASE rec' = NoRecord /\ ~mem[s].kept /\ mem[s].written # "none" /\ rec.by = s
    <3>1. mem[s].lease # 0 /\ mem[s].lease = rec.lease
      BY <1>1, <2>1, <2>4 DEF Sound, Whole, Owning, Dead
    <3>2. pad.token # rec.lease
      BY <2>1, <2>4, <3>1 DEF Freed
    <3> QED  BY <2>1, <2>2, <2>4, <3>2, WorldIs DEF Leasing, Idle
  <2> QED  BY <1>1, <1>6, <2>3, <2>4, RemoveDoes
<1> QED  BY <1>2, <1>3, <1>4, <1>5, <1>6

\* Beginning, a signal, a kill: the journal stays, and a command left behind has a lease of before.
LEMMA EndLeases ==
  ASSUME JournalInv, Freed, NEW s \in Sessions, Launch(s) \/ Signal(s) \/ Kill(s)
  PROVE  Leasing(s) /\ Freed'
<1>1. Places
  BY JournalAt
<1>2. CASE Launch(s)
  <2>1. pc[s] = "new" /\ Recalls(s, mem[s]) /\ Idle(s) /\ Still
    BY <1>1, <1>2, LaunchDoes
  <2>2. PICK p \in {"locked", "done"} : Turns(s, p)
    BY <1>1, <1>2, LaunchDoes
  <2>3. rec' = rec /\ pad' = pad
    BY <2>1, WorldIs DEF Still, JournalStays
  <2>4. ASSUME NEW t \in Sessions
        PROVE  mem'[t] = mem[t] /\ (pc'[t] = pc[t] \/ pc'[t] \notin {"stale-unlink", "remove"})
    BY <2>1, <2>2 DEF Turns, Recalls
  <2>5. Freed'
    BY <2>3, <2>4 DEF Freed
  <2> QED  BY <2>1, <2>5, WorldIs, RestfulLeases DEF Restful, Idle, Still
<1>3. CASE Signal(s)
  <2>1. pc[s] \notin Dead /\ Turns(s, pc[s]) /\ Idle(s) /\ Still
    BY <1>1, <1>3, SignalDoes
  <2>2. PICK n : Recalls(s, n) /\ n.lease = mem[s].lease /\ n.kept = mem[s].kept
    BY <1>1, <1>3, SignalDoes DEF SameLease, SameRest
  <2>3. rec' = rec /\ pad' = pad
    BY <2>1, WorldIs DEF Still, JournalStays
  <2>4. Freed'
    BY <1>1, <2>1, <2>2, <2>3, FreedAt DEF Freed
  <2> QED  BY <2>1, <2>2, <2>4, WorldIs, RestfulLeases DEF Restful, Idle, Still
<1>4. CASE Kill(s)
  <2>1. /\ pc[s] \notin Dead /\ Turns(s, "killed") /\ Idle(s) /\ JournalStays /\ Recalls(s, FreshMemory)
        /\ UNCHANGED <<pad, fresh>> /\ orphans' = orphans \cup LeftBehind(s)
    BY <1>1, <1>4, KillDoes
  <2>2. ASSUME NEW o \in LeftBehind(s)
        PROVE  o[2] \in {0, mem[s].lease} \/ (rec # NoRecord /\ o[2] = rec.lease)
    <3>1. pc[s] = "stale-input" => rec # NoRecord
      BY <1>1, StaleRecord DEF Stale
    <3> QED  BY <1>1, <3>1, LeftBehindIs
  <2>3. FreshMemory.lease = 0
    BY FreshIs
  <2>4. Leasing(s)
    BY <2>1, <2>2, <2>3 DEF Leasing, Idle
  <2>5. Freed'
    BY <1>1, <2>1, FreedAt
  <2> QED  BY <2>4, <2>5
<1> QED  BY <1>2, <1>3, <1>4

\* What runs beside the supervisors draws new tokens and reads old ones.
LEMMA BesideLeases ==
  ASSUME LeaseInv, UNCHANGED <<pc, mem, rec, journaled>>, orphans' \subseteq orphans,
         UNCHANGED <<pad, fresh>> \/ PadStep,
         \A t \in Sessions : helper'[t].token = helper[t].token \/ helper'[t].token = fresh'
  PROVE  Tokened' /\ Freed' /\ JournaledLeaseSurvives'
<1>1. JournalInv /\ Tokened /\ Freed /\ JournaledLeaseSurvives
  BY DEF LeaseInv
<1>2. /\ fresh \in Nat /\ pad.token \in Nat /\ journaled \subseteq Nat /\ (rec # NoRecord => rec.lease \in Nat)
      /\ \A t \in Sessions : mem[t].lease \in Nat /\ helper[t].token \in Nat
      /\ \A o \in orphans : o[2] \in Nat
  BY <1>1, TokenTypes DEF JournalInv
<1>3. fresh' \in Nat /\ fresh \leq fresh' /\ (pad'.token = pad.token \/ pad'.token = fresh + 1)
  BY <1>2 DEF PadStep
<1>4. \A t \in Sessions : mem'[t].lease \leq fresh' /\ helper'[t].token \leq fresh'
  <2>1. TAKE t \in Sessions
  <2>2. mem[t].lease \leq fresh /\ helper[t].token \leq fresh
    BY <1>1 DEF Tokened
  <2> QED  BY <1>2, <1>3, <2>2
<1>5. \A o \in orphans' : o[2] \leq fresh'
  BY <1>1, <1>2, <1>3 DEF Tokened
<1>6. ASSUME NEW l \in journaled
      PROVE  l \leq fresh' /\ (pad'.token = l => rec # NoRecord /\ rec.lease = l)
  <2>1. l \in Nat /\ l \leq fresh
    BY <1>1, <1>2 DEF Tokened
  <2> QED  BY <1>1, <1>2, <1>3, <2>1 DEF JournaledLeaseSurvives
<1>7. rec # NoRecord => rec.lease \leq fresh'
  BY <1>1, <1>2, <1>3 DEF Tokened
<1>8. Tokened' /\ JournaledLeaseSurvives'
  BY <1>4, <1>5, <1>6, <1>7 DEF Tokened, JournaledLeaseSurvives
<1>9. ASSUME NEW s \in Sessions
      PROVE  /\ pc[s] = "stale-unlink" => pad'.token # rec.lease
             /\ pc[s] = "remove" /\ ~mem[s].kept /\ mem[s].lease # 0 => pad'.token # mem[s].lease
  <2>1. pc[s] = "stale-unlink" => rec # NoRecord
    BY <1>1, StaleRecord DEF Stale, JournalInv
  <2>2. mem[s].lease \leq fresh /\ (rec # NoRecord => rec.lease \leq fresh)
    BY <1>1 DEF Tokened
  <2> QED  BY <1>1, <1>2, <1>3, <2>1, <2>2 DEF Freed
<1> QED  BY <1>8, <1>9 DEF Freed

LEMMA LeaseInit == Init => LeaseInv
<1> SUFFICES ASSUME Init PROVE LeaseInv
  OBVIOUS
<1>1. /\ rec = NoRecord /\ pc = [s \in Sessions |-> "new"] /\ mem = [s \in Sessions |-> FreshMemory]
      /\ journaled = {} /\ orphans = {} /\ fresh = 1
  BY DEF Init
<1>2. \A s \in Sessions : helper[s].token = 0
  BY DEF Init
<1>3. Tokened
  BY <1>1, <1>2, FreshIs DEF Tokened
<1>4. Freed /\ JournaledLeaseSurvives
  BY <1>1 DEF Freed, JournaledLeaseSurvives
<1> QED  BY <1>3, <1>4, JournalInit DEF LeaseInv

LEMMA LeaseStep == LeaseInv /\ [Next]_vars => LeaseInv'
<1> SUFFICES ASSUME LeaseInv, [Next]_vars PROVE LeaseInv'
  OBVIOUS
<1>1. JournalInv /\ Tokened /\ Freed /\ JournaledLeaseSurvives /\ Places
  BY DEF LeaseInv, JournalInv
<1>2. JournalInv'
  BY <1>1, JournalStep
<1>3. SUFFICES Tokened' /\ Freed' /\ JournaledLeaseSurvives'
  BY <1>2 DEF LeaseInv
<1>4. ASSUME NEW s \in Sessions, Supervise(s) \/ Signal(s) \/ Kill(s)
      PROVE  Tokened' /\ Freed' /\ JournaledLeaseSurvives'
  <2>1. Leasing(s) /\ Freed'
    BY <1>1, <1>4, StaleLeases, AcquireLeases, GameLeases, RunLeases, RestoreLeases, EndLeases, FreedOn
       DEF Supervise
  <2> QED  BY <1>1, <2>1, LeaseOn
<1>5. ASSUME NEW s \in Sessions, Acquire(s) PROVE Tokened' /\ Freed' /\ JournaledLeaseSurvives'
  <2>1. UNCHANGED <<pc, mem, rec, journaled, orphans>> /\ PadStep
    BY <1>1, <1>5, AcquireDoes
  <2>2. \E h : Helped(s, h) /\ (h.token = helper[s].token \/ h.token = fresh')
    BY <1>1, <1>5, AcquireDoes
  <2>3. \A t \in Sessions : helper'[t].token = helper[t].token \/ helper'[t].token = fresh'
    BY <2>2 DEF Helped
  <2> QED  BY <2>1, <2>3, BesideLeases
<1>6. ASSUME NEW s \in Sessions, ScopeSettles(s) \/ GameExits(s)
      PROVE  Tokened' /\ Freed' /\ JournaledLeaseSurvives'
  <2>1. UNCHANGED <<pc, mem, helper, rec, journaled, pad, fresh, orphans>>
    BY <1>1, <1>6, GameDoes, WorldIs
  <2> QED  BY <2>1, BesideLeases
<1>7. CASE OrphanLands
  <2>1. UNCHANGED <<pc, mem, helper, rec, journaled>> /\ orphans' \subseteq orphans
        /\ (UNCHANGED <<pad, fresh>> \/ PadStep)
    BY <1>1, <1>7, OrphanDoes DEF Aside, PadYields
  <2> QED  BY <2>1, BesideLeases
<1>8. CASE UserSwitches \/ UserSetsPower
  <2>1. UNCHANGED <<pc, mem, helper, rec, journaled, orphans>> /\ (UNCHANGED <<pad, fresh>> \/ PadStep)
    BY <1>1, <1>8, UserDoes DEF Aside
  <2> QED  BY <2>1, BesideLeases
<1>9. CASE UNCHANGED vars
  BY <1>9, BesideLeases DEF vars
<1> QED  BY <1>4, <1>5, <1>6, <1>7, <1>8, <1>9 DEF Next

LEMMA LeaseHolds == Spec => []LeaseInv
BY LeaseInit, LeaseStep, PTL DEF Spec

\* A lease that the journal once named is never forgotten: as long as the input state carries
\* it the journal still names it, through failed recoveries and writes, and kills of the
\* supervisor and of its successors.
THEOREM JournaledLeaseSurvivesHolds == Spec => []JournaledLeaseSurvives
<1>1. LeaseInv => JournaledLeaseSurvives
  BY DEF LeaseInv
<1> QED  BY <1>1, LeaseHolds, PTL

-----------------------------------------------------------------------------
(* Fourth invariant: games *)

\* A session that is over left no client behind that is not counted among the ghosts.
Parted == \A s \in Sessions : pc[s] \in Dead \cup {"release"} /\ unit[s] = "client" => s \in ghosts

\* A journal entry is undone only when its game cannot be running, ghosts aside.
Absent == \A s \in Sessions :
            pc[s] \in Stale /\ rec.unit => unit[rec.by] # "active" \/ rec.by \in ghosts

GameInv == JournalInv /\ Parted /\ Absent /\ GameIsJournaled

\* A session at work knows of its game and has named it in the journal.
LEMMA GameNamed ==
  ASSUME JournalInv, NEW s \in Sessions, pc[s] \notin Dead \cup {"release"}, unit[s] \in {"client", "active"}
  PROVE  mem[s].client /\ mem[s].unit /\ rec.by = s /\ rec.unit
<1>1. Owning(s, pc[s], mem[s], rec) /\ Sound(pc[s], phase[s], mem[s], helper[s], unit[s])
  BY JournalAt
<1>2. mem[s].client /\ mem[s].written \in Begun /\ mem[s].unit
  BY <1>1 DEF Sound, Runs, Whole
<1> QED  BY <1>1, <1>2 DEF Owning, Begun

\* What a supervisor's step does to the entry that names a game, u being its own game after it.
Naming(s, u) ==
  \/ JournalStays \/ Settled
  \/ rec'.by = s /\ rec.by \in {s, NoOne} /\ (u = "active" => rec'.unit)
  \/ /\ rec' = NoRecord
     /\ rec # NoRecord /\ rec.unit => IF rec.by = s THEN u # "active"
                                      ELSE unit[rec.by] # "active" \/ rec.by \in ghosts

LEMMA GamesOn ==
  ASSUME GameInv, NEW s \in Sessions, NEW p, NEW u, pc[s] \notin Dead, Turns(s, p), Scoped(s, u),
         ghosts \subseteq ghosts', u = "active" => unit[s] = "active", Naming(s, u),
         p \in Dead \cup {"release"} /\ u = "client" => s \in ghosts',
         p \in Stale => /\ JournalStays \/ Settled
                        /\ u = unit[s] /\ rec # NoRecord
                        /\ pc[s] \in Stale \/ BoundaryAbsent(rec)
  PROVE  Parted' /\ Absent' /\ GameIsJournaled'
<1>1. JournalInv /\ Places /\ Parted /\ Absent /\ GameIsJournaled /\ rec \in Records \cup {NoRecord}
  BY JournalAt DEF GameInv, JournalInv
<1>2. \A t \in Sessions : pc'[t] = (IF t = s THEN p ELSE pc[t]) /\ unit'[t] = (IF t = s THEN u ELSE unit[t])
  BY DEF Turns, Scoped
<1>3. \A t \in Sessions : t # s => pc[t] \in Dead
  BY <1>1, OthersRest DEF Places
<1>4. Parted'
  BY <1>1, <1>2 DEF Parted
<1>5. JournalStays \/ Settled => rec'.by = rec.by /\ rec'.unit = rec.unit
  BY DEF JournalStays, Settled
<1>6. Absent'
  <2> SUFFICES ASSUME p \in Stale, rec'.unit PROVE unit'[rec'.by] # "active" \/ rec'.by \in ghosts'
    BY <1>2, <1>3 DEF Absent, Dead, Stale
  <2>1. rec.unit /\ rec'.by = rec.by /\ rec.by \in Sessions
    BY <1>1, <1>5, RecordIs
  <2>2. unit[rec.by] # "active" \/ rec.by \in ghosts
    BY <1>1, <2>1 DEF Absent, BoundaryAbsent
  <2> QED  BY <1>2, <2>1, <2>2
<1>7. GameIsJournaled'
  <2> SUFFICES ASSUME NEW t \in Sessions, unit'[t] = "active", t \notin ghosts'
               PROVE  rec'.by = t /\ rec'.unit
    BY DEF GameIsJournaled
  <2>1. unit[t] = "active" /\ t \notin ghosts
    BY <1>2
  <2>2. rec.by = t /\ rec.unit
    BY <1>1, <2>1 DEF GameIsJournaled
  <2>3. t # NoOne /\ rec # NoRecord
    BY <2>2, Named, NoRecordIs
  <2> QED  BY <1>2, <1>5, <2>1, <2>2, <2>3 DEF Naming
<1> QED  BY <1>4, <1>6, <1>7

\* Steps that leave the journal, and start and end nothing.
LEMMA GamesStay ==
  ASSUME GameInv, NEW s \in Sessions, NEW p, NEW u, pc[s] \notin Dead, Turns(s, p), Scoped(s, u),
         ghosts' = ghosts, u = "active" => unit[s] = "active", JournalStays,
         p \notin Stale \cup Dead \cup {"release"}
  PROVE  Parted' /\ Absent' /\ GameIsJournaled'
BY GamesOn DEF Naming

\* Steps that may write the journal.
LEMMA GamesWrite ==
  ASSUME GameInv, NEW s \in Sessions, NEW p, pc[s] \notin Dead \cup {"release"}, Turns(s, p),
         Scoped(s, unit[s]), ghosts' = ghosts, p \notin Stale \cup Dead \cup {"release"},
         rec = NoRecord \/ mem[s].lease # 0,
         JournalStays \/ \E m : JournalSays(s, m) /\ (mem[s].unit => m.unit)
  PROVE  Parted' /\ Absent' /\ GameIsJournaled'
<1>1. JournalInv /\ Owning(s, pc[s], mem[s], rec)
  BY JournalAt DEF GameInv
<1>2. rec.by \in {s, NoOne}
  BY <1>1, NoRecordIs DEF Owning
<1>3. CASE JournalStays
  BY <1>3, GamesStay
<1>4. ASSUME NEW m, JournalSays(s, m), mem[s].unit => m.unit PROVE Parted' /\ Absent' /\ GameIsJournaled'
  <2>1. rec'.by = s /\ rec'.unit = m.unit
    BY <1>4 DEF JournalSays
  <2>2. unit[s] = "active" => mem[s].unit
    BY <1>1, GameNamed
  <2>3. Naming(s, unit[s])
    BY <1>2, <1>4, <2>1, <2>2 DEF Naming
  <2> QED  BY <2>3, GamesOn
<1> QED  BY <1>3, <1>4

LEMMA StaleGames ==
  ASSUME GameInv, NEW s \in Sessions,
         \/ Preflight(s) \/ StalePower(s) \/ StaleSet(s) \/ StaleJournal(s) \/ StaleInput(s) \/ StaleUnlink(s)
  PROVE  Parted' /\ Absent' /\ GameIsJournaled'
<1>1. Places /\ Absent /\ JournalInv /\ GameIsJournaled
  BY JournalAt DEF GameInv
<1>2. ASSUME pc[s] \in Stale \cup {"locked"}, Scoped(s, unit[s]), ghosts' = ghosts, JournalStays \/ Settled,
             NEW p \in Stale \cup {"ready", "cleanup"}, Turns(s, p),
             p \in Stale => pc[s] \in Stale \/ (rec # NoRecord /\ BoundaryAbsent(rec))
      PROVE  Parted' /\ Absent' /\ GameIsJournaled'
  <2>1. pc[s] \in Stale => rec # NoRecord
    BY <1>1, StaleRecord
  <2> QED  BY <1>2, <2>1, GamesOn DEF Naming, Dead, Stale
<1>3. CASE Preflight(s)
  <2>1. pc[s] = "locked" /\ Idle(s) /\ Still /\ ghosts' = ghosts
    BY <1>1, <1>3, PreflightDoes
  <2>2. \E p \in Stale \cup {"ready", "cleanup"} :
          Turns(s, p) /\ (p \in Stale => rec # NoRecord /\ BoundaryAbsent(rec))
    BY <1>1, <1>3, PreflightDoes DEF Stale
  <2> QED  BY <1>2, <2>1, <2>2 DEF Idle, Still
<1>4. CASE StalePower(s)
  <2>1. pc[s] = "stale-power" /\ Idle(s) /\ Still /\ ghosts' = ghosts
    BY <1>1, <1>4, StalePowerDoes
  <2>2. \E p \in Stale \cup {"ready", "cleanup"} : Turns(s, p)
    BY <1>1, <1>4, StalePowerDoes DEF Stale
  <2> QED  BY <1>2, <2>1, <2>2 DEF Idle, Still, Stale
<1>5. CASE StaleSet(s)
  <2>1. pc[s] = "stale-set" /\ Idle(s) /\ JournalStays /\ ghosts' = ghosts
    BY <1>1, <1>5, StaleSetDoes
  <2>2. \E p \in Stale \cup {"ready", "cleanup"} : Turns(s, p)
    BY <1>1, <1>5, StaleSetDoes DEF Stale
  <2> QED  BY <1>2, <2>1, <2>2 DEF Idle, Stale
<1>6. CASE StaleJournal(s)
  <2>1. pc[s] = "stale-journal" /\ Idle(s) /\ ghosts' = ghosts /\ (JournalStays \/ Settled)
    BY <1>1, <1>6, StaleJournalDoes
  <2>2. \E p \in Stale \cup {"ready", "cleanup"} : Turns(s, p)
    BY <1>1, <1>6, StaleJournalDoes DEF Stale
  <2> QED  BY <1>2, <2>1, <2>2 DEF Idle, Stale
<1>7. CASE StaleInput(s)
  <2>1. pc[s] = "stale-input" /\ Idle(s) /\ JournalStays /\ ghosts' = ghosts
    BY <1>1, <1>7, StaleInputDoes
  <2>2. \E p \in Stale \cup {"ready", "cleanup"} : Turns(s, p)
    BY <1>1, <1>7, StaleInputDoes DEF Stale
  <2> QED  BY <1>2, <2>1, <2>2 DEF Idle, Stale
<1>8. CASE StaleUnlink(s)
  <2>1. pc[s] = "stale-unlink" /\ Idle(s) /\ ghosts' = ghosts /\ journaled' = journaled
    BY <1>1, <1>8, StaleUnlinkDoes
  <2>2. CASE Turns(s, "cleanup") /\ rec' = rec
    BY <1>2, <2>1, <2>2 DEF Idle, Stale, JournalStays
  <2>3. CASE Turns(s, "ready") /\ rec' = NoRecord
    <3>1. rec.by # s
      BY <1>1, <2>1, JournalAt DEF Owning, Early, Stale
    <3>2. rec.unit => unit[rec.by] # "active" \/ rec.by \in ghosts
      BY <1>1, <2>1 DEF Absent, Stale
    <3>3. Naming(s, unit[s])
      BY <2>3, <3>1, <3>2 DEF Naming
    <3> QED  BY <2>1, <2>3, <3>3, GamesOn DEF Idle, Dead, Stale
  <2> QED  BY <1>1, <1>8, <2>2, <2>3, StaleUnlinkDoes
<1> QED  BY <1>3, <1>4, <1>5, <1>6, <1>7, <1>8

LEMMA AcquireGames ==
  ASSUME GameInv, NEW s \in Sessions,
         \/ StartAcquire(s) \/ ReadReceipt(s) \/ AcquireEnds(s) \/ AcquireStops(s)
         \/ Boost(s) \/ ApplyBoost(s) \/ Popen(s)
  PROVE  Parted' /\ Absent' /\ GameIsJournaled'
<1>1. Places /\ Owning(s, pc[s], mem[s], rec) /\ Sound(pc[s], phase[s], mem[s], helper[s], unit[s])
  BY JournalAt DEF GameInv
<1>2. ASSUME pc[s] \notin Dead, ghosts' = ghosts, JournalStays, NEW u, Scoped(s, u),
             u = "active" => unit[s] = "active",
             \E p \in {"acquiring", "owned", "launch", "starting", "cleanup"} : Turns(s, p)
      PROVE  Parted' /\ Absent' /\ GameIsJournaled'
  BY <1>2, GamesStay DEF Dead, Stale
<1>3. CASE StartAcquire(s)
  <2>1. pc[s] = "ready" /\ Scoped(s, unit[s]) /\ Still /\ ghosts' = ghosts
    BY <1>1, <1>3, StartAcquireDoes
  <2>2. Turns(s, "acquiring") \/ Turns(s, "cleanup")
    BY <1>1, <1>3, StartAcquireDoes
  <2> QED  BY <1>2, <2>1, <2>2 DEF Still, Dead
<1>4. CASE ReadReceipt(s)
  <2>1. pc[s] = "acquiring" /\ mem[s].lease = 0 /\ Scoped(s, unit[s]) /\ ghosts' = ghosts
    BY <1>1, <1>4, ReadReceiptDoes
  <2>2. PICK p \in {"acquiring", "cleanup"} : Turns(s, p)
    BY <1>1, <1>4, ReadReceiptDoes
  <2>3. JournalStays \/ \E m : JournalSays(s, m) /\ (mem[s].unit => m.unit)
    BY <1>1, <1>4, ReadReceiptDoes DEF SameUnit
  <2>4. rec = NoRecord
    BY <1>1, <2>1 DEF Owning
  <2> QED  BY <2>1, <2>2, <2>3, <2>4, GamesWrite DEF Dead, Stale
<1>5. CASE AcquireEnds(s)
  <2>1. pc[s] = "acquiring" /\ Idle(s) /\ Still /\ ghosts' = ghosts
    BY <1>1, <1>5, AcquireEndsDoes
  <2>2. Turns(s, "owned") \/ Turns(s, "cleanup")
    BY <1>1, <1>5, AcquireEndsDoes
  <2> QED  BY <1>2, <2>1, <2>2 DEF Still, Idle, Dead
<1>6. CASE AcquireStops(s)
  <2>1. pc[s] = "acquiring" /\ Scoped(s, unit[s]) /\ Still /\ ghosts' = ghosts
    BY <1>1, <1>6, AcquireStopsDoes
  <2>2. Turns(s, "acquiring") \/ Turns(s, "cleanup")
    BY <1>1, <1>6, AcquireStopsDoes
  <2> QED  BY <1>2, <2>1, <2>2 DEF Still, Dead
<1>7. CASE Boost(s)
  <2>1. pc[s] = "owned" /\ Idle(s) /\ ghosts' = ghosts
    BY <1>1, <1>7, BoostDoes
  <2>2. PICK p \in {"cleanup", "launch", "boosting"} : Turns(s, p)
    BY <1>1, <1>7, BoostDoes
  <2>3. JournalStays \/ \E m : JournalSays(s, m) /\ (mem[s].unit => m.unit)
    BY <1>1, <1>7, BoostDoes DEF SameUnit
  <2>4. mem[s].lease # 0
    BY <1>1, <2>1 DEF Sound, Remembers
  <2> QED  BY <2>1, <2>2, <2>3, <2>4, GamesWrite DEF Idle, Dead, Stale
<1>8. CASE ApplyBoost(s)
  <2>1. pc[s] = "boosting" /\ Idle(s) /\ JournalStays /\ ghosts' = ghosts /\ Turns(s, "launch")
    BY <1>1, <1>8, ApplyBoostDoes
  <2> QED  BY <1>2, <2>1 DEF Idle, Dead
<1>9. CASE Popen(s)
  <2>1. pc[s] = "popen" /\ Still /\ ghosts' = ghosts
    BY <1>1, <1>9, PopenDoes
  <2>2. \/ Turns(s, "cleanup") /\ Scoped(s, unit[s])
        \/ Turns(s, "starting") /\ Scoped(s, "client")
    BY <1>1, <1>9, PopenDoes
  <2> QED  BY <1>2, <2>1, <2>2 DEF Still, Dead
<1> QED  BY <1>3, <1>4, <1>5, <1>6, <1>7, <1>8, <1>9

LEMMA RunGames ==
  ASSUME GameInv, NEW s \in Sessions,
         \/ JournalLaunch(s) \/ AwaitScope(s) \/ Run(s) \/ Stop(s) \/ Cleanup(s)
  PROVE  Parted' /\ Absent' /\ GameIsJournaled'
<1>1. Places /\ Owning(s, pc[s], mem[s], rec) /\ Sound(pc[s], phase[s], mem[s], helper[s], unit[s])
  BY JournalAt DEF GameInv
<1>2. CASE JournalLaunch(s)
  <2>1. pc[s] = "launch" /\ Idle(s) /\ ghosts' = ghosts
    BY <1>1, <1>2, JournalLaunchDoes
  <2>2. PICK p \in {"cleanup", "popen"} : Turns(s, p)
    BY <1>1, <1>2, JournalLaunchDoes
  <2>3. JournalStays \/ \E m : JournalSays(s, m) /\ (mem[s].unit => m.unit)
    BY <1>1, <1>2, JournalLaunchDoes
  <2>4. mem[s].lease # 0
    BY <1>1, <2>1 DEF Sound, Remembers
  <2> QED  BY <2>1, <2>2, <2>3, <2>4, GamesWrite DEF Idle, Dead, Stale
<1>3. CASE AwaitScope(s)
  <2>1. pc[s] = "starting" /\ Idle(s) /\ ghosts' = ghosts
    BY <1>1, <1>3, AwaitScopeDoes
  <2>2. PICK p \in {"stopping", "cleanup", "running"} : Turns(s, p)
    BY <1>1, <1>3, AwaitScopeDoes
  <2>3. JournalStays \/ \E m : JournalSays(s, m) /\ (mem[s].unit => m.unit)
    BY <1>1, <1>3, AwaitScopeDoes
  <2>4. mem[s].lease # 0
    BY <1>1, <2>1 DEF Sound, Remembers, Whole, Begun
  <2> QED  BY <2>1, <2>2, <2>3, <2>4, GamesWrite DEF Idle, Dead, Stale
<1>4. CASE Run(s)
  <2>1. pc[s] = "running" /\ Idle(s) /\ Still /\ ghosts' = ghosts
    BY <1>1, <1>4, RunDoes
  <2>2. PICK p \in {"stopping", "cleanup"} : Turns(s, p)
    BY <1>1, <1>4, RunDoes
  <2> QED  BY <2>1, <2>2, GamesStay DEF Still, Idle, Dead, Stale
<1>5. CASE Stop(s)
  <2>1. pc[s] = "stopping" /\ Still /\ ghosts' = ghosts /\ Turns(s, "cleanup")
    BY <1>1, <1>5, StopDoes
  <2>2. Scoped(s, "gone") \/ Scoped(s, unit[s])
    BY <1>1, <1>5, StopDoes
  <2> QED  BY <2>1, <2>2, GamesStay DEF Still, Dead, Stale
<1>6. CASE Cleanup(s)
  <2>1. pc[s] = "cleanup" /\ Still
        /\ ghosts' = IF unit'[s] = "client" THEN ghosts \cup {s} ELSE ghosts
    BY <1>1, <1>6, CleanupDoes
  <2>2. PICK u \in {"gone", unit[s]} : Scoped(s, u)
    BY <1>1, <1>6, CleanupDoes
  <2>3. PICK p \in {"power", "release"} : Turns(s, p)
    BY <1>1, <1>6, CleanupDoes
  <2>4. ghosts \subseteq ghosts' /\ (u = "client" => s \in ghosts')
    BY <2>1, <2>2 DEF Scoped
  <2>5. Naming(s, u)
    BY <2>1 DEF Naming, Still
  <2> QED  BY <2>1, <2>2, <2>3, <2>4, <2>5, GamesOn DEF Dead, Stale
<1> QED  BY <1>2, <1>3, <1>4, <1>5, <1>6

LEMMA UndoGames ==
  ASSUME GameInv, NEW s \in Sessions,
         RestorePower(s) \/ Unboost(s) \/ ClearPower(s) \/ Restore(s) \/ Recover(s) \/ Remove(s)
  PROVE  Parted' /\ Absent' /\ GameIsJournaled'
<1>1. Places /\ Owning(s, pc[s], mem[s], rec) /\ Sound(pc[s], phase[s], mem[s], helper[s], unit[s])
  BY JournalAt DEF GameInv
<1>2. ASSUME pc[s] \in Undoing, ghosts' = ghosts, JournalStays, Scoped(s, unit[s]),
             \E p \in Undoing : Turns(s, p)
      PROVE  Parted' /\ Absent' /\ GameIsJournaled'
  BY <1>2, GamesStay DEF Dead, Stale, Undoing
<1>3. CASE RestorePower(s)
  <2>1. pc[s] = "power" /\ Idle(s) /\ Still /\ ghosts' = ghosts
    BY <1>1, <1>3, RestorePowerDoes
  <2>2. \E p \in Undoing : Turns(s, p)
    BY <1>1, <1>3, RestorePowerDoes DEF Undoing
  <2> QED  BY <1>2, <2>1, <2>2 DEF Still, Idle, Undoing
<1>4. CASE Unboost(s)
  <2>1. pc[s] = "unboost" /\ Idle(s) /\ JournalStays /\ ghosts' = ghosts
    BY <1>1, <1>4, UnboostDoes
  <2>2. \E p \in Undoing : Turns(s, p)
    BY <1>1, <1>4, UnboostDoes DEF Undoing
  <2> QED  BY <1>2, <2>1, <2>2 DEF Idle, Undoing
<1>5. CASE ClearPower(s)
  <2>1. pc[s] = "clear" /\ Idle(s) /\ ghosts' = ghosts /\ Turns(s, "restore")
    BY <1>1, <1>5, ClearPowerDoes
  <2>2. JournalStays \/ \E m : JournalSays(s, m) /\ (mem[s].unit => m.unit)
    BY <1>1, <1>5, ClearPowerDoes DEF SameUnit
  <2>3. mem[s].lease # 0
    BY <1>1, <2>1 DEF Sound, Remembers, Whole
  <2> QED  BY <2>1, <2>2, <2>3, GamesWrite DEF Idle, Dead, Stale
<1>6. CASE Restore(s)
  <2>1. pc[s] = "restore" /\ Idle(s) /\ ghosts' = ghosts
    BY <1>1, <1>6, RestoreDoes
  <2>2. CASE Turns(s, "remove") /\ JournalStays
    BY <1>2, <2>1, <2>2 DEF Idle, Undoing
  <2>3. CASE mem[s].lease # 0 /\ Turns(s, "recover") /\ (JournalStays \/ JournalSays(s, mem[s]))
    BY <2>1, <2>3, GamesWrite DEF Idle, Dead, Stale
  <2> QED  BY <1>1, <1>6, <2>2, <2>3, RestoreDoes
<1>7. CASE Recover(s)
  <2>1. pc[s] = "recover" /\ Idle(s) /\ JournalStays /\ ghosts' = ghosts /\ Turns(s, "remove")
    BY <1>1, <1>7, RecoverDoes
  <2> QED  BY <1>2, <2>1 DEF Idle, Undoing
<1>8. CASE Remove(s)
  <2>1. pc[s] = "remove" /\ Idle(s) /\ journaled' = journaled /\ ghosts' = ghosts /\ Turns(s, "release")
    BY <1>1, <1>8, RemoveDoes
  <2>2. unit[s] \in {"none", "gone"}
    BY <1>1, <2>1 DEF Sound, Runs, Undoing
  <2>3. rec' = rec \/ (rec' = NoRecord /\ rec.by = s)
    BY <1>1, <1>8, RemoveDoes
  <2>4. Naming(s, unit[s])
    BY <2>1, <2>2, <2>3 DEF Naming, JournalStays
  <2> QED  BY <2>1, <2>2, <2>4, GamesOn DEF Idle, Dead, Stale
<1> QED  BY <1>3, <1>4, <1>5, <1>6, <1>7, <1>8

LEMMA EndGames ==
  ASSUME GameInv, NEW s \in Sessions, Launch(s) \/ Release(s) \/ Signal(s) \/ Kill(s)
  PROVE  Parted' /\ Absent' /\ GameIsJournaled'
<1>1. Places /\ Sound(pc[s], phase[s], mem[s], helper[s], unit[s]) /\ Parted /\ Absent /\ GameIsJournaled
  BY JournalAt DEF GameInv
<1>2. CASE Launch(s)
  <2>1. pc[s] = "new" /\ Scoped(s, unit[s]) /\ rec' = rec /\ ghosts' = ghosts
    BY <1>1, <1>2, LaunchDoes DEF Idle, Still, JournalStays
  <2>2. PICK p \in {"locked", "done"} : Turns(s, p)
    BY <1>1, <1>2, LaunchDoes
  <2>3. unit[s] = "none"
    BY <1>1, <2>1 DEF Sound, Runs
  <2>4. \A t \in Sessions : unit'[t] = unit[t] /\ (pc'[t] = pc[t] \/ (t = s /\ pc'[t] \in {"locked", "done"}))
    BY <2>1, <2>2 DEF Turns, Scoped
  <2>5. Parted'
    BY <1>1, <2>1, <2>3, <2>4 DEF Parted
  <2>6. GameIsJournaled'
    BY <1>1, <2>1, <2>4 DEF GameIsJournaled
  <2>7. Absent'
    <3> SUFFICES ASSUME NEW t \in Sessions, pc'[t] \in Stale, rec'.unit
                 PROVE  unit'[rec'.by] # "active" \/ rec'.by \in ghosts'
      BY DEF Absent
    <3>1. pc[t] \in Stale
      BY <2>4 DEF Stale
    <3>2. rec \in Records
      BY <1>1, <3>1, StaleRecord
    <3>3. rec.by \in Sessions
      BY <3>2, RecordIs
    <3> QED  BY <1>1, <2>1, <2>4, <3>1, <3>3 DEF Absent
  <2> QED  BY <2>5, <2>6, <2>7
<1>3. CASE Release(s)
  <2>1. pc[s] = "release" /\ Idle(s) /\ Still /\ ghosts' = ghosts /\ Turns(s, "done")
    BY <1>1, <1>3, ReleaseDoes
  <2>2. unit[s] = "client" => s \in ghosts
    BY <1>1, <2>1 DEF Parted
  <2> QED  BY <2>1, <2>2, GamesOn DEF Naming, Idle, Still, Dead, Stale
<1>4. CASE Signal(s)
  <2>1. pc[s] \notin Dead /\ Idle(s) /\ Still /\ ghosts' = ghosts /\ Turns(s, pc[s])
    BY <1>1, <1>4, SignalDoes
  <2>2. pc[s] = "release" /\ unit[s] = "client" => s \in ghosts
    BY <1>1 DEF Parted
  <2>3. pc[s] \in Stale => rec # NoRecord
    BY <1>1, StaleRecord
  <2> QED  BY <2>1, <2>2, <2>3, GamesOn DEF Naming, Idle, Still
<1>5. CASE Kill(s)
  <2>1. /\ pc[s] \notin Dead /\ Idle(s) /\ JournalStays /\ Turns(s, "killed")
        /\ ghosts' = IF unit[s] = "client" THEN ghosts \cup {s} ELSE ghosts
    BY <1>1, <1>5, KillDoes
  <2>2. ghosts \subseteq ghosts' /\ (unit[s] = "client" => s \in ghosts')
    BY <2>1
  <2> QED  BY <2>1, <2>2, GamesOn DEF Naming, Idle, Dead, Stale
<1> QED  BY <1>2, <1>3, <1>4, <1>5

\* A scope comes, or a game ends: who sees it come is either at work, and has named it, or a ghost.
LEMMA ScopeGames ==
  ASSUME GameInv, NEW s \in Sessions, ScopeSettles(s) \/ GameExits(s)
  PROVE  Parted' /\ Absent' /\ GameIsJournaled'
<1>1. Places /\ JournalInv /\ Parted /\ Absent /\ GameIsJournaled
  BY JournalAt DEF GameInv
<1>2. UNCHANGED <<pc, rec, ghosts>>
  BY <1>1, GameDoes
<1>3. PICK u \in {"active", "gone"} :
        /\ Scoped(s, u)
        /\ unit[s] = "client" \/ (unit[s] = "active" /\ u = "gone")
  BY <1>1, GameDoes
<1>4. \A t \in Sessions : unit'[t] = IF t = s THEN u ELSE unit[t]
  BY <1>3 DEF Scoped
<1>5. Parted'
  BY <1>1, <1>2, <1>4 DEF Parted
<1>6. u = "active" => (rec.by = s /\ rec.unit /\ pc[s] \notin Dead) \/ s \in ghosts
  BY <1>1, <1>3, GameNamed DEF Parted
<1>7. GameIsJournaled'
  BY <1>1, <1>2, <1>4, <1>6 DEF GameIsJournaled
<1>8. Absent'
  <2> SUFFICES ASSUME NEW t \in Sessions, pc[t] \in Stale, rec.unit
               PROVE  unit'[rec.by] # "active" \/ rec.by \in ghosts
    BY <1>2 DEF Absent
  <2>1. rec \in Records
    BY <1>1, StaleRecord
  <2>2. rec.by \in Sessions /\ (unit[rec.by] # "active" \/ rec.by \in ghosts)
    BY <1>1, <2>1, RecordIs DEF Absent
  <2>3. pc[t] \notin Dead /\ rec.by # t
    BY <1>1, JournalAt DEF Owning, Early, Stale, Dead
  <2>4. pc[rec.by] \in Dead
    BY <1>1, <2>2, <2>3, OthersRest DEF Places
  <2> QED  BY <1>4, <1>6, <2>2, <2>4
<1> QED  BY <1>5, <1>7, <1>8

LEMMA GameInit == Init => GameInv
<1> SUFFICES ASSUME Init PROVE GameInv
  OBVIOUS
<1>1. /\ pc = [s \in Sessions |-> "new"] /\ unit = [s \in Sessions |-> "none"]
  BY DEF Init
<1> QED  BY <1>1, JournalInit DEF GameInv, Parted, Absent, GameIsJournaled, Stale

LEMMA GameStep == GameInv /\ [Next]_vars => GameInv'
<1> SUFFICES ASSUME GameInv, [Next]_vars PROVE GameInv'
  OBVIOUS
<1>1. JournalInv /\ Places /\ Parted /\ Absent /\ GameIsJournaled
  BY DEF GameInv, JournalInv
<1>2. JournalInv'
  BY <1>1, JournalStep
<1>3. SUFFICES Parted' /\ Absent' /\ GameIsJournaled'
  BY <1>2 DEF GameInv
<1>4. ASSUME NEW s \in Sessions, Supervise(s) \/ Signal(s) \/ Kill(s)
      PROVE  Parted' /\ Absent' /\ GameIsJournaled'
  BY <1>4, StaleGames, AcquireGames, RunGames, UndoGames, EndGames DEF Supervise
<1>5. ASSUME NEW s \in Sessions, ScopeSettles(s) \/ GameExits(s)
      PROVE  Parted' /\ Absent' /\ GameIsJournaled'
  BY <1>5, ScopeGames
<1>6. CASE UNCHANGED <<pc, unit, rec, ghosts>>
  BY <1>1, <1>6 DEF Parted, Absent, GameIsJournaled
<1>7. ASSUME \/ \E s \in Sessions : Acquire(s)
             \/ OrphanLands \/ UserSwitches \/ UserSetsPower \/ UNCHANGED vars
      PROVE  UNCHANGED <<pc, unit, rec, ghosts>>
  BY <1>1, <1>7, AcquireDoes, OrphanDoes, UserDoes DEF Aside, vars
<1> QED  BY <1>4, <1>5, <1>6, <1>7 DEF Next

LEMMA GameHolds == Spec => []GameInv
BY GameInit, GameStep, PTL DEF Spec

\* A running game is named by the journal, whoever died in between, unless its supervisor ended
\* before systemd knew the scope.
THEOREM GameIsJournaledHolds == Spec => []GameIsJournaled
<1>1. GameInv => GameIsJournaled
  BY DEF GameInv
<1> QED  BY <1>1, GameHolds, PTL

-----------------------------------------------------------------------------
(* Fifth invariant: power profiles *)

\* A profile raised by a session is still in force, and the session, while it is at work, has not
\* put it back.
Raised ==
  powerBy \in Sessions =>
    /\ power = "performance"
    /\ pc[powerBy] \notin Dead \cup {"release"} => mem[powerBy].boost # "none" /\ pc[powerBy] # "clear"

\* The marker is in the journal before the profile is raised, and until it was lowered.
Marked == \A s \in Sessions : /\ pc[s] = "boosting" => rec.perf # "none"
                              /\ pc[s] = "stale-journal" => powerBy \notin Sessions

PowerInv == JournalInv /\ Raised /\ Marked /\ PowerIsJournaled

LEMMA MarkedOn ==
  ASSUME JournalInv, NEW s \in Sessions, NEW p, pc[s] \notin Dead, Turns(s, p),
         p = "boosting" => rec'.perf # "none", p = "stale-journal" => powerBy' \notin Sessions
  PROVE  Marked'
<1> SUFFICES ASSUME NEW t \in Sessions, t # s PROVE pc'[t] \notin {"boosting", "stale-journal"}
  BY DEF Marked, Turns
<1>1. pc[t] \in Dead /\ pc'[t] = pc[t]
  BY OthersRest DEF JournalInv, Places, Turns
<1> QED  BY <1>1 DEF Dead

\* Nobody's profile is in force.
LEMMA PowersCalm ==
  ASSUME JournalInv, NEW s \in Sessions, NEW p, pc[s] \notin Dead, Turns(s, p), powerBy' \notin Sessions,
         p = "boosting" => rec'.perf # "none"
  PROVE  Raised' /\ Marked' /\ PowerIsJournaled'
<1>1. Marked'
  BY MarkedOn
<1> QED  BY <1>1 DEF Raised, PowerIsJournaled

\* A session that is at work, and did not raise the profile, finds nobody's raised.
LEMMA CalmAt ==
  ASSUME PowerInv, NEW s \in Sessions, powerBy # s,
         mem[s].lease # 0 \/ rec = NoRecord \/ rec.by = s \/ rec.perf = "none"
  PROVE  powerBy \notin Sessions
<1>1. Owning(s, pc[s], mem[s], rec) /\ PowerIsJournaled
  BY JournalAt DEF PowerInv
<1>2. rec = NoRecord \/ rec.by = s \/ rec.perf = "none"
  BY <1>1 DEF Owning
<1> QED  BY <1>1, <1>2, NoRecordIs DEF PowerIsJournaled

\* Steps that leave the profile and what the session remembers of it.
LEMMA PowersStay ==
  ASSUME PowerInv, NEW s \in Sessions, NEW p, pc[s] \notin Dead \cup {"release"}, Turns(s, p),
         p \notin {"clear", "stale-journal", "boosting"}, UNCHANGED <<power, powerBy>>,
         \E n : Recalls(s, n) /\ n.boost = mem[s].boost,
         \/ JournalStays
         \/ /\ rec = NoRecord \/ mem[s].lease # 0
            /\ \E m : JournalSays(s, m) /\ m.boost = mem[s].boost
  PROVE  Raised' /\ Marked' /\ PowerIsJournaled'
<1>1. JournalInv /\ Raised /\ PowerIsJournaled
  BY DEF PowerInv
<1>2. Marked'
  BY <1>1, MarkedOn
<1>3. CASE powerBy = s
  <2>1. power = "performance" /\ mem[s].boost # "none" /\ rec.by = s /\ rec.perf # "none"
    BY <1>1, <1>3 DEF Raised, PowerIsJournaled
  <2>2. rec'.by = s /\ rec'.perf # "none"
    BY <2>1 DEF JournalStays, JournalSays
  <2>3. mem'[s].boost # "none" /\ pc'[s] # "clear"
    BY <2>1 DEF Recalls, Turns
  <2> QED  BY <1>2, <1>3, <2>1, <2>2, <2>3 DEF Raised, PowerIsJournaled
<1>4. CASE powerBy # s
  <2>1. CASE JournalStays
    <3>1. powerBy \in Sessions => pc[powerBy] \in Dead
      BY <1>1, <1>4, OthersRest DEF JournalInv, Places
    <3>2. powerBy \in Sessions => pc'[powerBy] \in Dead
      BY <1>4, <3>1 DEF Turns
    <3> QED  BY <1>1, <1>2, <2>1, <3>2 DEF Raised, PowerIsJournaled, JournalStays
  <2>2. CASE rec = NoRecord \/ mem[s].lease # 0
    <3>1. powerBy' \notin Sessions
      BY <1>4, <2>2, CalmAt
    <3> QED  BY <1>1, <3>1, PowersCalm
  <2> QED  BY <2>1, <2>2
<1> QED  BY <1>3, <1>4

LEMMA SameBoost ==
  ASSUME NEW s \in Sessions, Quiet(s) \/ Fails(s) \/ Recalls(s, mem[s])
  PROVE  \E n : Recalls(s, n) /\ n.boost = mem[s].boost
BY DEF Quiet, Fails, SameRest

\* Putting back what was there before performance is the end of anybody's raise.
LEMMA PowerLowered ==
  ASSUME PowerInv, NEW p \in Powers \ {"performance"}, PowerStep(p, "restore")
  PROVE  powerBy' \notin Sessions
<1>1. Raised
  BY DEF PowerInv
<1> QED  BY <1>1, Named DEF Raised, PowerStep

LEMMA StalePowers ==
  ASSUME PowerInv, NEW s \in Sessions,
         \/ Preflight(s) \/ StalePower(s) \/ StaleSet(s) \/ StaleJournal(s) \/ StaleInput(s) \/ StaleUnlink(s)
  PROVE  Raised' /\ Marked' /\ PowerIsJournaled'
<1>1. Places /\ JournalInv /\ Raised /\ Marked
  BY JournalAt DEF PowerInv
<1>2. ASSUME pc[s] \in Stale \cup {"locked"}, Recalls(s, mem[s]), JournalStays, UNCHANGED <<power, powerBy>>,
             \E p \in {"ready", "stale-power", "stale-set", "stale-input", "stale-unlink", "cleanup"} : Turns(s, p)
      PROVE  Raised' /\ Marked' /\ PowerIsJournaled'
  BY <1>2, PowersStay DEF Stale, Dead
<1>3. CASE Preflight(s)
  <2>1. pc[s] = "locked" /\ Recalls(s, mem[s]) /\ Still
    BY <1>1, <1>3, PreflightDoes
  <2>2. \E p \in {"ready", "stale-power", "stale-set", "stale-input", "stale-unlink", "cleanup"} : Turns(s, p)
    BY <1>1, <1>3, PreflightDoes
  <2> QED  BY <1>2, <2>1, <2>2, WorldIs DEF Still
<1>4. CASE StalePower(s)
  <2>1. pc[s] = "stale-power" /\ Recalls(s, mem[s]) /\ Still
    BY <1>1, <1>4, StalePowerDoes
  <2>2. CASE Turns(s, "stale-set") \/ Turns(s, "cleanup")
    BY <1>2, <2>1, <2>2, WorldIs DEF Still, Stale
  <2>3. CASE Turns(s, "stale-journal") /\ power # "performance"
    <3>1. powerBy' \notin Sessions
      BY <1>1, <2>1, <2>3, WorldIs DEF Still, Raised
    <3> QED  BY <1>1, <2>1, <2>3, <3>1, PowersCalm DEF Dead
  <2> QED  BY <1>1, <1>4, <2>2, <2>3, StalePowerDoes
<1>5. CASE StaleSet(s)
  <2>1. pc[s] = "stale-set" /\ Recalls(s, mem[s]) /\ JournalStays /\ rec.perf \in Powers
    BY <1>1, <1>5, StaleSetDoes
  <2>2. rec.perf # "performance"
    BY <1>1, <2>1, StaleRecord DEF JournalInv, Shaped, Stale
  <2>3. PICK p \in {"stale-journal", "cleanup"} : Turns(s, p)
    BY <1>1, <1>5, StaleSetDoes
  <2>4. CASE PowerStep(rec.perf, "restore")
    <3>1. powerBy' \notin Sessions
      BY <2>1, <2>2, <2>4, PowerLowered
    <3> QED  BY <1>1, <2>1, <2>3, <3>1, PowersCalm DEF Dead
  <2>5. CASE Turns(s, "cleanup") /\ UNCHANGED <<power, powerBy>>
    BY <1>2, <2>1, <2>5 DEF Stale
  <2> QED  BY <1>1, <1>5, <2>4, <2>5, StaleSetDoes
<1>6. CASE StaleJournal(s)
  <2>1. pc[s] = "stale-journal" /\ UNCHANGED world
    BY <1>1, <1>6, StaleJournalDoes
  <2>2. PICK p \in {"stale-input", "cleanup"} : Turns(s, p)
    BY <1>1, <1>6, StaleJournalDoes
  <2>3. powerBy' \notin Sessions
    BY <1>1, <2>1, WorldIs DEF Marked
  <2> QED  BY <1>1, <2>1, <2>2, <2>3, PowersCalm DEF Dead
<1>7. CASE StaleInput(s)
  <2>1. pc[s] = "stale-input" /\ Recalls(s, mem[s]) /\ JournalStays /\ UNCHANGED <<power, powerBy>>
    BY <1>1, <1>7, StaleInputDoes
  <2>2. Turns(s, "stale-unlink") \/ Turns(s, "cleanup")
    BY <1>1, <1>7, StaleInputDoes
  <2> QED  BY <1>2, <2>1, <2>2 DEF Stale
<1>8. CASE StaleUnlink(s)
  <2>1. pc[s] = "stale-unlink" /\ UNCHANGED world
    BY <1>1, <1>8, StaleUnlinkDoes
  <2>2. PICK p \in {"ready", "cleanup"} : Turns(s, p)
    BY <1>1, <1>8, StaleUnlinkDoes
  <2>3. rec.perf = "none" /\ rec.by # s
    BY <1>1, <2>1, JournalAt DEF Owning, Early, Stale
  <2>4. powerBy' \notin Sessions
    BY <2>1, <2>3, WorldIs DEF PowerInv, PowerIsJournaled
  <2> QED  BY <1>1, <2>1, <2>2, <2>4, PowersCalm DEF Dead
<1> QED  BY <1>3, <1>4, <1>5, <1>6, <1>7, <1>8

LEMMA AcquirePowers ==
  ASSUME PowerInv, NEW s \in Sessions,
         \/ StartAcquire(s) \/ ReadReceipt(s) \/ AcquireEnds(s) \/ AcquireStops(s) \/ Boost(s) \/ ApplyBoost(s)
  PROVE  Raised' /\ Marked' /\ PowerIsJournaled'
<1>1. /\ Places /\ Owning(s, pc[s], mem[s], rec) /\ Sound(pc[s], phase[s], mem[s], helper[s], unit[s])
      /\ JournalInv /\ Raised /\ Marked
  BY JournalAt DEF PowerInv
<1>2. ASSUME pc[s] \in {"ready", "acquiring"}, Recalls(s, mem[s]), Still,
             \E p \in {"acquiring", "owned", "cleanup"} : Turns(s, p)
      PROVE  Raised' /\ Marked' /\ PowerIsJournaled'
  BY <1>2, PowersStay, WorldIs DEF Dead, Still
<1>3. CASE StartAcquire(s)
  <2>1. pc[s] = "ready" /\ Recalls(s, mem[s]) /\ Still
    BY <1>1, <1>3, StartAcquireDoes
  <2>2. Turns(s, "acquiring") \/ Turns(s, "cleanup")
    BY <1>1, <1>3, StartAcquireDoes
  <2> QED  BY <1>2, <2>1, <2>2
<1>4. CASE ReadReceipt(s)
  <2>1. pc[s] = "acquiring" /\ mem[s].lease = 0 /\ UNCHANGED world
    BY <1>1, <1>4, ReadReceiptDoes
  <2>2. PICK p \in {"acquiring", "cleanup"} : Turns(s, p)
    BY <1>1, <1>4, ReadReceiptDoes
  <2>3. JournalStays \/ \E m : JournalSays(s, m) /\ m.boost = mem[s].boost
    BY <1>1, <1>4, ReadReceiptDoes DEF SameRest
  <2>4. \E n : Recalls(s, n) /\ n.boost = mem[s].boost
    BY <1>1, <1>4, ReadReceiptDoes DEF SameRest
  <2>5. rec = NoRecord
    BY <1>1, <2>1 DEF Owning
  <2> QED  BY <2>1, <2>2, <2>3, <2>4, <2>5, WorldIs, PowersStay DEF Dead
<1>5. CASE AcquireEnds(s)
  <2>1. pc[s] = "acquiring" /\ Recalls(s, mem[s]) /\ Still
    BY <1>1, <1>5, AcquireEndsDoes
  <2>2. Turns(s, "owned") \/ Turns(s, "cleanup")
    BY <1>1, <1>5, AcquireEndsDoes
  <2> QED  BY <1>2, <2>1, <2>2
<1>6. CASE AcquireStops(s)
  <2>1. pc[s] = "acquiring" /\ Recalls(s, mem[s]) /\ Still
    BY <1>1, <1>6, AcquireStopsDoes
  <2>2. Turns(s, "acquiring") \/ Turns(s, "cleanup")
    BY <1>1, <1>6, AcquireStopsDoes
  <2> QED  BY <1>2, <2>1, <2>2
<1>7. CASE Boost(s)
  <2>1. pc[s] = "owned" /\ UNCHANGED world
    BY <1>1, <1>7, BoostDoes
  <2>2. mem[s].boost = "none" /\ mem[s].lease # 0
    BY <1>1, <2>1 DEF Sound, Remembers
  <2>3. powerBy # s
    BY <1>1, <2>1, <2>2 DEF Raised, Dead
  <2>4. powerBy' \notin Sessions
    BY <2>1, <2>2, <2>3, CalmAt, WorldIs
  <2>5. PICK p \in {"cleanup", "launch", "boosting"} : Turns(s, p)
    BY <1>1, <1>7, BoostDoes
  <2>6. p = "boosting" => \E m : m.boost = power /\ JournalSays(s, m)
    BY <1>1, <1>7, <2>5, BoostDoes DEF Turns
  <2>7. power # "none"
    BY <1>1, PlacesAt DEF PowerType, Powers
  <2>8. p = "boosting" => rec'.perf # "none"
    BY <2>6, <2>7 DEF JournalSays
  <2> QED  BY <1>1, <2>1, <2>4, <2>5, <2>8, PowersCalm DEF Dead
<1>8. CASE ApplyBoost(s)
  <2>1. pc[s] = "boosting" /\ Turns(s, "launch") /\ Recalls(s, mem[s]) /\ JournalStays
    BY <1>1, <1>8, ApplyBoostDoes
  <2>2. CASE UNCHANGED <<power, powerBy>>
    BY <2>1, <2>2, PowersStay DEF Dead
  <2>3. CASE power' = "performance" /\ powerBy' = s
    <3>1. mem[s].boost # "none" /\ mem[s].written # "none"
      BY <1>1, <2>1 DEF Sound, Remembers, Whole
    <3>2. rec.by = s /\ rec.perf # "none"
      BY <1>1, <2>1, <3>1 DEF Owning, Marked
    <3>3. Marked'
      BY <1>1, <2>1, MarkedOn DEF Dead
    <3>4. Raised'
      BY <2>1, <2>3, <3>1 DEF Raised, Turns, Recalls
    <3> QED  BY <2>1, <2>3, <3>2, <3>3, <3>4 DEF PowerIsJournaled, JournalStays
  <2>4. PowerStep("performance", s) \/ UNCHANGED <<power, powerBy>>
    BY <1>1, <1>8, ApplyBoostDoes
  <2> QED  BY <2>2, <2>3, <2>4 DEF PowerStep
<1> QED  BY <1>3, <1>4, <1>5, <1>6, <1>7, <1>8

LEMMA RunPowers ==
  ASSUME PowerInv, NEW s \in Sessions,
         JournalLaunch(s) \/ Popen(s) \/ AwaitScope(s) \/ Run(s) \/ Stop(s) \/ Cleanup(s)
  PROVE  Raised' /\ Marked' /\ PowerIsJournaled'
<1>1. Places /\ JournalInv /\ Sound(pc[s], phase[s], mem[s], helper[s], unit[s])
  BY JournalAt DEF PowerInv
<1>2. ASSUME pc[s] \notin Dead \cup {"release"}, UNCHANGED world, \E n : Recalls(s, n) /\ n.boost = mem[s].boost,
             \E p \in {"cleanup", "popen", "starting", "stopping", "running", "power", "release"} : Turns(s, p),
             \/ JournalStays
             \/ mem[s].lease # 0 /\ \E m : JournalSays(s, m) /\ m.boost = mem[s].boost
      PROVE  Raised' /\ Marked' /\ PowerIsJournaled'
  BY <1>2, PowersStay, WorldIs
<1>3. CASE JournalLaunch(s)
  <2>1. pc[s] = "launch" /\ UNCHANGED world
    BY <1>1, <1>3, JournalLaunchDoes
  <2>2. mem[s].lease # 0
    BY <1>1, <2>1 DEF Sound, Remembers
  <2>3. \E p \in {"cleanup", "popen"} : Turns(s, p)
    BY <1>1, <1>3, JournalLaunchDoes
  <2>4. \E n : Recalls(s, n) /\ n.boost = mem[s].boost
    BY <1>1, <1>3, JournalLaunchDoes DEF SameRest
  <2>5. JournalStays \/ \E m : JournalSays(s, m) /\ m.boost = mem[s].boost
    BY <1>1, <1>3, JournalLaunchDoes DEF SameRest
  <2> QED  BY <1>2, <2>1, <2>2, <2>3, <2>4, <2>5 DEF Dead
<1>4. CASE Popen(s)
  <2>1. pc[s] = "popen" /\ Still
    BY <1>1, <1>4, PopenDoes
  <2>2. \E p \in {"cleanup", "starting"} : Turns(s, p)
    BY <1>1, <1>4, PopenDoes
  <2>3. \E n : Recalls(s, n) /\ n.boost = mem[s].boost
    BY <1>1, <1>4, PopenDoes DEF SameRest
  <2> QED  BY <1>2, <2>1, <2>2, <2>3 DEF Dead, Still
<1>5. CASE AwaitScope(s)
  <2>1. pc[s] = "starting" /\ UNCHANGED world
    BY <1>1, <1>5, AwaitScopeDoes
  <2>2. mem[s].lease # 0
    BY <1>1, <2>1 DEF Sound, Remembers, Whole, Begun
  <2>3. \E p \in {"stopping", "cleanup", "running"} : Turns(s, p)
    BY <1>1, <1>5, AwaitScopeDoes
  <2>4. \E n : Recalls(s, n) /\ n.boost = mem[s].boost
    BY <1>1, <1>5, AwaitScopeDoes, SameBoost DEF SameRest
  <2>5. JournalStays \/ \E m : JournalSays(s, m) /\ m.boost = mem[s].boost
    BY <1>1, <1>5, AwaitScopeDoes DEF SameRest
  <2> QED  BY <1>2, <2>1, <2>2, <2>3, <2>4, <2>5 DEF Dead
<1>6. CASE Run(s)
  <2>1. pc[s] = "running" /\ Still
    BY <1>1, <1>6, RunDoes
  <2>2. \E p \in {"cleanup", "stopping"} : Turns(s, p)
    BY <1>1, <1>6, RunDoes
  <2>3. \E n : Recalls(s, n) /\ n.boost = mem[s].boost
    BY <1>1, <1>6, RunDoes, SameBoost
  <2> QED  BY <1>2, <2>1, <2>2, <2>3 DEF Dead, Still
<1>7. CASE Stop(s)
  <2>1. pc[s] = "stopping" /\ Still /\ Turns(s, "cleanup")
    BY <1>1, <1>7, StopDoes
  <2>3. \E n : Recalls(s, n) /\ n.boost = mem[s].boost
    BY <1>1, <1>7, StopDoes, SameBoost
  <2> QED  BY <1>2, <2>1, <2>3 DEF Dead, Still
<1>8. CASE Cleanup(s)
  <2>1. pc[s] = "cleanup" /\ Still
    BY <1>1, <1>8, CleanupDoes
  <2>2. \E p \in {"power", "release"} : Turns(s, p)
    BY <1>1, <1>8, CleanupDoes
  <2>3. \E n : Recalls(s, n) /\ n.boost = mem[s].boost
    BY <1>1, <1>8, CleanupDoes, SameBoost
  <2> QED  BY <1>2, <2>1, <2>2, <2>3 DEF Dead, Still
<1> QED  BY <1>3, <1>4, <1>5, <1>6, <1>7, <1>8

LEMMA UndoPowers ==
  ASSUME PowerInv, NEW s \in Sessions,
         RestorePower(s) \/ Unboost(s) \/ ClearPower(s) \/ Restore(s) \/ Recover(s) \/ Remove(s)
  PROVE  Raised' /\ Marked' /\ PowerIsJournaled'
<1>1. /\ Places /\ Owning(s, pc[s], mem[s], rec) /\ Sound(pc[s], phase[s], mem[s], helper[s], unit[s])
      /\ JournalInv /\ Raised /\ Marked
  BY JournalAt DEF PowerInv
<1>2. ASSUME pc[s] \in Undoing, UNCHANGED <<power, powerBy>>, \E n : Recalls(s, n) /\ n.boost = mem[s].boost,
             \E p \in {"unboost", "restore", "recover", "remove", "release"} : Turns(s, p),
             \/ JournalStays
             \/ mem[s].lease # 0 /\ \E m : JournalSays(s, m) /\ m.boost = mem[s].boost
      PROVE  Raised' /\ Marked' /\ PowerIsJournaled'
  BY <1>2, PowersStay DEF Dead, Undoing
<1>3. CASE RestorePower(s)
  <2>1. pc[s] = "power" /\ Still
    BY <1>1, <1>3, RestorePowerDoes
  <2>2. CASE Turns(s, "clear") /\ power # "performance"
    <3>1. powerBy' \notin Sessions
      BY <1>1, <2>1, <2>2, WorldIs DEF Still, Raised
    <3> QED  BY <1>1, <2>1, <2>2, <3>1, PowersCalm DEF Dead
  <2>3. CASE /\ Turns(s, "restore") \/ Turns(s, "unboost")
             /\ Recalls(s, mem[s]) \/ Fails(s)
    BY <1>2, <2>1, <2>3, SameBoost, WorldIs DEF Still, Undoing
  <2> QED  BY <1>1, <1>3, <2>2, <2>3, RestorePowerDoes
<1>4. CASE Unboost(s)
  <2>1. pc[s] = "unboost" /\ JournalStays /\ mem[s].boost \in Powers
    BY <1>1, <1>4, UnboostDoes
  <2>2. mem[s].boost # "performance"
    BY <1>1, <2>1 DEF Sound, Remembers, Whole
  <2>3. PICK p \in {"clear", "restore"} : Turns(s, p)
    BY <1>1, <1>4, UnboostDoes
  <2>4. CASE PowerStep(mem[s].boost, "restore")
    <3>1. powerBy' \notin Sessions
      BY <2>1, <2>2, <2>4, PowerLowered
    <3> QED  BY <1>1, <2>1, <2>3, <3>1, PowersCalm DEF Dead
  <2>5. CASE Turns(s, "restore") /\ Fails(s) /\ UNCHANGED <<power, powerBy>>
    BY <1>2, <2>1, <2>5, SameBoost DEF Undoing
  <2> QED  BY <1>1, <1>4, <2>4, <2>5, UnboostDoes
<1>5. CASE ClearPower(s)
  <2>1. pc[s] = "clear" /\ UNCHANGED world /\ Turns(s, "restore")
    BY <1>1, <1>5, ClearPowerDoes
  <2>2. powerBy # s
    BY <1>1, <2>1 DEF Raised, Dead
  <2>3. mem[s].lease # 0
    BY <1>1, <2>1 DEF Sound, Remembers, Whole
  <2>4. powerBy' \notin Sessions
    BY <2>1, <2>2, <2>3, CalmAt, WorldIs
  <2> QED  BY <1>1, <2>1, <2>4, PowersCalm DEF Dead
<1>6. CASE Restore(s)
  <2>1. pc[s] = "restore" /\ UNCHANGED world
    BY <1>1, <1>6, RestoreDoes
  <2>2. \E p \in {"remove", "recover"} : Turns(s, p)
    BY <1>1, <1>6, RestoreDoes
  <2>3. \E n : Recalls(s, n) /\ n.boost = mem[s].boost
    BY <1>1, <1>6, RestoreDoes DEF SameRest
  <2>4. JournalStays \/ (mem[s].lease # 0 /\ JournalSays(s, mem[s]))
    BY <1>1, <1>6, RestoreDoes
  <2> QED  BY <1>2, <2>1, <2>2, <2>3, <2>4, WorldIs DEF Undoing
<1>7. CASE Recover(s)
  <2>1. pc[s] = "recover" /\ JournalStays /\ UNCHANGED <<power, powerBy>> /\ Turns(s, "remove")
    BY <1>1, <1>7, RecoverDoes
  <2>2. \E n : Recalls(s, n) /\ n.boost = mem[s].boost
    BY <1>1, <1>7, RecoverDoes, SameBoost
  <2> QED  BY <1>2, <2>1, <2>2 DEF Undoing
<1>8. CASE Remove(s)
  <2>1. /\ pc[s] = "remove" /\ Turns(s, "release") /\ Recalls(s, mem[s])
        /\ UNCHANGED world /\ journaled' = journaled
    BY <1>1, <1>8, RemoveDoes
  <2>2. CASE rec' = rec
    BY <1>2, <2>1, <2>2, WorldIs DEF Undoing, JournalStays
  <2>3. CASE ~mem[s].kept /\ rec.by = s
    <3>1. mem[s].boost = "none"
      BY <1>1, <2>1, <2>3 DEF Sound, Remembers
    <3>2. powerBy # s
      BY <1>1, <2>1, <3>1 DEF Raised, Dead
    <3>3. powerBy' \notin Sessions
      BY <2>1, <2>3, <3>2, CalmAt, WorldIs
    <3> QED  BY <1>1, <2>1, <3>3, PowersCalm DEF Dead
  <2> QED  BY <1>1, <1>8, <2>2, <2>3, RemoveDoes
<1> QED  BY <1>3, <1>4, <1>5, <1>6, <1>7, <1>8

LEMMA EndPowers ==
  ASSUME PowerInv, NEW s \in Sessions, Launch(s) \/ Release(s) \/ Signal(s) \/ Kill(s)
  PROVE  Raised' /\ Marked' /\ PowerIsJournaled'
<1>1. Places /\ JournalInv /\ Owning(s, pc[s], mem[s], rec) /\ Raised /\ Marked /\ PowerIsJournaled
  BY JournalAt DEF PowerInv
<1>2. CASE Launch(s)
  <2>1. pc[s] = "new" /\ Recalls(s, mem[s]) /\ rec' = rec /\ UNCHANGED <<power, powerBy>>
    BY <1>1, <1>2, LaunchDoes, WorldIs DEF Still, JournalStays
  <2>2. PICK p \in {"locked", "done"} : Turns(s, p)
    BY <1>1, <1>2, LaunchDoes
  <2>3. powerBy # s
    BY <1>1, <2>1 DEF PowerIsJournaled, Owning
  <2>4. \A t \in Sessions : mem'[t] = mem[t] /\ (t # s => pc'[t] = pc[t])
    BY <2>1, <2>2 DEF Turns, Recalls
  <2>5. Raised'
    BY <1>1, <2>1, <2>3, <2>4 DEF Raised
  <2>6. Marked'
    BY <1>1, <2>1, <2>2, <2>4 DEF Marked, Turns
  <2> QED  BY <1>1, <2>1, <2>5, <2>6 DEF PowerIsJournaled
<1>3. ASSUME pc[s] \notin Dead, JournalStays, UNCHANGED <<power, powerBy>>,
             NEW p, Turns(s, p), NEW m, Recalls(s, m),
             p \in Dead \/ (p = pc[s] /\ m.boost = mem[s].boost)
      PROVE  Raised' /\ Marked' /\ PowerIsJournaled'
  <2>1. PowerIsJournaled'
    BY <1>1, <1>3 DEF PowerIsJournaled, JournalStays
  <2>2. Marked'
    <3>1. p = "boosting" => rec'.perf # "none"
      BY <1>1, <1>3 DEF Marked, JournalStays, Dead
    <3>2. p = "stale-journal" => powerBy' \notin Sessions
      BY <1>1, <1>3 DEF Marked, Dead
    <3> QED  BY <1>1, <1>3, <3>1, <3>2, MarkedOn
  <2>3. Raised'
    <3>1. \A t \in Sessions : t # s => pc'[t] = pc[t] /\ mem'[t] = mem[t]
      BY <1>3 DEF Turns, Recalls
    <3>2. pc'[s] = p /\ mem'[s] = m
      BY <1>3 DEF Turns, Recalls
    <3> QED  BY <1>1, <1>3, <3>1, <3>2 DEF Raised
  <2> QED  BY <2>1, <2>2, <2>3
<1>4. CASE Release(s)
  <2>1. pc[s] = "release" /\ Turns(s, "done") /\ Recalls(s, FreshMemory) /\ Still
    BY <1>1, <1>4, ReleaseDoes
  <2> QED  BY <1>3, <2>1, WorldIs DEF Still, Dead
<1>5. CASE Signal(s)
  <2>1. pc[s] \notin Dead /\ Turns(s, pc[s]) /\ Still
    BY <1>1, <1>5, SignalDoes
  <2>2. \E n : Recalls(s, n) /\ n.boost = mem[s].boost
    BY <1>1, <1>5, SignalDoes DEF SameRest
  <2> QED  BY <1>3, <2>1, <2>2, WorldIs DEF Still
<1>6. CASE Kill(s)
  <2>1. /\ pc[s] \notin Dead /\ Turns(s, "killed") /\ Recalls(s, FreshMemory) /\ JournalStays
        /\ UNCHANGED <<power, powerBy>>
    BY <1>1, <1>6, KillDoes
  <2> QED  BY <1>3, <2>1 DEF Dead
<1> QED  BY <1>2, <1>4, <1>5, <1>6

LEMMA PowerInit == Init => PowerInv
<1> SUFFICES ASSUME Init PROVE PowerInv
  OBVIOUS
<1>1. pc = [s \in Sessions |-> "new"] /\ powerBy = "user"
  BY DEF Init
<1> QED  BY <1>1, Named, JournalInit DEF PowerInv, Raised, Marked, PowerIsJournaled

LEMMA PowersStep == PowerInv /\ [Next]_vars => PowerInv'
<1> SUFFICES ASSUME PowerInv, [Next]_vars PROVE PowerInv'
  OBVIOUS
<1>1. JournalInv /\ Places /\ Raised /\ Marked /\ PowerIsJournaled
  BY DEF PowerInv, JournalInv
<1>2. JournalInv'
  BY <1>1, JournalStep
<1>3. SUFFICES Raised' /\ Marked' /\ PowerIsJournaled'
  BY <1>2 DEF PowerInv
<1>4. ASSUME NEW s \in Sessions, Supervise(s) \/ Signal(s) \/ Kill(s)
      PROVE  Raised' /\ Marked' /\ PowerIsJournaled'
  BY <1>4, StalePowers, AcquirePowers, RunPowers, UndoPowers, EndPowers DEF Supervise
<1>5. CASE UNCHANGED <<pc, mem, rec, power, powerBy>>
  BY <1>1, <1>5 DEF Raised, Marked, PowerIsJournaled
<1>6. CASE UNCHANGED <<pc, mem, rec>> /\ powerBy' \in {"user", "orphan"}
  BY <1>1, <1>6, Named DEF Raised, Marked, PowerIsJournaled
<1>7. ASSUME NEW s \in Sessions, Acquire(s) \/ ScopeSettles(s) \/ GameExits(s)
      PROVE  UNCHANGED <<pc, mem, rec, power, powerBy>>
  BY <1>1, <1>7, AcquireDoes, GameDoes, WorldIs
<1>8. ASSUME OrphanLands \/ UserSwitches \/ UserSetsPower
      PROVE  UNCHANGED <<pc, mem, rec>> /\ (UNCHANGED <<power, powerBy>> \/ powerBy' \in {"user", "orphan"})
  BY <1>1, <1>8, OrphanDoes, UserDoes DEF Aside
<1>9. CASE UNCHANGED vars
  BY <1>5, <1>9 DEF vars
<1> QED  BY <1>4, <1>5, <1>6, <1>7, <1>8, <1>9 DEF Next

LEMMA PowerHolds == Spec => []PowerInv
BY PowerInit, PowersStep, PTL DEF Spec

\* A profile that a session raised is never raised for good: while it is in force and nobody else
\* has chosen since, the journal says what to go back to.
THEOREM PowerIsJournaledHolds == Spec => []PowerIsJournaled
<1>1. PowerInv => PowerIsJournaled
  BY DEF PowerInv
<1> QED  BY <1>1, PowerHolds, PTL

-----------------------------------------------------------------------------
(* Sixth invariant: what a running game's settings are fenced from *)

\* A session that has the gamepad, or is past asking for it.
Fence(s) == \/ unit[s] \in {"client", "active"} /\ s \notin ghosts
            \/ pc[s] \in {"owned", "boosting", "launch", "popen"}
            \/ pc[s] = "acquiring" /\ helper[s].token # 0

\* A recovery that is still to land has an older lease than the one in force.
Fenced == \A s \in Sessions : Fence(s) => \A o \in orphans : o[1] = "input" => o[2] # pad.token

Unclaimed == \A s \in Sessions : helper[s].state \in {"none", "started"} => helper[s].token = 0

FenceInv == GameInv /\ LeaseInv /\ Unclaimed /\ Fenced

Behind == {"acquiring", "owned", "boosting", "launch", "popen"}

\* A step of s puts up no fence that was not there.
Lets(s) ==
  \E p, h, u : /\ Turns(s, p) /\ Helped(s, h) /\ Scoped(s, u)
               /\ \/ Fence(s)
                  \/ /\ p \in Behind => p = "acquiring" /\ h.token = 0
                     /\ u \in {"client", "active"} => u = unit[s]

\* New commands left to land are not for the input state.
NoRecovery == \A o \in orphans' : o[1] = "input" => o \in orphans

LEMMA FencesOf ==
  ASSUME NEW s \in Sessions, Lets(s), ghosts \subseteq ghosts'
  PROVE  \A t \in Sessions : Fence(t)' => Fence(t)
<1>1. PICK p, h, u : /\ Turns(s, p) /\ Helped(s, h) /\ Scoped(s, u)
                     /\ \/ Fence(s)
                        \/ /\ p \in Behind => p = "acquiring" /\ h.token = 0
                           /\ u \in {"client", "active"} => u = unit[s]
  BY DEF Lets
<1> SUFFICES ASSUME NEW t \in Sessions, Fence(t)' PROVE Fence(t)
  OBVIOUS
<1>2. CASE t = s
  BY <1>1, <1>2 DEF Turns, Helped, Scoped, Fence, Behind
<1>3. CASE t # s
  <2>1. pc'[t] = pc[t] /\ helper'[t] = helper[t] /\ unit'[t] = unit[t]
    BY <1>1, <1>3 DEF Turns, Helped, Scoped
  <2> QED  BY <2>1 DEF Fence
<1> QED  BY <1>2, <1>3

LEMMA FencedOn ==
  ASSUME LeaseInv, Fenced, UNCHANGED <<pad, fresh>> \/ PadStep, NoRecovery,
         pad'.token = fresh + 1 \/ \A t \in Sessions : Fence(t)' => Fence(t)
  PROVE  Fenced'
<1>1. Tokened /\ Places
  BY DEF LeaseInv, JournalInv
<1>2. fresh \in Nat /\ pad.token \in Nat /\ \A o \in orphans : o[2] \in Nat /\ o[2] \leq fresh
  BY <1>1, TokenTypes DEF Tokened
<1> SUFFICES ASSUME NEW t \in Sessions, Fence(t)', NEW o \in orphans', o[1] = "input"
             PROVE  o[2] # pad'.token
  BY DEF Fenced
<1>3. o \in orphans /\ o[2] \in Nat /\ o[2] \leq fresh
  BY <1>2 DEF NoRecovery
<1>4. CASE pad'.token = fresh + 1
  BY <1>2, <1>3, <1>4
<1>5. CASE pad'.token = pad.token
  BY <1>2, <1>3, <1>5 DEF Fenced
<1> QED  BY <1>4, <1>5 DEF PadStep

\* While a game runs nobody takes its settings back, or is about to start another: a supervisor at
\* work is its own, or one that was refused and has nothing to undo.
LEMMA Governs ==
  ASSUME GameInv, NEW s \in Sessions, unit[s] = "active", s \notin ghosts,
         NEW t \in Sessions, pc[t] \notin Dead
  PROVE  pc[t] \notin Stale \cup Behind \cup {"unboost", "clear", "recover"}
<1>1. Places /\ Owning(t, pc[t], mem[t], rec) /\ Sound(pc[t], phase[t], mem[t], helper[t], unit[t])
  BY JournalAt DEF GameInv
<1>2. rec.by = s /\ rec.unit /\ rec # NoRecord
  BY NoRecordIs DEF GameInv, GameIsJournaled
<1>3. mem[t].lease # 0 => t = s
  BY <1>1, <1>2 DEF Owning
<1>4. pc[t] \notin Stale
  BY <1>2 DEF GameInv, Absent
<1>5. ASSUME t = s PROVE pc[t] \notin Undoing \cup Behind
  BY <1>1, <1>5 DEF Sound, Runs, Remembers, Undoing, Behind, Dead
<1>6. ASSUME mem[t].lease = 0 PROVE pc[t] \notin Behind \cup {"unboost", "clear", "recover"}
  BY <1>1, <1>2, <1>6 DEF Owning, Sound, Remembers, Whole, Behind
<1> QED  BY <1>3, <1>4, <1>5, <1>6 DEF Undoing

Careful(s) == /\ Lets(s) /\ NoRecovery /\ ghosts \subseteq ghosts'
              /\ UNCHANGED <<pad, fresh>> \/ PadStep

LEMMA CarefulFenced ==
  ASSUME LeaseInv, Fenced, NEW s \in Sessions, Careful(s)
  PROVE  Fenced'
BY FencesOf, FencedOn DEF Careful

LEMMA CarefulAt ==
  ASSUME NEW s \in Sessions, NEW p, NEW u, Turns(s, p), Scoped(s, u), p \notin Behind,
         Helped(s, helper[s]), u \in {"client", "active"} => u = unit[s], ghosts \subseteq ghosts',
         UNCHANGED <<pad, fresh>> \/ PadStep,
         orphans' = orphans \/ \E q : orphans' = orphans \cup {<<"power", 0, q>>}
  PROVE  Careful(s)
<1>1. Lets(s)
  BY DEF Lets
<1>2. NoRecovery
  BY DEF NoRecovery
<1> QED  BY <1>1, <1>2 DEF Careful

LEMMA StaleCareful ==
  ASSUME Places, NEW s \in Sessions,
         \/ Preflight(s) \/ StalePower(s) \/ StaleSet(s) \/ StaleJournal(s) \/ StaleInput(s) \/ StaleUnlink(s)
  PROVE  Careful(s)
<1>1. ASSUME Idle(s), ghosts' = ghosts, UNCHANGED <<pad, fresh>> \/ PadStep,
             orphans' = orphans \/ \E q : orphans' = orphans \cup {<<"power", 0, q>>},
             \E p \in Stale \cup {"ready", "cleanup"} : Turns(s, p)
      PROVE  Careful(s)
  BY <1>1, CarefulAt DEF Idle, Stale, Behind
<1>2. CASE Preflight(s)
  <2>1. Idle(s) /\ Still /\ ghosts' = ghosts
    BY <1>2, PreflightDoes
  <2>2. \E p \in Stale \cup {"ready", "cleanup"} : Turns(s, p)
    BY <1>2, PreflightDoes DEF Stale
  <2> QED  BY <1>1, <2>1, <2>2, WorldIs DEF Still
<1>3. CASE StalePower(s)
  <2>1. Idle(s) /\ Still /\ ghosts' = ghosts
    BY <1>3, StalePowerDoes
  <2>2. \E p \in Stale \cup {"ready", "cleanup"} : Turns(s, p)
    BY <1>3, StalePowerDoes DEF Stale
  <2> QED  BY <1>1, <2>1, <2>2, WorldIs DEF Still
<1>4. CASE StaleSet(s)
  <2>1. Idle(s) /\ UNCHANGED <<pad, fresh, ghosts>>
    BY <1>4, StaleSetDoes
  <2>2. \E p \in Stale \cup {"ready", "cleanup"} : Turns(s, p)
    BY <1>4, StaleSetDoes DEF Stale
  <2>3. orphans' = orphans \/ orphans' = orphans \cup {<<"power", 0, rec.perf>>}
    BY <1>4, StaleSetDoes
  <2> QED  BY <1>1, <2>1, <2>2, <2>3
<1>5. CASE StaleJournal(s)
  <2>1. Idle(s) /\ UNCHANGED world /\ ghosts' = ghosts
    BY <1>5, StaleJournalDoes
  <2>2. \E p \in Stale \cup {"ready", "cleanup"} : Turns(s, p)
    BY <1>5, StaleJournalDoes DEF Stale
  <2> QED  BY <1>1, <2>1, <2>2, WorldIs
<1>6. CASE StaleInput(s)
  <2>1. Idle(s) /\ UNCHANGED <<orphans, ghosts>> /\ PadStep
    BY <1>6, StaleInputDoes DEF PadYields
  <2>2. \E p \in Stale \cup {"ready", "cleanup"} : Turns(s, p)
    BY <1>6, StaleInputDoes DEF Stale
  <2> QED  BY <1>1, <2>1, <2>2
<1>7. CASE StaleUnlink(s)
  <2>1. Idle(s) /\ UNCHANGED world /\ ghosts' = ghosts
    BY <1>7, StaleUnlinkDoes
  <2>2. \E p \in Stale \cup {"ready", "cleanup"} : Turns(s, p)
    BY <1>7, StaleUnlinkDoes DEF Stale
  <2> QED  BY <1>1, <2>1, <2>2, WorldIs
<1> QED  BY <1>2, <1>3, <1>4, <1>5, <1>6, <1>7

LEMMA AcquireCareful ==
  ASSUME Places, Unclaimed, NEW s \in Sessions,
         StartAcquire(s) \/ ReadReceipt(s) \/ AcquireEnds(s) \/ AcquireStops(s)
  PROVE  Careful(s)
<1>1. Helps(pc[s], helper[s])
  BY PlacesAt DEF Sound
<1>2. ASSUME ghosts' = ghosts, UNCHANGED world, Scoped(s, unit[s]), NEW p, Turns(s, p),
             NEW h, Helped(s, h), Fence(s) \/ p = "cleanup" \/ (p = "acquiring" /\ h.token = 0)
      PROVE  Careful(s)
  <2>1. Lets(s)
    BY <1>2 DEF Lets, Behind
  <2> QED  BY <1>2, <2>1, WorldIs DEF Careful, NoRecovery
<1>3. Over(s) => \E h : Helped(s, h) /\ h.token = helper[s].token
  BY DEF Over
<1>4. CASE StartAcquire(s)
  <2>1. pc[s] = "ready" /\ Scoped(s, unit[s]) /\ Still /\ ghosts' = ghosts
    BY <1>4, StartAcquireDoes
  <2>2. helper[s].token = 0
    BY <1>1, <2>1 DEF Helps, Early, Unclaimed
  <2>3. \/ Turns(s, "cleanup") /\ Helped(s, helper[s])
        \/ Turns(s, "acquiring") /\ \E h : Helped(s, h) /\ h.token = helper[s].token
    BY <1>4, StartAcquireDoes
  <2> QED  BY <1>2, <2>1, <2>2, <2>3 DEF Still
<1>5. CASE ReadReceipt(s)
  <2>1. pc[s] = "acquiring" /\ helper[s].sent /\ Scoped(s, unit[s]) /\ UNCHANGED world /\ ghosts' = ghosts
    BY <1>5, ReadReceiptDoes
  <2>2. Fence(s)
    BY <1>1, <2>1 DEF Helps, Fence
  <2>3. \E p : Turns(s, p)
    BY <1>5, ReadReceiptDoes
  <2>4. \E h : Helped(s, h)
    BY <1>3, <1>5, ReadReceiptDoes
  <2> QED  BY <1>2, <2>1, <2>2, <2>3, <2>4
<1>6. CASE AcquireEnds(s)
  <2>1. pc[s] = "acquiring" /\ Idle(s) /\ Still /\ ghosts' = ghosts
    BY <1>6, AcquireEndsDoes
  <2>2. Turns(s, "cleanup") \/ (Turns(s, "owned") /\ helper[s].state = "ok")
    BY <1>6, AcquireEndsDoes
  <2>3. helper[s].state = "ok" => Fence(s)
    BY <1>1, <2>1 DEF Helps, Fence
  <2> QED  BY <1>2, <2>1, <2>2, <2>3 DEF Still, Idle
<1>7. CASE AcquireStops(s)
  <2>1. pc[s] = "acquiring" /\ Scoped(s, unit[s]) /\ Still /\ ghosts' = ghosts
    BY <1>7, AcquireStopsDoes
  <2>2. PICK h : Helped(s, h) /\ h.token = helper[s].token
    BY <1>3, <1>7, AcquireStopsDoes
  <2>3. Turns(s, "acquiring") \/ Turns(s, "cleanup")
    BY <1>7, AcquireStopsDoes
  <2>4. h.token # 0 => Fence(s)
    BY <2>1, <2>2 DEF Fence
  <2> QED  BY <1>2, <2>1, <2>2, <2>3, <2>4 DEF Still
<1> QED  BY <1>4, <1>5, <1>6, <1>7

LEMMA GameCareful ==
  ASSUME Places, NEW s \in Sessions,
         \/ Boost(s) \/ ApplyBoost(s) \/ JournalLaunch(s) \/ Popen(s)
         \/ AwaitScope(s) \/ Run(s) \/ Stop(s) \/ Cleanup(s)
  PROVE  Careful(s)
<1>1. ASSUME pc[s] \in Behind \ {"acquiring"}, \E p : Turns(s, p), \E u : Scoped(s, u), Helped(s, helper[s]),
             ghosts' = ghosts, UNCHANGED <<pad, fresh>>,
             orphans' = orphans \/ \E q : orphans' = orphans \cup {<<"power", 0, q>>}
      PROVE  Careful(s)
  <2>1. Fence(s)
    BY <1>1 DEF Behind, Fence
  <2>2. Lets(s)
    BY <1>1, <2>1 DEF Lets
  <2> QED  BY <1>1, <2>2 DEF Careful, NoRecovery
<1>2. CASE Boost(s)
  <2>1. pc[s] = "owned" /\ Idle(s) /\ UNCHANGED world /\ ghosts' = ghosts
    BY <1>2, BoostDoes
  <2>2. \E p : Turns(s, p)
    BY <1>2, BoostDoes
  <2> QED  BY <1>1, <2>1, <2>2, WorldIs DEF Idle, Behind
<1>3. CASE ApplyBoost(s)
  <2>1. pc[s] = "boosting" /\ Turns(s, "launch") /\ Idle(s) /\ UNCHANGED <<pad, fresh, ghosts>>
        /\ (orphans' = orphans \/ orphans' = orphans \cup {<<"power", 0, "performance">>})
    BY <1>3, ApplyBoostDoes
  <2> QED  BY <1>1, <2>1 DEF Idle, Behind
<1>4. CASE JournalLaunch(s)
  <2>1. pc[s] = "launch" /\ Idle(s) /\ UNCHANGED world /\ ghosts' = ghosts
    BY <1>4, JournalLaunchDoes
  <2>2. \E p : Turns(s, p)
    BY <1>4, JournalLaunchDoes
  <2> QED  BY <1>1, <2>1, <2>2, WorldIs DEF Idle, Behind
<1>5. CASE Popen(s)
  <2>1. pc[s] = "popen" /\ Helped(s, helper[s]) /\ Still /\ ghosts' = ghosts
    BY <1>5, PopenDoes
  <2>2. (\E p : Turns(s, p)) /\ (\E u : Scoped(s, u))
    BY <1>5, PopenDoes
  <2> QED  BY <1>1, <2>1, <2>2, WorldIs DEF Still, Behind
<1>6. CASE AwaitScope(s)
  <2>1. Idle(s) /\ UNCHANGED world /\ ghosts' = ghosts
    BY <1>6, AwaitScopeDoes
  <2>2. PICK p \in {"stopping", "cleanup", "running"} : Turns(s, p)
    BY <1>6, AwaitScopeDoes
  <2> QED  BY <2>1, <2>2, WorldIs, CarefulAt DEF Idle, Behind
<1>7. CASE Run(s)
  <2>1. Idle(s) /\ Still /\ ghosts' = ghosts
    BY <1>7, RunDoes
  <2>2. PICK p \in {"stopping", "cleanup"} : Turns(s, p)
    BY <1>7, RunDoes
  <2> QED  BY <2>1, <2>2, WorldIs, CarefulAt DEF Still, Idle, Behind
<1>8. CASE Stop(s)
  <2>1. Turns(s, "cleanup") /\ Helped(s, helper[s]) /\ Still /\ ghosts' = ghosts
    BY <1>8, StopDoes
  <2>2. Scoped(s, "gone") \/ Scoped(s, unit[s])
    BY <1>8, StopDoes
  <2> QED  BY <2>1, <2>2, WorldIs, CarefulAt DEF Still, Behind
<1>9. CASE Cleanup(s)
  <2>1. Helped(s, helper[s]) /\ Still /\ ghosts \subseteq ghosts'
    BY <1>9, CleanupDoes
  <2>2. Scoped(s, "gone") \/ Scoped(s, unit[s])
    BY <1>9, CleanupDoes
  <2>3. PICK p \in {"power", "release"} : Turns(s, p)
    BY <1>9, CleanupDoes
  <2> QED  BY <2>1, <2>2, <2>3, WorldIs, CarefulAt DEF Still, Behind
<1> QED  BY <1>2, <1>3, <1>4, <1>5, <1>6, <1>7, <1>8, <1>9

LEMMA UndoCareful ==
  ASSUME Places, NEW s \in Sessions,
         \/ RestorePower(s) \/ Unboost(s) \/ ClearPower(s) \/ Restore(s) \/ Recover(s) \/ Remove(s)
         \/ Release(s) \/ Launch(s) \/ Signal(s)
  PROVE  Careful(s)
<1>1. ASSUME Idle(s), ghosts' = ghosts, UNCHANGED <<pad, fresh>> \/ PadStep,
             orphans' = orphans \/ \E q : orphans' = orphans \cup {<<"power", 0, q>>},
             \E p \in Undoing \cup {"release", "done", "locked"} : Turns(s, p)
      PROVE  Careful(s)
  BY <1>1, CarefulAt DEF Idle, Undoing, Behind
<1>2. CASE RestorePower(s)
  <2>1. Idle(s) /\ Still /\ ghosts' = ghosts
    BY <1>2, RestorePowerDoes
  <2>2. \E p \in Undoing \cup {"release", "done", "locked"} : Turns(s, p)
    BY <1>2, RestorePowerDoes DEF Undoing
  <2> QED  BY <1>1, <2>1, <2>2, WorldIs DEF Still
<1>3. CASE Unboost(s)
  <2>1. Idle(s) /\ UNCHANGED <<pad, fresh, ghosts>>
    BY <1>3, UnboostDoes
  <2>2. \E p \in Undoing \cup {"release", "done", "locked"} : Turns(s, p)
    BY <1>3, UnboostDoes DEF Undoing
  <2>3. orphans' = orphans \/ orphans' = orphans \cup {<<"power", 0, mem[s].boost>>}
    BY <1>3, UnboostDoes
  <2> QED  BY <1>1, <2>1, <2>2, <2>3
<1>4. CASE ClearPower(s)
  <2>1. Idle(s) /\ UNCHANGED world /\ ghosts' = ghosts /\ Turns(s, "restore")
    BY <1>4, ClearPowerDoes
  <2> QED  BY <1>1, <2>1, WorldIs DEF Undoing
<1>5. CASE Restore(s)
  <2>1. Idle(s) /\ UNCHANGED world /\ ghosts' = ghosts
    BY <1>5, RestoreDoes
  <2>2. \E p \in Undoing \cup {"release", "done", "locked"} : Turns(s, p)
    BY <1>5, RestoreDoes DEF Undoing
  <2> QED  BY <1>1, <2>1, <2>2, WorldIs
<1>6. CASE Recover(s)
  <2>1. Idle(s) /\ UNCHANGED <<orphans, ghosts>> /\ PadStep /\ Turns(s, "remove")
    BY <1>6, RecoverDoes DEF PadYields
  <2> QED  BY <1>1, <2>1 DEF Undoing
<1>7. CASE Remove(s)
  <2>1. Idle(s) /\ UNCHANGED world /\ ghosts' = ghosts /\ Turns(s, "release")
    BY <1>7, RemoveDoes
  <2> QED  BY <1>1, <2>1, WorldIs
<1>8. CASE Release(s)
  <2>1. Idle(s) /\ Still /\ ghosts' = ghosts /\ Turns(s, "done")
    BY <1>8, ReleaseDoes
  <2> QED  BY <1>1, <2>1, WorldIs DEF Still
<1>9. CASE Launch(s)
  <2>1. Idle(s) /\ Still /\ ghosts' = ghosts
    BY <1>9, LaunchDoes
  <2>2. \E p \in Undoing \cup {"release", "done", "locked"} : Turns(s, p)
    BY <1>9, LaunchDoes
  <2> QED  BY <1>1, <2>1, <2>2, WorldIs DEF Still
<1>10. CASE Signal(s)
  <2>1. Turns(s, pc[s]) /\ Idle(s) /\ Still /\ ghosts' = ghosts
    BY <1>10, SignalDoes
  <2>2. Lets(s)
    BY <2>1 DEF Lets, Idle, Behind, Fence
  <2> QED  BY <2>1, <2>2, WorldIs DEF Careful, NoRecovery, Still
<1> QED  BY <1>2, <1>3, <1>4, <1>5, <1>6, <1>7, <1>8, <1>9, <1>10

LEMMA KillFenced ==
  ASSUME FenceInv, NEW s \in Sessions, Kill(s)
  PROVE  Fenced'
<1>1. /\ GameInv /\ Fenced /\ Places /\ Parted
      /\ Sound(pc[s], phase[s], mem[s], helper[s], unit[s])
  BY JournalAt DEF FenceInv, GameInv
<1>2. /\ pc[s] \notin Dead /\ Turns(s, "killed") /\ Idle(s) /\ pad' = pad
      /\ orphans' = orphans \cup LeftBehind(s)
      /\ ghosts' = IF unit[s] = "client" THEN ghosts \cup {s} ELSE ghosts
  BY <1>1, KillDoes
<1>3. Lets(s) /\ ghosts \subseteq ghosts'
  BY <1>2 DEF Lets, Idle, Behind
<1> SUFFICES ASSUME NEW t \in Sessions, Fence(t)', NEW o \in orphans', o[1] = "input"
             PROVE  o[2] # pad.token
  BY <1>2 DEF Fenced
<1>4. Fence(t)
  BY <1>3, FencesOf
<1>5. CASE o \in orphans
  BY <1>1, <1>4, <1>5 DEF Fenced
<1>6. CASE o \in LeftBehind(s)
  <2>1. pc[s] \in Stale \cup {"recover"}
    BY <1>1, <1>6, LeftBehindIs DEF Stale
  <2>2. pc'[t] \in Dead
    <3>1. t # s => pc[t] \in Dead
      BY <1>1, <1>2, OthersRest DEF Places
    <3> QED  BY <1>2, <3>1 DEF Turns, Dead
  <2>3. unit[t] \in {"client", "active"} /\ t \notin ghosts'
    BY <1>2, <2>2 DEF Fence, Dead, Idle, Scoped
  <2>4. t \notin ghosts /\ (t = s => unit[t] # "client")
    BY <1>2, <2>3
  <2>5. unit[t] # "client"
    <3>1. t # s => pc[t] \in Dead
      BY <1>1, <1>2, OthersRest DEF Places
    <3> QED  BY <1>1, <2>4, <3>1 DEF Parted
  <2> QED  BY <1>1, <1>2, <2>1, <2>3, <2>4, <2>5, Governs
<1> QED  BY <1>2, <1>5, <1>6

\* A helper draws a lease of its own; whatever else runs beside the supervisors puts up no fence.
LEMMA BesideFenced ==
  ASSUME FenceInv, \/ \E s \in Sessions : Acquire(s) \/ ScopeSettles(s) \/ GameExits(s)
                   \/ OrphanLands \/ UserSwitches \/ UserSetsPower
  PROVE  Fenced'
<1>1. Places /\ LeaseInv /\ Fenced /\ fresh \in Nat /\ pad.token \in Nat
  BY TokenTypes DEF FenceInv, LeaseInv, JournalInv
<1>2. ASSUME NEW s \in Sessions, Acquire(s) PROVE Fenced'
  <2>1. UNCHANGED <<pc, unit, orphans, ghosts>> /\ PadStep
    BY <1>1, <1>2, AcquireDoes
  <2>2. PICK h : Helped(s, h) /\ \/ h.token = helper[s].token
                                 \/ h.token = fresh + 1 /\ fresh' = fresh + 1
    BY <1>1, <1>2, AcquireDoes
  <2>3. CASE h.token = helper[s].token
    <3>1. \A t \in Sessions : Fence(t)' => Fence(t)
      BY <2>1, <2>2, <2>3 DEF Fence, Helped
    <3> QED  BY <1>1, <2>1, <3>1, FencedOn DEF NoRecovery
  <2>4. CASE fresh' = fresh + 1
    <3>1. pad'.token = fresh + 1
      BY <1>1, <2>1, <2>4 DEF PadStep
    <3> QED  BY <1>1, <2>1, <3>1, FencedOn DEF NoRecovery
  <2> QED  BY <2>2, <2>3, <2>4
<1>3. ASSUME NEW s \in Sessions, ScopeSettles(s) \/ GameExits(s) PROVE Fenced'
  <2>1. UNCHANGED <<pc, helper, pad, fresh, orphans, ghosts>>
    BY <1>1, <1>3, GameDoes, WorldIs
  <2>2. PICK u : Scoped(s, u) /\ (unit[s] = "client" \/ (unit[s] = "active" /\ u = "gone"))
    BY <1>1, <1>3, GameDoes
  <2>3. \A t \in Sessions : Fence(t)' => Fence(t)
    BY <2>1, <2>2 DEF Fence, Scoped
  <2> QED  BY <1>1, <2>1, <2>3, FencedOn DEF NoRecovery
<1>4. CASE OrphanLands \/ UserSwitches \/ UserSetsPower
  <2>1. UNCHANGED <<pc, helper, unit, ghosts>>
    BY <1>1, <1>4, OrphanDoes, UserDoes DEF Aside
  <2>2. orphans' \subseteq orphans /\ (UNCHANGED <<pad, fresh>> \/ PadStep)
    BY <1>1, <1>4, OrphanDoes, UserDoes DEF PadYields
  <2>3. \A t \in Sessions : Fence(t)' => Fence(t)
    BY <2>1 DEF Fence
  <2>4. NoRecovery
    BY <2>2 DEF NoRecovery
  <2> QED  BY <1>1, <2>2, <2>3, <2>4, FencedOn
<1> QED  BY <1>2, <1>3, <1>4

LEMMA UnclaimedStep == FenceInv /\ [Next]_vars => Unclaimed'
<1> SUFFICES ASSUME FenceInv, [Next]_vars PROVE Unclaimed'
  OBVIOUS
<1>1. Places /\ Unclaimed
  BY DEF FenceInv, GameInv, JournalInv
<1>2. CASE UNCHANGED helper
  BY <1>1, <1>2 DEF Unclaimed
<1>3. ASSUME NEW s \in Sessions, NEW h, Helped(s, h),
             h.state \in {"none", "started"} => h.token = 0 \/ h = helper[s]
      PROVE  Unclaimed'
  BY <1>1, <1>3 DEF Unclaimed, Helped
<1>4. ASSUME NEW s \in Sessions, StartAcquire(s) PROVE Unclaimed'
  <2>1. pc[s] = "ready" /\ (Helped(s, helper[s]) \/ \E h : Helped(s, h) /\ h.token = helper[s].token)
    BY <1>1, <1>4, StartAcquireDoes
  <2>2. helper[s].token = 0
    BY <1>1, <2>1, PlacesAt DEF Sound, Helps, Early, Unclaimed
  <2> QED  BY <1>3, <2>1, <2>2
<1>5. ASSUME NEW s \in Sessions, ReadReceipt(s) \/ AcquireStops(s) PROVE Unclaimed'
  <2>1. Helped(s, helper[s]) \/ \E h : Helped(s, h) /\ h.state \in {"ok", "failed"}
    BY <1>1, <1>5, ReadReceiptDoes, AcquireStopsDoes DEF Over
  <2> QED  BY <1>3, <2>1
<1>6. ASSUME NEW s \in Sessions, Acquire(s) PROVE Unclaimed'
  <2>1. \E h : Helped(s, h) /\ h.state \in {"claimed", "sent", "mutated", "ok", "failed"}
    BY <1>1, <1>6, AcquireDoes
  <2> QED  BY <1>3, <2>1
<1>7. ASSUME NEW s \in Sessions,
             \/ Launch(s) \/ Preflight(s) \/ StalePower(s) \/ StaleSet(s) \/ StaleJournal(s)
             \/ StaleInput(s) \/ StaleUnlink(s) \/ AcquireEnds(s) \/ Boost(s) \/ ApplyBoost(s)
      PROVE  UNCHANGED helper
  BY <1>7 DEF Launch, Preflight, StalePower, StaleSet, StaleJournal, StaleInput, StaleUnlink, AcquireEnds,
              Boost, ApplyBoost
<1>8. ASSUME NEW s \in Sessions,
             \/ JournalLaunch(s) \/ Popen(s) \/ AwaitScope(s) \/ Run(s) \/ Stop(s) \/ Cleanup(s)
             \/ RestorePower(s) \/ Unboost(s) \/ ClearPower(s) \/ Restore(s) \/ Recover(s) \/ Remove(s)
             \/ Release(s) \/ Signal(s) \/ Kill(s) \/ ScopeSettles(s) \/ GameExits(s)
      PROVE  UNCHANGED helper
  BY <1>8 DEF JournalLaunch, Popen, AwaitScope, Run, Stop, Cleanup, RestorePower, Unboost, ClearPower,
              Restore, Recover, Remove, Release, Signal, Kill, ScopeSettles, GameExits
<1>9. OrphanLands \/ UserSwitches \/ UserSetsPower \/ UNCHANGED vars => UNCHANGED helper
  BY DEF OrphanLands, UserSwitches, UserSetsPower, vars
<1> QED  BY <1>2, <1>4, <1>5, <1>6, <1>7, <1>8, <1>9 DEF Next, Supervise

LEMMA FenceInit == Init => FenceInv
<1> SUFFICES ASSUME Init PROVE FenceInv
  OBVIOUS
<1>1. orphans = {} /\ \A s \in Sessions : helper[s].token = 0
  BY DEF Init
<1> QED  BY <1>1, GameInit, LeaseInit DEF FenceInv, Fenced, Unclaimed

LEMMA FenceStep == FenceInv /\ [Next]_vars => FenceInv'
<1> SUFFICES ASSUME FenceInv, [Next]_vars PROVE FenceInv'
  OBVIOUS
<1>1. GameInv /\ LeaseInv /\ Unclaimed /\ Fenced /\ Places
  BY DEF FenceInv, GameInv, JournalInv
<1>2. GameInv' /\ LeaseInv' /\ Unclaimed'
  BY <1>1, GameStep, LeaseStep, UnclaimedStep
<1> SUFFICES Fenced'
  BY <1>2 DEF FenceInv
<1>3. ASSUME NEW s \in Sessions, Supervise(s) \/ Signal(s) PROVE Fenced'
  <2>1. Careful(s)
    BY <1>1, <1>3, StaleCareful, AcquireCareful, GameCareful, UndoCareful DEF Supervise
  <2> QED  BY <1>1, <2>1, CarefulFenced
<1>4. CASE UNCHANGED vars
  <2>1. UNCHANGED <<pc, helper, unit, pad, orphans, ghosts>>
    BY <1>4 DEF vars
  <2>2. \A t \in Sessions : Fence(t)' => Fence(t)
    BY <2>1 DEF Fence
  <2> QED  BY <1>1, <2>1, <2>2 DEF Fenced
<1>5. CASE \E s \in Sessions : Kill(s)
  BY <1>5, KillFenced
<1>6. CASE \/ \E s \in Sessions : Acquire(s) \/ ScopeSettles(s) \/ GameExits(s)
           \/ OrphanLands \/ UserSwitches \/ UserSetsPower
  BY <1>6, BesideFenced
<1> QED  BY <1>3, <1>4, <1>5, <1>6 DEF Next

LEMMA FenceHolds == Spec => []FenceInv
BY FenceInit, FenceStep, PTL DEF Spec

\* While a session's game runs, only the user changes the input mode, and no cleanup, no later
\* launch and no recovery left behind does; nor is the profile lowered that it runs on.
THEOREM GameKeepsItsSettingsHolds == Spec => GameKeepsItsSettings
<1>1. ASSUME FenceInv, [Next]_vars, NEW s \in Sessions, unit[s] = "active", s \notin ghosts
      PROVE  /\ \/ pad' = pad \/ pad'.by = "user"
                \/ \E t \in Sessions : pc[t] = "killed" /\ Acquire(t)
             /\ power' = power \/ powerBy' \in {"user", "orphan"}
  <2>1. GameInv /\ Fenced /\ Places /\ JournalInv
    BY <1>1 DEF FenceInv, GameInv, JournalInv
  <2>2. \A t \in Sessions : pc[t] \notin Dead => pc[t] \notin Stale \cup Behind \cup {"unboost", "clear", "recover"}
    BY <1>1, <2>1, Governs
  <2>3. ASSUME NEW t \in Sessions,
               \/ StaleSet(t) \/ StaleInput(t) \/ ApplyBoost(t) \/ Unboost(t) \/ Recover(t)
        PROVE  FALSE
    <3>1. pc[t] \in {"stale-set", "stale-input", "boosting", "unboost", "recover"}
      BY <2>3 DEF StaleSet, StaleInput, ApplyBoost, Unboost, Recover
    <3> QED  BY <2>2, <3>1 DEF Dead, Stale, Behind
  <2>4. ASSUME NEW t \in Sessions,
               \/ Launch(t) \/ Preflight(t) \/ StalePower(t) \/ StaleJournal(t) \/ StaleUnlink(t)
               \/ StartAcquire(t) \/ ReadReceipt(t) \/ AcquireEnds(t) \/ AcquireStops(t)
               \/ Boost(t) \/ JournalLaunch(t) \/ Popen(t) \/ AwaitScope(t) \/ Run(t)
        PROVE  pad' = pad /\ power' = power
    BY <2>4 DEF Launch, Preflight, StalePower, StaleJournal, StaleUnlink, StartAcquire, ReadReceipt,
                AcquireEnds, AcquireStops, Boost, JournalLaunch, Popen, AwaitScope, Run, world
  <2>5. ASSUME NEW t \in Sessions,
               \/ Stop(t) \/ Cleanup(t) \/ RestorePower(t) \/ ClearPower(t) \/ Restore(t) \/ Remove(t)
               \/ Release(t) \/ Signal(t) \/ Kill(t) \/ ScopeSettles(t) \/ GameExits(t)
        PROVE  pad' = pad /\ power' = power
    BY <2>5 DEF Stop, Cleanup, RestorePower, ClearPower, Restore, Remove, Release, Signal, Kill,
                ScopeSettles, GameExits, world
  <2>6. ASSUME NEW t \in Sessions, Acquire(t) PROVE pc[t] = "killed" /\ power' = power
    <3>1. power' = power /\ helper[t].state \in {"started", "claimed", "sent", "mutated"}
      BY <2>1, <2>6, AcquireDoes
    <3>2. pc[t] \in {"acquiring", "killed"}
      BY <2>1, <3>1, PlacesAt DEF Sound, Helps
    <3>3. pc[t] # "acquiring"
      BY <2>2 DEF Behind, Dead
    <3> QED  BY <3>1, <3>2, <3>3
  <2>7. CASE OrphanLands
    <3>1. PICK o \in orphans :
            \/ o[1] = "input" /\ PadYields(o[2]) /\ UNCHANGED <<power, powerBy>>
            \/ pad' = pad /\ ((power' = power /\ powerBy' = powerBy) \/ powerBy' = "orphan")
      BY <2>1, <2>7, OrphanDoes
    <3>2. o[1] = "input" => o[2] # pad.token
      BY <1>1, <2>1 DEF Fenced, Fence
    <3> QED  BY <3>1, <3>2 DEF PadYields
  <2>8. CASE UserSwitches \/ UserSetsPower
    BY <2>1, <2>8, UserDoes
  <2>9. CASE UNCHANGED vars
    BY <2>9 DEF vars
  <2> QED  BY <1>1, <2>3, <2>4, <2>5, <2>6, <2>7, <2>8, <2>9 DEF Next, Supervise
<1>2. FenceInv /\ [Next]_vars =>
        [\A s \in Sessions : unit[s] = "active" /\ unit'[s] = "active" /\ s \notin ghosts
           => /\ \/ pad' = pad \/ pad'.by = "user"
                 \/ \E t \in Sessions : pc[t] = "killed" /\ Acquire(t)
              /\ power' = power \/ powerBy' \in {"user", "orphan"}]_vars
  BY <1>1
<1> QED  BY <1>2, FenceHolds, PTL DEF Spec, GameKeepsItsSettings

=============================================================================

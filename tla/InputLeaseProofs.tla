-------------------------- MODULE InputLeaseProofs --------------------------
(***************************************************************************)
(* The input helper implements the lease that its callers are promised,    *)
(* for any number of helpers, runs, kills, faults and restarts.            *)
(***************************************************************************)
EXTENDS InputModeProofs

\* What the refinement needs beyond the lease invariant: the mode that the flock's
\* owner is about to publish, or would give back, was in force at some moment of
\* its turn, even if InputPlumber has left it since.
Watching == {"deciding", "receipt", "polled"}

Counted == Exact(profile, targets) \subseteq held

Seen ==
  \A h \in Helpers :
    /\ pc[h] \in {"deciding", "receipt"} /\ Found(h) \in Modes => Found(h) \in held
    /\ pc[h] = "polled" /\ job[h].goal \in Modes => job[h].goal \in held

SeenInv == Counted /\ Seen

Unmoved == UNCHANGED <<profile, targets, held, drift>>

-----------------------------------------------------------------------------
(* SeenInv is inductive *)

LEMMA InitSeen == Init => SeenInv
  BY DEF Init, SeenInv, Counted, Seen, Exact, Modes

\* What was in force remains counted, and nobody comes to a place that relies on it.
LEMMA QuietSeen ==
  ASSUME SeenInv, held \subseteq held', Exact(profile', targets') \subseteq held',
         \A g \in Helpers : pc'[g] \in Watching => pc'[g] = pc[g] /\ job'[g] = job[g]
  PROVE  SeenInv'
<1>1. Counted'
  BY DEF Counted, Exact
<1>2. Seen'
  BY DEF SeenInv, Seen, Found, Watching
<1> QED BY <1>1, <1>2 DEF SeenInv

\* The flock's owner h goes on to a place that relies on no observation.
LEMMA OwnerSeen ==
  ASSUME TypeInv, LeaseInv, NEW h \in Helpers, pc[h] \notin {"idle", "locking"},
         NEW l \in PCs \ Watching, pc' = [pc EXCEPT ![h] = l],
         Exact(profile', targets') \subseteq held'
  PROVE  SeenInv'
<1>1. lock = h /\ \A g \in Helpers \ {h} : pc[g] \in {"idle", "locking"}
  BY OneActive DEF LeaseInv, LockOwned
<1>2. \A g \in Helpers : pc'[g] \notin Watching
  BY <1>1 DEF TypeInv, TypeOK, Watching
<1>3. Seen'
  BY <1>2 DEF Seen, Watching
<1>4. Counted'
  BY DEF Counted, Exact
<1> QED BY <1>3, <1>4 DEF SeenInv

\* The flock's owner h goes on to a place that relies on what it has just seen.
LEMMA WatchSeen ==
  ASSUME TypeInv, LeaseInv, Counted, NEW h \in Helpers, pc[h] \notin {"idle", "locking"},
         NEW l, pc' = [pc EXCEPT ![h] = l], UNCHANGED <<profile, targets, held>>,
         l \in {"deciding", "receipt"} /\ job'[h].prior \in Modes => job'[h].prior \in held,
         l = "polled" /\ job'[h].goal \in Modes => job'[h].goal \in held
  PROVE  SeenInv'
<1>1. lock = h /\ \A g \in Helpers \ {h} : pc[g] \in {"idle", "locking"}
  BY OneActive DEF LeaseInv, LockOwned
<1>2. \A g \in Helpers \ {h} : pc'[g] \in {"idle", "locking"}
  BY <1>1 DEF TypeInv, TypeOK
<1>3. pc'[h] = l
  BY DEF TypeInv, TypeOK
<1>4. Seen'
  BY <1>2, <1>3 DEF Seen, Found
<1> QED BY <1>4 DEF SeenInv, Counted, Exact

LEMMA ObservedHeld ==
  ASSUME Counted
  PROVE  /\ Observed \in Modes => Observed \in held
         /\ \A m \in Modes : At(m) => m \in held
<1>1. "none" \notin Modes
  BY DEF Modes
<1> QED BY <1>1 DEF Counted, Exact, Observed, At

\* A claim by a command that delivers no receipt, or that would give back what it found.
LEMMA ClaimSeen ==
  ASSUME TypeInv, LeaseInv, SeenInv, NEW h \in Helpers, pc[h] = "deciding",
         NEW t \in Tokens, NEW goal \in Goals, NEW prior \in Goals \cup {"none"},
         Claim(h, t, goal, prior), UNCHANGED <<profile, targets, held>>,
         job[h].op = "acquire" => prior = Found(h)
  PROVE  SeenInv'
<1>1. PICK l \in {"receipt", "entering"} :
         /\ pc' = [pc EXCEPT ![h] = l]
         /\ l = "receipt" => job[h].op = "acquire"
  BY DEF Claim, Goto
<1>2. job'[h].prior = prior
  <2>1. job[h] \in Jobs
    BY DEF TypeInv, TypeOK
  <2>2. job'[h] = [job[h] EXCEPT !.token = t, !.goal = goal, !.prior = prior]
    BY DEF Claim, TypeInv, TypeOK
  <2> QED BY <2>1, <2>2 DEF Jobs
<1>3. l = "receipt" /\ prior \in Modes => prior \in held
  BY <1>1 DEF SeenInv, Seen
<1> QED BY <1>1, <1>2, <1>3, WatchSeen DEF SeenInv

LEMMA ExitSeen ==
  ASSUME TypeInv, SeenInv, NEW h \in Helpers, Exit(h), UNCHANGED <<profile, targets, held>>
  PROVE  SeenInv'
<1>1. \A g \in Helpers : pc'[g] \in Watching => pc'[g] = pc[g] /\ job'[g] = job[g]
  BY DEF Exit, Watching, TypeInv, TypeOK
<1> QED BY <1>1, QuietSeen DEF SeenInv, Counted

LEMMA CheckSeen ==
  ASSUME TypeInv, LeaseInv, SeenInv, NEW h \in Helpers, Check(h)
  PROVE  SeenInv'
<1>0. pc[h] = "deciding" /\ UNCHANGED <<profile, targets, held>>
  BY DEF Check
<1>a. /\ Fresh \in Tokens /\ job[h] \in Jobs /\ job[h].lease \in Tokens
      /\ Modes \subseteq Goals /\ Found(h) \in Goals \cup {"none"}
      /\ "default" \in Goals /\ "gamepad" \in Goals
  BY FoundType, TypeParts DEF TypeInv, TypeOK, Tokens, Fresh, Goals, Modes, Jobs
<1>b. job[h].goal \in Modes \/ job[h].op \in {"toggle", "toggle-nonblocking", "reconcile", "bootstrap"}
  BY <1>0 DEF TypeInv, JobOK
<1>c. ASSUME Exit(h) PROVE SeenInv'
  BY <1>0, <1>c, ExitSeen
<1>d. ASSUME NEW goal \in Goals, ClaimTransition(h, goal) PROVE SeenInv'
  BY <1>0, <1>a, <1>d, ClaimSeen DEF ClaimTransition
<1>e. ASSUME job[h].op # "acquire", NEW t \in Tokens, NEW goal \in Goals,
             NEW prior \in Goals \cup {"none"}, Claim(h, t, goal, prior)
      PROVE  SeenInv'
  BY <1>0, <1>e, ClaimSeen
<1>1. CASE CheckTransition(h)
  <2>1. (IF job[h].goal = "none" THEN Other(Found(h)) ELSE job[h].goal) \in Goals
    <3>1. Other(Found(h)) \in Goals
      BY DEF Other, Goals, Modes
    <3>2. job[h].goal \in Goals \cup {"none"}
      BY <1>a DEF Jobs
    <3> QED BY <3>1, <3>2
  <2> QED BY <1>1, <2>1, <1>c, <1>d DEF CheckTransition, Leave
<1>2. CASE CheckReconcile(h)
  BY <1>2, <1>c DEF CheckReconcile, Leave, Conclude
<1>3. CASE CheckBootstrap(h)
  <2>1. job[h].op # "acquire"
    BY <1>3 DEF CheckBootstrap
  <2> QED BY <1>3, <2>1, <1>a, <1>c, <1>e DEF CheckBootstrap, Leave, Conclude
<1>4. CASE CheckRecover(h)
  <2>1. job[h].goal \in Modes /\ job[h].op # "acquire"
    BY <1>4, <1>b DEF CheckRecover
  <2> QED BY <1>4, <2>1, <1>a, <1>c, <1>e DEF CheckRecover, Leave, Conclude
<1>5. CASE CheckRestore(h)
  <2>1. job[h].goal \in Modes /\ job[h].op # "acquire"
    BY <1>5, <1>b DEF CheckRestore
  <2> QED BY <1>5, <2>1, <1>a, <1>c, <1>d, <1>e DEF CheckRestore, Leave, Conclude
<1> QED BY <1>1, <1>2, <1>3, <1>4, <1>5 DEF Check

\* The steps that look at the runtime without touching it.
LEMMA ReadSeen ==
  ASSUME TypeInv, LeaseInv, SeenInv, NEW h \in Helpers, Look(h) \/ Poll(h) \/ RollBack(h)
  PROVE  SeenInv'
<1>0. job[h] \in Jobs /\ UNCHANGED <<profile, targets, held>> /\ Counted
  BY DEF TypeInv, TypeOK, Look, Poll, RollBack, SeenInv
<1>1. CASE Look(h)
  <2>1. PICK seen \in {Observed, "none"} :
          job' = [job EXCEPT ![h] = [@ EXCEPT !.prior = seen]]
    BY <1>1 DEF Look
  <2>2. job'[h].prior = seen
    <3>1. job'[h] = [job[h] EXCEPT !.prior = seen]
      BY <2>1 DEF TypeInv, TypeOK
    <3> QED BY <1>0, <3>1 DEF Jobs
  <2>3. seen \in Modes => seen \in held
    BY <1>0, ObservedHeld DEF Modes
  <2> QED BY <1>0, <1>1, <2>2, <2>3, WatchSeen DEF Look, Goto
<1>2. CASE Poll(h)
  <2>1. PICK l \in {"polled", "failed"} :
          pc' = [pc EXCEPT ![h] = l] /\ (l = "polled" => At(job[h].goal))
    BY <1>2 DEF Poll, Goto
  <2> QED BY <1>0, <1>2, <2>1, ObservedHeld, WatchSeen DEF Poll
<1>3. CASE RollBack(h)
  <2>1. PICK l \in {"polled", "entering"} :
          pc' = [pc EXCEPT ![h] = l] /\ (l = "polled" => At(job[h].prior))
    BY <1>3 DEF RollBack, Goto
  <2>2. job'[h].goal = job[h].prior
    <3>1. job'[h] = [job[h] EXCEPT !.goal = job[h].prior, !.round = "back"]
      BY <1>3 DEF RollBack, TypeInv, TypeOK
    <3> QED BY <1>0, <3>1 DEF Jobs
  <2> QED BY <1>0, <1>3, <2>1, <2>2, ObservedHeld, WatchSeen DEF RollBack
<1> QED BY <1>1, <1>2, <1>3

LEMMA CallSeen ==
  ASSUME TypeInv, LeaseInv, NEW h \in Helpers, CallDone(h) \/ CallFails(h) \/ OrphanEnds(h)
  PROVE  SeenInv'
<1>0. pc[h] \in {"applying", "undoing", "orphan"} /\ held' = Exact(profile', targets')
  BY DEF CallDone, CallFails, OrphanEnds, Calling
<1>1. CASE CallDone(h)
  <2>1. PICK l \in {"applying", "undoing", "applied", "failed"} : pc' = [pc EXCEPT ![h] = l]
    BY <1>0, <1>1 DEF CallDone, Calling
  <2> QED BY <1>0, <2>1, OwnerSeen DEF PCs, Watching
<1>2. CASE CallFails(h) \/ OrphanEnds(h)
  <2>1. PICK l \in {"undoing", "failed", "idle"} : pc' = [pc EXCEPT ![h] = l]
    BY <1>2 DEF CallFails, OrphanEnds
  <2> QED BY <1>0, <2>1, OwnerSeen DEF PCs, Watching
<1> QED BY <1>1, <1>2

LEMMA LockSeen ==
  ASSUME TypeInv, LeaseInv, NEW h \in Helpers, Lock(h)
  PROVE  SeenInv'
<1>1. \A g \in Helpers : pc[g] \in {"idle", "locking"}
  BY HelpersAssumption DEF Lock, LeaseInv, LockOwned
<1>2. \A g \in Helpers : pc'[g] \notin Watching
  BY <1>1 DEF Lock, TypeInv, TypeOK, Watching
<1>3. Seen'
  BY <1>2 DEF Seen, Watching
<1>4. Counted'
  BY DEF Lock, Counted, Exact
<1> QED BY <1>3, <1>4 DEF SeenInv

LEMMA NextSeen == TypeInv /\ LeaseInv /\ SeenInv /\ [Next]_vars => SeenInv'
<1> SUFFICES ASSUME TypeInv, LeaseInv, SeenInv, [Next]_vars PROVE SeenInv'
  OBVIOUS
<1>0. Exact(profile, targets) \subseteq held
  BY DEF SeenInv, Counted
<1>1. CASE UNCHANGED vars
  BY <1>0, <1>1, QuietSeen DEF vars
<1>2. ASSUME NEW h \in Helpers, Start(h) \/ SendReceipt(h) \/ Snapshot(h)
      PROVE  SeenInv'
  <2>1. PICK l \in PCs \ Watching : pc' = [pc EXCEPT ![h] = l]
    BY <1>2 DEF Start, SendReceipt, Snapshot, Goto, PCs, Watching
  <2>2. \A g \in Helpers : g # h => job'[g] = job[g]
    BY <1>2 DEF Start, SendReceipt, Snapshot, TypeInv, TypeOK
  <2>3. \A g \in Helpers : pc'[g] \in Watching => pc'[g] = pc[g] /\ job'[g] = job[g]
    BY <2>1, <2>2 DEF TypeInv, TypeOK
  <2> QED BY <1>0, <1>2, <2>3, QuietSeen DEF Start, SendReceipt, Snapshot
<1>3. ASSUME NEW h \in Helpers,
             LockBusy(h) \/ CheckFails(h) \/ ReceiptRefused(h) \/ Settle(h) \/ GiveUp(h)
      PROVE  SeenInv'
  BY <1>3, ExitSeen DEF LockBusy, CheckFails, ReceiptRefused, Settle, PublishSettled, GiveUp
<1>4. ASSUME NEW h \in Helpers, Kill(h)
      PROVE  SeenInv'
  <2>1. CASE Calling(h)
    BY <1>0, <1>4, <2>1, OwnerSeen DEF Kill, Calling, PCs, Watching
  <2>2. CASE ~Calling(h)
    BY <1>4, <2>2, ExitSeen DEF Kill
  <2> QED BY <2>1, <2>2
<1>5. CASE KeyboardAsks \/ KeyboardDone
  BY <1>0, <1>5, QuietSeen DEF KeyboardAsks, KeyboardDone
<1>6. CASE Restart \/ Ready \/ LateCallLands
  BY <1>6, QuietSeen DEF Restart, Ready, LateCallLands, Moves
<1> QED
  BY <1>1, <1>2, <1>3, <1>4, <1>5, <1>6, LockSeen, CheckSeen, ReadSeen, CallSeen
     DEF Next, Step

-----------------------------------------------------------------------------
(* Every step of the helper is a step of the lease, or invisible to it *)

Hidden == UNCHANGED <<file, profile, targets, issued, held, drift>>

LeaseStep == [Lease!LeaseNext]_(Lease!leaseVars)

LEMMA HiddenStep == Hidden => LeaseStep
  BY DEF Hidden, LeaseStep, Lease!leaseVars, ip

\* A write names the file's generation, or a fresh one.
LEMMA SaysSame ==
  ASSUME TypeInv, NEW m, Write(file.token, m), UNCHANGED issued
  PROVE  Lease!Says(m)
  BY DEF Write, Lease!Says

LEMMA SaysFresh ==
  ASSUME TypeInv, NEW m, Write(Fresh, m), issued' = Fresh
  PROVE  Lease!Says(m)
<1>1. issued \in Nat
  BY DEF TypeInv, TypeOK
<1>2. Fresh \notin 0..issued /\ 0..issued' = (0..issued) \cup {Fresh}
  BY <1>1 DEF Fresh
<1>3. file' = [token |-> Fresh, mode |-> m] /\ file'.token = Fresh
  BY DEF Write
<1> QED BY <1>2, <1>3 DEF Lease!Says

Named(t) == \/ t = file.token /\ UNCHANGED issued
            \/ t = Fresh /\ issued' = Fresh

LEMMA NamedSays ==
  ASSUME TypeInv, NEW t, NEW m, Write(t, m), Named(t)
  PROVE  Lease!Says(m)
  BY SaysSame, SaysFresh DEF Named

LEMMA InIsExact == Lease!In(ip) = Exact(profile, targets)
  BY DEF Lease!In, ip, Exact

LEMMA TurnStep ==
  ASSUME NEW h \in Helpers, Lock(h)
  PROVE  LeaseStep
<1>1. Lease!Turn
  BY InIsExact DEF Lock, Lease!Turn, ip
<1> QED BY <1>1 DEF LeaseStep, Lease!LeaseNext

LEMMA AnnounceStep ==
  ASSUME TypeInv, NEW t, Write(t, "transitioning"), Named(t),
         UNCHANGED <<profile, targets, held, drift>>
  PROVE  LeaseStep
<1>1. Lease!Announce
  BY NamedSays DEF Lease!Announce, ip
<1> QED BY <1>1 DEF LeaseStep, Lease!LeaseNext

LEMMA SettledStep ==
  ASSUME TypeInv, NEW t, NEW m \in Modes, Publish(t, m), Named(t), m \in held,
         UNCHANGED <<profile, targets, held>>
  PROVE  LeaseStep
<1>1. Lease!Says(m)
  BY NamedSays DEF Publish
<1>2. drift' = ~Lease!Is(m)
  BY DEF Lease!Is, At, ip, Publish
<1>3. Lease!Settled
  BY <1>1, <1>2 DEF Lease!Settled, ip
<1> QED BY <1>3 DEF LeaseStep, Lease!LeaseNext

LEMMA DoubtStep ==
  ASSUME TypeInv, NEW t, Write(t, "unknown"), Named(t),
         UNCHANGED <<profile, targets, held, drift>>
  PROVE  LeaseStep
<1>1. Lease!Doubt
  BY NamedSays DEF Lease!Doubt, ip
<1> QED BY <1>1 DEF LeaseStep, Lease!LeaseNext

\* The flock's owner publishes what it saw: the mode it wanted, or no mode at all.
LEMMA PublishStep ==
  ASSUME TypeInv, NEW t, NEW g \in Goals, g \in Modes => g \in held, Named(t),
         UNCHANGED <<profile, targets, held>>,
         Publish(t, IF g = "default" THEN "unknown" ELSE g)
  PROVE  LeaseStep
<1>1. CASE g = "default"
  <2>1. Write(t, "unknown") /\ UNCHANGED drift
    BY <1>1 DEF Publish, Modes
  <2> QED BY <2>1, DoubtStep
<1>2. CASE g # "default"
  BY <1>2, SettledStep DEF Goals
<1> QED BY <1>1, <1>2

LEMMA CheckStep ==
  ASSUME TypeInv, SeenInv, NEW h \in Helpers, Check(h)
  PROVE  LeaseStep
<1>0. pc[h] = "deciding" /\ UNCHANGED <<profile, targets, held>>
  BY DEF Check
<1>a. ASSUME Leave(h) PROVE LeaseStep
  BY <1>0, <1>a, HiddenStep DEF Leave, NoWrite, Hidden
<1>b. ASSUME Found(h) \in Modes, Conclude(h, Fresh, Found(h)) PROVE LeaseStep
  <2>1. Publish(Fresh, Found(h)) /\ Named(Fresh)
    BY <1>b DEF Conclude, Named
  <2>2. Found(h) \in held
    BY <1>0, <1>b DEF SeenInv, Seen
  <2> QED BY <1>0, <1>b, <2>1, <2>2, SettledStep
<1>c. ASSUME NEW t, NEW goal, NEW prior, Claim(h, t, goal, prior), Named(t), UNCHANGED drift
      PROVE  LeaseStep
  BY <1>0, <1>c, AnnounceStep DEF Claim
<1>d. ASSUME NEW goal, ClaimTransition(h, goal) PROVE LeaseStep
  BY <1>0, <1>c, <1>d DEF ClaimTransition, Named
<1>1. CASE CheckTransition(h)
  BY <1>1, <1>a, <1>d DEF CheckTransition
<1>2. CASE CheckReconcile(h)
  BY <1>2, <1>a, <1>b DEF CheckReconcile
<1>3. CASE CheckBootstrap(h)
  BY <1>3, <1>a, <1>b, <1>c DEF CheckBootstrap, Named
<1>4. CASE CheckRecover(h)
  <2>1. job[h].goal \in Modes
    BY <1>0, <1>4 DEF CheckRecover, TypeInv, JobOK
  <2> QED BY <1>4, <2>1, <1>a, <1>b, <1>c DEF CheckRecover, Named
<1>5. CASE CheckRestore(h)
  <2>1. CASE Conclude(h, Fresh, "unknown")
    <3>1. Write(Fresh, "unknown") /\ Named(Fresh) /\ UNCHANGED drift
      BY <2>1 DEF Conclude, Publish, Named, Modes
    <3> QED BY <1>0, <3>1, DoubtStep
  <2> QED BY <1>5, <2>1, <1>a, <1>b, <1>c, <1>d DEF CheckRestore, Named
<1> QED BY <1>1, <1>2, <1>3, <1>4, <1>5 DEF Check

LEMMA OutcomeStep ==
  ASSUME TypeInv, LeaseInv, SeenInv, NEW h \in Helpers,
         ReceiptRefused(h) \/ Settle(h) \/ GiveUp(h)
  PROVE  LeaseStep
<1>0. /\ UNCHANGED <<profile, targets, held>> /\ job[h].token = file.token
      /\ job[h].goal \in Goals /\ job[h] \in Jobs
  BY DEF ReceiptRefused, Settle, GiveUp, TypeInv, TypeOK, JobOK, LeaseInv, Claimed, Working
<1>1. ASSUME Write(job[h].token, "unknown"), UNCHANGED <<issued, drift>> PROVE LeaseStep
  BY <1>0, <1>1, DoubtStep DEF Named
<1>2. ASSUME UNCHANGED <<file, issued, drift>> PROVE LeaseStep
  BY <1>0, <1>2, HiddenStep DEF Hidden
<1>3. CASE Settle(h)
  <2>1. CASE PublishSettled(h)
    <3>1. Named(SettledToken(h))
      BY <1>0, <2>1 DEF PublishSettled, SettledToken, Named
    <3>2. job[h].goal \in Modes => job[h].goal \in held
      BY <1>3 DEF Settle, SeenInv, Seen
    <3> QED BY <1>0, <2>1, <3>1, <3>2, PublishStep DEF PublishSettled, SettledMode
  <2> QED BY <1>1, <1>2, <1>3, <2>1 DEF Settle
<1>4. CASE ReceiptRefused(h)
  <2>1. CASE Publish(job[h].token, job[h].prior)
    <3>1. job[h].prior \in Modes /\ job[h].prior \in held
      BY <1>4 DEF ReceiptRefused, TypeInv, JobOK, SeenInv, Seen, Found
    <3>2. Named(job[h].token)
      BY <1>0, <1>4 DEF ReceiptRefused, Named
    <3> QED BY <1>0, <2>1, <3>1, <3>2, SettledStep
  <2>2. UNCHANGED issued
    BY <1>4 DEF ReceiptRefused
  <2> QED BY <1>1, <1>2, <1>4, <2>1, <2>2 DEF ReceiptRefused, NoWrite
<1>5. CASE GiveUp(h)
  BY <1>1, <1>2, <1>5 DEF GiveUp
<1> QED BY <1>3, <1>4, <1>5

LEMMA CallStep ==
  ASSUME TypeInv, LeaseInv, NEW h \in Helpers, CallDone(h) \/ CallFails(h) \/ OrphanEnds(h)
  PROVE  LeaseStep
<1>1. file.mode = "transitioning" /\ UNCHANGED <<file, issued, drift>>
  BY DEF CallDone, CallFails, OrphanEnds, Calling, LeaseInv, Claimed, Working
<1>2. ip' \in Profiles \X Targets
  <2>1. TypeInv'
    BY CallDoneType, CallFailsType, OrphanEndsType
  <2> QED BY <2>1 DEF TypeInv, TypeOK, ip
<1>3. held' = Lease!In(ip')
  BY DEF CallDone, CallFails, OrphanEnds, Lease!In, ip, Exact
<1>4. Lease!Rebuild
  BY <1>1, <1>2, <1>3 DEF Lease!Rebuild
<1> QED BY <1>4 DEF LeaseStep, Lease!LeaseNext

LEMMA WorldStep ==
  ASSUME TypeInv, Restart \/ Ready \/ LateCallLands
  PROVE  LeaseStep
<1>1. Moves /\ UNCHANGED <<file, issued>>
  BY DEF Restart, Ready, LateCallLands
<1>2. ip' \in Profiles \X Targets
  <2>1. TypeInv'
    BY WorldStepType
  <2> QED BY <2>1 DEF TypeInv, TypeOK, ip
<1>3. held' = held \cup Lease!In(ip')
  BY <1>1 DEF Moves, Lease!In, ip, Exact
<1>4. Lease!Wander
  BY <1>1, <1>2, <1>3 DEF Moves, Lease!Wander
<1> QED BY <1>4 DEF LeaseStep, Lease!LeaseNext

LEMMA NextStep == TypeInv /\ LeaseInv /\ SeenInv /\ [Next]_vars => LeaseStep
<1> SUFFICES ASSUME TypeInv, LeaseInv, SeenInv, [Next]_vars PROVE LeaseStep
  OBVIOUS
<1>1. CASE UNCHANGED vars
  BY <1>1, HiddenStep DEF vars, Hidden
<1>2. ASSUME NEW h \in Helpers,
             \/ Start(h) \/ LockBusy(h) \/ Look(h) \/ CheckFails(h) \/ SendReceipt(h)
             \/ Snapshot(h) \/ Poll(h) \/ RollBack(h) \/ Kill(h)
      PROVE  LeaseStep
  <2>1. Hidden
    BY <1>2 DEF Start, LockBusy, Look, CheckFails, NoWrite, SendReceipt, Snapshot, Poll,
                RollBack, Kill, Hidden
  <2> QED BY <2>1, HiddenStep
<1>3. CASE KeyboardAsks \/ KeyboardDone
  BY <1>3, HiddenStep DEF KeyboardAsks, KeyboardDone, Hidden
<1> QED
  BY <1>1, <1>2, <1>3, TurnStep, CheckStep, OutcomeStep, CallStep, WorldStep DEF Next, Step

LEMMA ReachableSeen == Spec => [](Inv /\ SeenInv)
<1>1. Init => Inv /\ SeenInv
  BY InitType, InitLease, InitSeen DEF Inv
<1>2. Inv /\ SeenInv /\ [Next]_vars => (Inv /\ SeenInv)'
  BY NextType, NextLease, NextSeen DEF Inv
<1> QED BY <1>1, <1>2, PTL DEF Spec

\* The helper implements the lease: seen from the state file and InputPlumber, any
\* number of processes, killed at any point, behave as InputLease says.
THEOREM LeaseIsImplemented == Spec => ImplementsLease
<1>1. Init => Lease!LeaseInit
  <2>1. Init => ip \in Profiles \X Targets /\ 0..issued = {0}
    BY DEF Init, ip, Profiles, Targets, Goals
  <2> QED BY <2>1 DEF Init, Lease!LeaseInit
<1>2. Inv /\ SeenInv /\ [Next]_vars => [Lease!LeaseNext]_(Lease!leaseVars)
  BY NextStep DEF Inv, LeaseStep
<1> QED BY <1>1, <1>2, ReachableSeen, PTL DEF Spec, ImplementsLease, Lease!LeaseSpec

-----------------------------------------------------------------------------
(* What follows from the lease alone *)

LEMMA LeaseIsTrue == Lease!LeaseSpec => []Lease!RecordIsTrue
<1>1. Lease!LeaseInit => Lease!RecordIsTrue
  BY DEF Lease!LeaseInit, Lease!RecordIsTrue, Modes
<1>2. Lease!RecordIsTrue /\ [Lease!LeaseNext]_(Lease!leaseVars) => Lease!RecordIsTrue'
  <2> SUFFICES ASSUME Lease!RecordIsTrue, [Lease!LeaseNext]_(Lease!leaseVars)
               PROVE  Lease!RecordIsTrue'
    OBVIOUS
  <2> USE DEF Lease!RecordIsTrue, Lease!Is
  <2>1. CASE Lease!Announce
    BY <2>1 DEF Lease!Announce, Lease!Says, Modes
  <2>2. CASE Lease!Rebuild
    BY <2>2 DEF Lease!Rebuild, Modes
  <2>3. CASE Lease!Settled
    <3>1. PICK m \in held : Lease!Says(m) /\ drift' = ~Lease!Is(m)
      BY <2>3 DEF Lease!Settled
    <3>2. file'.mode = m /\ ip' = ip
      BY <2>3, <3>1 DEF Lease!Settled, Lease!Says
    <3>3. CASE Lease!Is(m)
      BY <3>2, <3>3
    <3>4. CASE ~Lease!Is(m)
      BY <3>1, <3>4
    <3> QED BY <3>3, <3>4
  <2>4. CASE Lease!Turn
    BY <2>4 DEF Lease!Turn
  <2>5. CASE Lease!Doubt
    BY <2>5 DEF Lease!Doubt, Lease!Says, Modes
  <2>6. CASE Lease!Wander
    BY <2>6 DEF Lease!Wander
  <2>7. CASE UNCHANGED Lease!leaseVars
    BY <2>7 DEF Lease!leaseVars
  <2> QED BY <2>1, <2>2, <2>3, <2>4, <2>5, <2>6, <2>7 DEF Lease!LeaseNext
<1> QED BY <1>1, <1>2, PTL DEF Lease!LeaseSpec

\* A published mode is the mode InputPlumber is in, unless InputPlumber has left it
\* by itself: no rollback, recovery or conclusion publishes a mode that was not in
\* force after the helper's last call.
THEOREM PublishedModeIsRealHolds == Spec => []PublishedModeIsReal
<1>1. Lease!RecordIsTrue => PublishedModeIsReal
  BY DEF Lease!RecordIsTrue, Lease!Is, PublishedModeIsReal, At, ip
<1> QED BY <1>1, LeaseIsImplemented, LeaseIsTrue, PTL DEF ImplementsLease

\* While the flock is free, or shared by the keyboard, no helper is at work and
\* only InputPlumber itself moves the device.
LEMMA FreeFlock ==
  ASSUME Inv, SeenInv, [Next]_vars, lock = NoOne
  PROVE  \/ \E h \in Helpers : Lock(h)
         \/ Unmoved /\ lock' = NoOne
         \/ drift' /\ lock' = NoOne
<1>1. \A h \in Helpers : pc[h] \in {"idle", "locking"}
  BY HelpersAssumption DEF Inv, LeaseInv, LockOwned
<1>2. CASE UNCHANGED vars
  BY <1>2 DEF vars, Unmoved
<1>3. ASSUME NEW h \in Helpers, Start(h) \/ Step(h) \/ Kill(h)
      PROVE  Lock(h) \/ (Unmoved /\ lock' = NoOne)
  <2>1. Start(h) \/ Lock(h) \/ LockBusy(h) \/ Kill(h)
    BY <1>1, <1>3 DEF Step, Look, Check, Poll, CheckFails, SendReceipt, ReceiptRefused, Snapshot, CallDone,
                      CallFails, Calling, Settle, RollBack, GiveUp, OrphanEnds
  <2> QED BY <1>1, <2>1 DEF Start, LockBusy, Kill, Calling, Goto, Exit, Unmoved
<1>4. CASE KeyboardAsks \/ KeyboardDone
  BY <1>4 DEF KeyboardAsks, KeyboardDone, Unmoved
<1>5. CASE Restart \/ Ready \/ LateCallLands
  BY <1>5 DEF Restart, Ready, LateCallLands, Moves
<1> QED BY <1>2, <1>3, <1>4, <1>5 DEF Next

\* The keyboard rumbles only while no helper has the flock and the pad is a mouse,
\* or InputPlumber has moved by itself.
THEOREM HapticsOnlyWhenSettledHolds == Spec => []HapticsOnlyWhenSettled
<1>1. Init => HapticsOnlyWhenSettled
  BY DEF Init, HapticsOnlyWhenSettled
<1>2. ASSUME Inv /\ SeenInv, PublishedModeIsReal, HapticsOnlyWhenSettled, [Next]_vars
      PROVE  HapticsOnlyWhenSettled'
  <2> SUFFICES ASSUME keyboard' = "allowed"
               PROVE  lock' = NoOne /\ (drift' \/ At("joymouse")')
    BY DEF HapticsOnlyWhenSettled
  <2>1. CASE KeyboardAsks
    BY <1>2, <2>1 DEF KeyboardAsks, PublishedModeIsReal, Modes, At
  <2>2. CASE ~KeyboardAsks
    <3>1. keyboard = "allowed"
      BY <1>2, <2>2 DEF Next, vars, Start, Step, Lock, LockBusy, Look, Check, CheckFails, SendReceipt,
         ReceiptRefused, Snapshot, CallDone, CallFails, Poll, Settle, RollBack, GiveUp, OrphanEnds,
         Kill, KeyboardDone, Restart, Ready, LateCallLands
    <3>2. lock = NoOne /\ (drift \/ At("joymouse")) /\ \A h \in Helpers : ~Lock(h)
      BY <1>2, <3>1 DEF HapticsOnlyWhenSettled, Lock
    <3> QED BY <1>2, <3>2, FreeFlock DEF Unmoved, At
  <2> QED BY <2>1, <2>2
<1> QED BY <1>1, <1>2, ReachableSeen, PublishedModeIsRealHolds, PTL DEF Spec

-----------------------------------------------------------------------------
(* Recovery *)

\* A recovery keeps its journal's token in the state file until the mode it was
\* asked for was really there.
THEOREM RecoveryKeepsTokenHolds == Spec => RecoveryKeepsToken
<1> DEFINE Kept(h) == job[h].op = "recover" /\ lock = h /\ file.token = job[h].lease
                        => \/ file'.token = file.token
                           \/ file'.mode = job[h].goal /\ job[h].goal \in held
<1>1. ASSUME Inv /\ SeenInv, [Next]_vars, NEW h \in Helpers PROVE Kept(h)
  <2> SUFFICES ASSUME job[h].op = "recover", lock = h, file.token = job[h].lease, file' # file
               PROVE  \/ file'.token = file.token
                      \/ file'.mode = job[h].goal /\ job[h].goal \in held
    OBVIOUS
  <2>1. CASE Check(h)
    <3>1. CheckRecover(h) /\ job[h].goal \in Modes /\ pc[h] = "deciding"
      BY <1>1, <2>1 DEF Check, CheckTransition, CheckReconcile, CheckBootstrap, CheckRestore,
                  Transitions, Inv, TypeInv, JobOK
    <3>2. CASE Found(h) = job[h].goal /\ Conclude(h, Fresh, job[h].goal)
      BY <1>1, <3>1, <3>2 DEF Conclude, Publish, Write, SeenInv, Seen
    <3>3. CASE Claim(h, job[h].lease, job[h].goal, "none")
      BY <3>3 DEF Claim, Write
    <3> QED BY <3>1, <3>2, <3>3 DEF CheckRecover, Leave, NoWrite
  <2>2. CASE ReceiptRefused(h) /\ file.token = job[h].token
    BY <2>2 DEF ReceiptRefused, Publish, NoWrite, Write
  <2>3. CASE Settle(h) /\ file.token = job[h].token
    <3>1. job[h].goal \in Modes /\ job[h].goal \in held
      BY <1>1, <2>3 DEF Settle, Inv, LeaseInv, RecoveryAims, Working, SeenInv, Seen
    <3> QED BY <2>3, <3>1 DEF Settle, PublishSettled, Publish, Write, SettledMode, Modes
  <2>4. CASE GiveUp(h) /\ file.token = job[h].token
    BY <2>4 DEF GiveUp, Write
  <2> QED BY <1>1, <2>1, <2>2, <2>3, <2>4, OwnerWrites
<1>2. Inv /\ SeenInv /\ [Next]_vars => [\A h \in Helpers : Kept(h)]_vars
  BY <1>1
<1> QED BY <1>2, ReachableSeen, PTL DEF Spec, RecoveryKeepsToken

=============================================================================

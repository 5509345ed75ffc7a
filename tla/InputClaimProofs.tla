-------------------------- MODULE InputClaimProofs --------------------------
(***************************************************************************)
(* A claim that nobody is working on comes from a kill or a failed write:  *)
(* every other path of the input helper ends in a published outcome,       *)
(* whichever D-Bus call or poll fails, and InputPlumber restarting under   *)
(* it included.                                                            *)
(***************************************************************************)
EXTENDS InputModeProofs

Excused == budget.kills > 0 \/ budget.writes > 0

\* Whoever announced a transition is still at it, or a helper was killed or kept
\* from publishing an outcome.
ClaimInv ==
  /\ file.mode = "transitioning" => Excused \/ \E h \in Helpers : pc[h] \in Working
  /\ \A h \in Helpers : pc[h] = "orphan" => Excused

LEMMA InitClaim == Init => ClaimInv
  BY DEF Init, ClaimInv

LEMMA WriteFaultExcuses == ASSUME WorldType, WriteFault PROVE Excused'
<1>1. budget' = [budget EXCEPT !.faults = budget.faults + 1, !.writes = budget.writes + 1]
  BY DEF WriteFault
<1>2. budget'.writes = budget.writes + 1 /\ budget.writes \in Nat
  BY <1>1 DEF WorldType
<1> QED BY <1>2 DEF Excused

\* A failed call or poll excuses nobody.
LEMMA FaultKeepsExcuses ==
  ASSUME WorldType, Fault \/ UNCHANGED budget
  PROVE  Excused => Excused'
<1>1. CASE Fault
  <2>1. budget' = [budget EXCEPT !.faults = budget.faults + 1]
    BY <1>1 DEF Fault
  <2> QED BY <2>1 DEF WorldType, Excused
<1> QED BY <1>1 DEF Excused

LEMMA KillExcuses ==
  ASSUME WorldType, NEW h \in Helpers, Kill(h)
  PROVE  Excused'
<1>1. budget' = [budget EXCEPT !.kills = budget.kills + 1]
  BY DEF Kill
<1> QED BY <1>1 DEF WorldType, Excused

LEMMA ExcusedClaim == Excused' => ClaimInv'
  BY DEF ClaimInv

\* Process h goes on to l, and nothing is said about a claim.
LEMMA GoesOn ==
  ASSUME ProcType, ClaimInv, NEW h \in Helpers, NEW l, pc' = [pc EXCEPT ![h] = l],
         Excused => Excused', file' = file,
         l # "orphan", l \in Working \/ pc[h] \notin Working
  PROVE  ClaimInv'
<1>1. \A g \in Helpers : pc'[g] = IF g = h THEN l ELSE pc[g]
  BY DEF ProcType
<1> QED BY <1>1 DEF ClaimInv

\* Process h goes on to l and publishes an outcome.
LEMMA Resolves ==
  ASSUME ProcType, ClaimInv, NEW h \in Helpers, NEW l, pc' = [pc EXCEPT ![h] = l],
         Excused => Excused', l # "orphan", file'.mode # "transitioning"
  PROVE  ClaimInv'
<1>1. \A g \in Helpers : pc'[g] = IF g = h THEN l ELSE pc[g]
  BY DEF ProcType
<1> QED BY <1>1 DEF ClaimInv

LEMMA CheckClaim ==
  ASSUME TypeInv, ClaimInv, NEW h \in Helpers, Check(h)
  PROVE  ClaimInv'
<1> USE TypeParts
<1>0. pc[h] = "deciding" /\ pc[h] \notin Working
  BY DEF Check, Working
<1>a. ASSUME Leave(h) PROVE ClaimInv'
  BY <1>0, <1>a, GoesOn DEF Leave, Exit, NoWrite, Excused
<1>b. ASSUME NEW m \in Modes \cup {"unknown"}, Conclude(h, Fresh, m) PROVE ClaimInv'
  <2>1. file'.mode = m /\ m # "transitioning"
    BY <1>b DEF Conclude, Publish, Write, Modes
  <2> QED BY <1>b, <2>1, Resolves DEF Conclude, Exit, Excused
<1>c. ASSUME NEW t, NEW goal, NEW prior, Claim(h, t, goal, prior)
      PROVE  ClaimInv'
  <2>1. PICK l \in {"receipt", "entering"} : pc' = [pc EXCEPT ![h] = l]
    BY <1>c DEF Claim, Goto
  <2>2. pc'[h] \in Working /\ \A g \in Helpers \ {h} : pc'[g] = pc[g]
    BY <2>1 DEF ProcType, Working
  <2>3. Excused => Excused'
    BY DEF Check, CheckTransition, CheckReconcile, CheckBootstrap, CheckRecover, CheckRestore,
           ClaimTransition, Conclude, Leave, Excused
  <2> QED BY <2>1, <2>2, <2>3 DEF ClaimInv
<1>1. CASE CheckTransition(h)
  BY <1>1, <1>a, <1>c DEF CheckTransition, ClaimTransition
<1>2. CASE CheckReconcile(h)
  BY <1>2, <1>a, <1>b DEF CheckReconcile
<1>3. CASE CheckBootstrap(h)
  BY <1>3, <1>a, <1>b, <1>c DEF CheckBootstrap
<1>4. CASE CheckRecover(h)
  <2>1. job[h].goal \in Modes
    BY <1>0, <1>4 DEF CheckRecover, ProcType, JobOK
  <2> QED BY <1>4, <2>1, <1>a, <1>b, <1>c DEF CheckRecover
<1>5. CASE CheckRestore(h)
  BY <1>5, <1>a, <1>b, <1>c DEF CheckRestore, ClaimTransition
<1> QED BY <1>1, <1>2, <1>3, <1>4, <1>5 DEF Check

LEMMA OutcomeClaim ==
  ASSUME TypeInv, ClaimInv, NEW h \in Helpers, ReceiptRefused(h) \/ Settle(h) \/ GiveUp(h)
  PROVE  ClaimInv'
<1> USE TypeParts
<1>0. job[h].goal \in Goals /\ job[h] \in Jobs
  BY DEF ReceiptRefused, Settle, GiveUp, ProcType, JobOK, Working
<1>1. CASE WriteFault
  BY <1>1, WriteFaultExcuses, ExcusedClaim
<1>2. ASSUME NEW t, NEW m, Write(t, m), m # "transitioning", Exit(h), UNCHANGED budget
      PROVE  ClaimInv'
  BY <1>2, Resolves DEF Write, Exit, Excused
<1>3. CASE ReceiptRefused(h)
  <2>1. job[h].prior \in Modes
    BY <1>3 DEF ReceiptRefused, ProcType, JobOK
  <2> QED BY <1>1, <1>2, <1>3, <2>1 DEF ReceiptRefused, Publish, Modes
<1>4. CASE Settle(h)
  <2>1. SettledMode(h) # "transitioning"
    BY <1>0 DEF SettledMode, Goals, Modes
  <2> QED BY <1>1, <1>2, <1>4, <2>1 DEF Settle, PublishSettled, Publish
<1>5. CASE GiveUp(h)
  BY <1>1, <1>2, <1>5 DEF GiveUp
<1> QED BY <1>3, <1>4, <1>5

\* Whatever a read, a call or a poll brings, its process goes on.
LEMMA CallClaim ==
  ASSUME TypeInv, ClaimInv, NEW h \in Helpers,
         \/ Look(h) \/ Snapshot(h) \/ CallDone(h) \/ CallFails(h)
         \/ Poll(h) \/ RollBack(h) \/ OrphanEnds(h)
  PROVE  ClaimInv'
<1> USE TypeParts
<1>0. Fault \/ UNCHANGED budget
  BY DEF Look, Snapshot, CallDone, CallFails, Poll, RollBack, OrphanEnds
<1>1. (Excused => Excused') /\ file' = file
  BY <1>0, FaultKeepsExcuses
     DEF Look, Snapshot, CallDone, CallFails, Poll, RollBack, NoWrite, OrphanEnds
<1>2. CASE Look(h)
  <2>1. pc' = [pc EXCEPT ![h] = "deciding"] /\ pc[h] \notin Working
    BY <1>2 DEF Look, Goto, Working
  <2> QED BY <1>1, <2>1, GoesOn
<1>3. CASE Snapshot(h) \/ CallFails(h) \/ Poll(h) \/ RollBack(h)
  <2>1. PICK l \in {"applying", "undoing", "entering", "polled", "failed"} :
          pc' = [pc EXCEPT ![h] = l]
    BY <1>3 DEF Snapshot, CallFails, Poll, RollBack, Goto
  <2> QED BY <1>1, <2>1, GoesOn DEF Working
<1>4. CASE CallDone(h)
  <2>1. PICK l \in {"applying", "undoing", "applied", "failed"} : pc' = [pc EXCEPT ![h] = l]
    BY <1>4 DEF CallDone, Calling
  <2> QED BY <1>1, <2>1, GoesOn DEF Working
<1>5. CASE OrphanEnds(h)
  BY <1>5 DEF OrphanEnds, ClaimInv, Excused
<1> QED BY <1>2, <1>3, <1>4, <1>5

LEMMA NextClaim == TypeInv /\ ClaimInv /\ [Next]_vars => ClaimInv'
<1> SUFFICES ASSUME TypeInv, ClaimInv, [Next]_vars PROVE ClaimInv'
  OBVIOUS
<1> USE TypeParts
<1>1. CASE UNCHANGED <<pc, file, budget>>
  BY <1>1 DEF ClaimInv, Excused
<1>2. ASSUME NEW h \in Helpers, Start(h) \/ Lock(h) \/ SendReceipt(h) \/ LockBusy(h)
      PROVE  ClaimInv'
  <2>1. PICK l : /\ pc' = [pc EXCEPT ![h] = l] /\ l # "orphan"
                 /\ l \in Working \/ pc[h] \notin Working
    BY <1>2 DEF Start, Lock, SendReceipt, LockBusy, Goto, Exit, Working
  <2>2. file' = file /\ (Excused => Excused')
    <3>1. CASE Start(h)
      <4>1. budget' = [budget EXCEPT !.runs = budget.runs + 1]
        BY <3>1 DEF Start
      <4> QED BY <3>1, <4>1 DEF Start, Excused, WorldType
    <3> QED BY <1>2, <3>1 DEF Lock, SendReceipt, LockBusy, Excused
  <2> QED BY <2>1, <2>2, GoesOn
<1>3. ASSUME NEW h \in Helpers, Kill(h)
      PROVE  ClaimInv'
  BY <1>3, KillExcuses, ExcusedClaim
<1>4. CASE KeyboardAsks \/ KeyboardDone \/ Ready \/ LateCallLands
  BY <1>1, <1>4 DEF KeyboardAsks, KeyboardDone, Ready, LateCallLands
<1>5. CASE Restart
  <2>1. budget' = [budget EXCEPT !.restarts = budget.restarts + 1]
    BY <1>5 DEF Restart
  <2> QED BY <1>5, <2>1 DEF Restart, ClaimInv, Excused, WorldType
<1>6. ASSUME NEW h \in Helpers, CheckFails(h)
      PROVE  ClaimInv'
  <2>1. pc' = [pc EXCEPT ![h] = "idle"] /\ pc[h] \notin Working /\ file' = file
    BY <1>6 DEF CheckFails, Exit, NoWrite, Working
  <2>2. Excused => Excused'
    BY <1>6, FaultKeepsExcuses DEF CheckFails
  <2> QED BY <2>1, <2>2, GoesOn
<1> QED
  BY <1>1, <1>2, <1>3, <1>4, <1>5, <1>6, CheckClaim, OutcomeClaim, CallClaim DEF Next, Step, vars

\* With no kill and no failed publication, no claim is left behind by a helper that
\* ended, whichever calls and polls failed: the flock is never free over a
\* "transitioning" state file.
THEOREM ClaimsAreResolvedHolds == Spec => []ClaimsAreResolved
<1>1. Init => ClaimInv
  BY InitClaim
<1>2. Inv /\ ClaimInv /\ [Next]_vars => ClaimInv'
  BY NextClaim DEF Inv
<1>3. Inv /\ ClaimInv => ClaimsAreResolved
  BY HelpersAssumption DEF Inv, LeaseInv, LockOwned, ClaimInv, Excused, ClaimsAreResolved, Working
<1> QED BY <1>1, <1>2, <1>3, Reachable, PTL DEF Spec

=============================================================================

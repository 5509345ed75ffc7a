--------------------------- MODULE InputModeProofs ---------------------------
(***************************************************************************)
(* Proofs about the input helper, for any number of concurrent helpers and *)
(* any number of runs, kills, faults and restarts.                         *)
(***************************************************************************)
EXTENDS InputMode, TLAPS

\* What TypeOK leaves out and its own preservation needs: a lease command names
\* the managed mode it wants, a claimed job knows its profile, and a process that
\* has a call in flight has one to make.
Working == {"receipt", "entering", "applying", "undoing", "applied", "polled", "failed",
            "orphan"}

JobOK ==
  \A h \in Helpers :
    /\ pc[h] \in {"locking", "checking", "deciding"} =>
          \/ job[h].op \in {"toggle", "toggle-nonblocking", "reconcile", "bootstrap"}
          \/ job[h].goal \in Modes
    /\ pc[h] \in Working => job[h].goal \in Goals
    /\ pc[h] = "receipt" => job[h].prior \in Modes
    /\ InFlight(h) => calls[h] # <<>>

TypeInv == TypeOK /\ JobOK

LEMMA NewJobType ==
  ASSUME NEW op \in Ops, NEW t \in Tokens, NEW g \in Goals \cup {"none"}
  PROVE  NewJob(op, t, g) \in Jobs
  BY DEF NewJob, Jobs, Tokens, Goals, Profiles, Targets, Modes

LEMMA InitType == Init => TypeInv
<1> SUFFICES ASSUME Init PROVE TypeInv
  OBVIOUS
<1>1. job \in [Helpers -> Jobs]
  <2>1. NewJob("reconcile", 0, "none") \in Jobs
    BY NewJobType DEF Ops, Tokens
  <2> QED BY <2>1 DEF Init
<1>2. calls \in [Helpers -> Seq(CallSet)]
  BY DEF Init
<1>3. /\ file \in [token : Tokens, mode : FileModes]
      /\ budget \in [runs : Nat, kills : Nat, faults : Nat, writes : Nat, restarts : Nat]
  BY DEF Init, Tokens, FileModes
<1>4. JobOK
  BY DEF Init, JobOK, Working, InFlight, Calling
<1> QED
  BY <1>1, <1>2, <1>3, <1>4 DEF Init, TypeInv, TypeOK, PCs, Goals, Profiles, Targets, Modes, Tokens

LEMMA RequestType == 
  ASSUME TypeOK, NEW r \in Requests
  PROVE  /\ r \in Jobs
         /\ \/ r.op \in {"toggle", "toggle-nonblocking", "reconcile", "bootstrap"}
            \/ r.goal \in Modes
<1>1. CASE r \in {NewJob("set", 0, m) : m \in Modes}
  <2>1. PICK m \in Modes : r = NewJob("set", 0, m)
    BY <1>1
  <2> QED BY <2>1, NewJobType DEF Ops, Transitions, Tokens, Goals, NewJob
<1>2. CASE r \in {NewJob(op, 0, "none") :
            op \in {"toggle", "toggle-nonblocking", "reconcile", "bootstrap"}}
  <2>1. PICK op \in {"toggle", "toggle-nonblocking", "reconcile", "bootstrap"} :
           r = NewJob(op, 0, "none")
    BY <1>2
  <2> QED BY <2>1, NewJobType DEF Ops, Transitions, Tokens, NewJob
<1>3. CASE r = NewJob("acquire", 0, "gamepad")
  BY <1>3, NewJobType DEF Ops, Transitions, Tokens, Goals, Modes, NewJob
<1>4. CASE r \in {NewJob(op, q.token, q.previous) : op \in LeaseOps, q \in receipts}
  <2>1. PICK op \in LeaseOps, q \in receipts : r = NewJob(op, q.token, q.previous)
    BY <1>4
  <2>2. q.token \in Tokens /\ q.previous \in Modes
    BY DEF TypeOK
  <2> QED BY <2>1, <2>2, NewJobType DEF Ops, Goals, NewJob
<1> QED BY <1>1, <1>2, <1>3, <1>4 DEF Requests

LEMMA StartType ==
  ASSUME TypeInv, NEW h \in Helpers, Start(h)
  PROVE  TypeInv'
<1>1. PICK r \in Requests : job' = [job EXCEPT ![h] = r]
  BY DEF Start
<1>2. job' \in [Helpers -> Jobs]
  BY <1>1, RequestType DEF TypeInv, TypeOK
<1>3. budget' \in [runs : Nat, kills : Nat, faults : Nat, writes : Nat, restarts : Nat]
  <2>1. budget \in [runs : Nat, kills : Nat, faults : Nat, writes : Nat, restarts : Nat]
    BY DEF TypeInv, TypeOK
  <2>2. budget' = [budget EXCEPT !.runs = budget.runs + 1]
    BY DEF Start
  <2> QED BY <2>1, <2>2
<1>4. pc' \in [Helpers -> PCs]
  BY DEF Start, Goto, TypeInv, TypeOK, PCs
<1>5. JobOK'
  BY <1>1, RequestType DEF Start, Goto, TypeInv, TypeOK, JobOK, Working, InFlight, Calling
<1> QED
  BY <1>2, <1>3, <1>4, <1>5 DEF TypeInv, TypeOK, Start, Goto

(***************************************************************************)
(* The three parts of the typing invariant: the helper processes, the      *)
(* lease they share, and the world around them.                            *)
(***************************************************************************)
ProcType ==
  /\ pc \in [Helpers -> PCs]
  /\ job \in [Helpers -> Jobs]
  /\ calls \in [Helpers -> Seq(CallSet)]
  /\ lock \in Helpers \cup {NoOne}
  /\ JobOK

FileType ==
  /\ file \in [token : Tokens, mode : FileModes]
  /\ issued \in Nat
  /\ retired \subseteq Tokens
  /\ drift \in BOOLEAN

IpType ==
  /\ profile \in Profiles /\ targets \in Targets /\ late \subseteq CallSet
  /\ held \subseteq Modes

WorldType ==
  /\ keyboard \in {"idle", "allowed", "refused"}
  /\ receipts \subseteq [token : Tokens, previous : Modes]
  /\ budget \in [runs : Nat, kills : Nat, faults : Nat, writes : Nat, restarts : Nat]

LEMMA TypeParts == TypeInv <=> ProcType /\ FileType /\ IpType /\ WorldType
  BY DEF TypeInv, TypeOK, ProcType, FileType, IpType, WorldType

LEMMA TypePartsNext ==
  (ProcType /\ FileType /\ IpType /\ WorldType)' => TypeInv'
  BY TypeParts, PTL

LEMMA FaultType ==
  ASSUME WorldType, Fault
  PROVE  budget' \in [runs : Nat, kills : Nat, faults : Nat, writes : Nat, restarts : Nat]
<1>1. budget' = [budget EXCEPT !.faults = budget.faults + 1]
  BY DEF Fault
<1> QED BY <1>1 DEF WorldType

LEMMA WriteFaultType ==
  ASSUME WorldType, WriteFault
  PROVE  budget' \in [runs : Nat, kills : Nat, faults : Nat, writes : Nat, restarts : Nat]
<1>1. budget' = [budget EXCEPT !.faults = budget.faults + 1, !.writes = budget.writes + 1]
  BY DEF WriteFault
<1>2. budget.faults + 1 \in Nat /\ budget.writes + 1 \in Nat
  BY DEF WorldType
<1>3. [budget EXCEPT !.faults = budget.faults + 1]
        \in [runs : Nat, kills : Nat, faults : Nat, writes : Nat, restarts : Nat]
  BY <1>2 DEF WorldType
<1> QED BY <1>1, <1>2, <1>3 DEF WorldType

LEMMA ObservedType == Observed \in Goals \cup {"none"}
  BY DEF Observed

LEMMA ExactType == ASSUME NEW p, NEW t PROVE Exact(p, t) \subseteq Modes
  BY DEF Exact

LEMMA FoundType ==
  ASSUME ProcType, NEW h \in Helpers
  PROVE  Found(h) \in Goals \cup {"none"}
<1>1. job[h] \in Jobs
  BY DEF ProcType
<1> QED BY <1>1 DEF Found, Jobs

LEMMA ExitType ==
  ASSUME ProcType, NEW h \in Helpers, Exit(h)
  PROVE  ProcType'
<1>1. NewJob("reconcile", 0, "none") \in Jobs
  BY NewJobType DEF Ops, Tokens
<1>2. job' = [job EXCEPT ![h] = NewJob("reconcile", 0, "none")]
  BY DEF Exit
<1>3. job' \in [Helpers -> Jobs]
  BY <1>1, <1>2 DEF ProcType
<1>4. pc' \in [Helpers -> PCs] /\ lock' \in Helpers \cup {NoOne}
  BY DEF Exit, ProcType, PCs
<1>5. JobOK'
  BY <1>2 DEF Exit, ProcType, JobOK, Working, InFlight, Calling
<1> QED BY <1>3, <1>4, <1>5 DEF ProcType, Exit

LEMMA WriteType ==
  ASSUME FileType, NEW t \in Tokens, NEW m \in FileModes, Write(t, m)
  PROVE  file' \in [token : Tokens, mode : FileModes] /\ retired' \subseteq Tokens
  BY DEF FileType, Write

LEMMA PublishType ==
  ASSUME FileType, NEW t \in Tokens, NEW m \in FileModes, Publish(t, m)
  PROVE  /\ file' \in [token : Tokens, mode : FileModes] /\ retired' \subseteq Tokens
         /\ drift' \in BOOLEAN
<1>1. Write(t, m)
  BY DEF Publish
<1>2. drift' = IF m \in Modes THEN m \in held /\ ~At(m) ELSE drift
  BY DEF Publish
<1>3. drift' \in BOOLEAN
  BY <1>2 DEF FileType
<1> QED BY <1>1, <1>3, WriteType

LEMMA EffectType ==
  ASSUME IpType, NEW c \in CallSet, Effect(c)
  PROVE  profile' \in Profiles /\ targets' \in Targets
<1>1. /\ c[1] = "profile" => c[2] \in Profiles
      /\ c[1] = "targets" => c[2] \in Targets
  BY DEF CallSet, Profiles
<1> QED BY <1>1 DEF IpType, Effect

LEMMA AbandonedType ==
  ASSUME IpType, NEW c \in CallSet, Abandoned(c)
  PROVE  profile' \in Profiles /\ targets' \in Targets /\ late' \subseteq CallSet
<1>1. CASE Effect(c) /\ UNCHANGED late
  BY <1>1, EffectType DEF IpType
<1>2. CASE UNCHANGED <<profile, targets, late>>
  BY <1>2 DEF IpType
<1>3. CASE late' = late \cup {c} /\ UNCHANGED ip
  BY <1>3 DEF IpType, ip
<1> QED BY <1>1, <1>2, <1>3 DEF Abandoned

LEMMA CallsType ==
  /\ \A m \in Goals : ApplyCalls(m) \in Seq(CallSet) /\ ApplyCalls(m) # <<>>
  /\ \A p \in Goals, t \in Targets : UndoCalls(p, t) \in Seq(CallSet) /\ UndoCalls(p, t) # <<>>
<1>1. Detach \in CallSet /\ StopFF \in CallSet
  BY DEF Detach, StopFF, CallSet, Targets
<1>2. \A p \in Goals : Load(p) \in CallSet
  BY DEF Load, CallSet
<1>3. \A t \in Targets : Attach(t) \in CallSet
  BY DEF Attach, CallSet
<1>4. Goals \subseteq Profiles /\ Profiles \subseteq Targets
  BY DEF Profiles, Targets
<1> QED BY <1>1, <1>2, <1>3, <1>4 DEF ApplyCalls, UndoCalls

(***************************************************************************)
(* Each action keeps the types.                                            *)
(***************************************************************************)
LEMMA LockType ==
  ASSUME TypeInv, NEW h \in Helpers, Lock(h) \/ LockBusy(h)
  PROVE  TypeInv'
<1>1. CASE Lock(h)
  <2>1. ProcType'
    BY <1>1, TypeParts DEF Lock, ProcType, JobOK, PCs, Working, InFlight, Calling
  <2>2. (FileType /\ IpType /\ WorldType)'
    BY <1>1, TypeParts, ExactType DEF Lock, FileType, IpType, WorldType
  <2> QED BY <2>1, <2>2, TypePartsNext
<1>2. CASE LockBusy(h)
  <2>1. ProcType'
    BY <1>2, TypeParts, ExitType DEF LockBusy
  <2>2. (FileType /\ IpType /\ WorldType)'
    BY <1>2, TypeParts DEF LockBusy, FileType, IpType, WorldType
  <2> QED BY <2>1, <2>2, TypePartsNext
<1> QED BY <1>1, <1>2

LEMMA ClaimType ==
  ASSUME ProcType, FileType, NEW h \in Helpers, pc[h] = "deciding",
         NEW token \in Tokens, NEW goal \in Goals, NEW prior \in Goals \cup {"none"},
         job[h].op = "acquire" => prior \in Modes,
         Claim(h, token, goal, prior)
  PROVE  /\ ProcType'
         /\ file' \in [token : Tokens, mode : FileModes] /\ retired' \subseteq Tokens
<1>1. file' \in [token : Tokens, mode : FileModes] /\ retired' \subseteq Tokens
  BY WriteType DEF Claim, FileModes
<1>2. job' = [job EXCEPT ![h] = [job[h] EXCEPT !.token = token, !.goal = goal, !.prior = prior]]
  BY DEF Claim
<1>3. [job[h] EXCEPT !.token = token, !.goal = goal, !.prior = prior] \in Jobs
  <2>1. job[h] \in Jobs
    BY DEF ProcType
  <2> QED BY <2>1 DEF Jobs
<1>4. job' \in [Helpers -> Jobs]
  BY <1>2, <1>3 DEF ProcType
<1>5. PICK l \in {"receipt", "entering"} :
         /\ pc' = [pc EXCEPT ![h] = l] /\ UNCHANGED <<lock, calls>>
         /\ l = "receipt" => job[h].op = "acquire"
  BY DEF Claim, Goto
<1>6. job'[h].goal = goal /\ job'[h].prior = prior
  BY <1>2, <1>3 DEF ProcType, Jobs
<1>7. JobOK'
  BY <1>2, <1>5, <1>6 DEF ProcType, JobOK, Working, InFlight, Calling
<1> QED BY <1>1, <1>4, <1>5, <1>7 DEF ProcType, PCs

LEMMA ClaimTransitionType ==
  ASSUME ProcType, FileType, NEW h \in Helpers, pc[h] = "deciding",
         NEW goal \in Goals, ClaimTransition(h, goal)
  PROVE  ProcType' /\ FileType' /\ UNCHANGED budget
<1>1. Fresh \in Tokens /\ issued' = Fresh
  BY DEF ClaimTransition, FileType, Tokens, Fresh
<1>2. Found(h) \in Goals \cup {"none"}
  BY FoundType
<1>3. Claim(h, Fresh, goal, Found(h)) /\ UNCHANGED <<drift, budget>> /\ Found(h) \in Modes
  BY DEF ClaimTransition
<1> QED BY <1>1, <1>2, <1>3, ClaimType DEF FileType, Tokens

LEMMA ConcludeType ==
  ASSUME ProcType, FileType, NEW h \in Helpers, NEW m \in FileModes, Conclude(h, Fresh, m)
  PROVE  ProcType' /\ FileType' /\ UNCHANGED budget
<1>1. Fresh \in Tokens
  BY DEF FileType, Tokens, Fresh
<1>2. Publish(Fresh, m) /\ Exit(h) /\ issued' = Fresh /\ UNCHANGED budget
  BY DEF Conclude
<1> QED BY <1>1, <1>2, PublishType, ExitType DEF FileType, Tokens

LEMMA LeaveType ==
  ASSUME ProcType, FileType, NEW h \in Helpers, Leave(h)
  PROVE  ProcType' /\ FileType' /\ UNCHANGED budget
<1>1. ProcType'
  BY ExitType DEF Leave
<1>2. FileType'
  BY DEF Leave, NoWrite, FileType
<1> QED BY <1>1, <1>2 DEF Leave

LEMMA LookType ==
  ASSUME TypeInv, NEW h \in Helpers, Look(h)
  PROVE  TypeInv'
<1> USE TypeParts
<1>0. pc[h] = "checking" /\ pc' = [pc EXCEPT ![h] = "deciding"] /\ UNCHANGED <<lock, calls>>
  BY DEF Look, Goto
<1>1. job[h] \in Jobs
  BY DEF ProcType
<1>2. PICK seen \in Goals \cup {"none"} :
        job' = [job EXCEPT ![h] = [@ EXCEPT !.prior = seen]]
  BY ObservedType DEF Look
<1>a. /\ [job[h] EXCEPT !.prior = seen] \in Jobs
      /\ [job[h] EXCEPT !.prior = seen].op = job[h].op
      /\ [job[h] EXCEPT !.prior = seen].goal = job[h].goal
  BY <1>1 DEF Jobs
<1>3. /\ job' \in [Helpers -> Jobs]
      /\ job'[h].op = job[h].op /\ job'[h].goal = job[h].goal
      /\ \A g \in Helpers \ {h} : job'[g] = job[g]
  BY <1>2, <1>a DEF ProcType
<1>4. JobOK'
  BY <1>0, <1>3 DEF ProcType, JobOK, Working, InFlight, Calling
<1>5. ProcType'
  BY <1>0, <1>3, <1>4 DEF ProcType, PCs
<1>6. WorldType'
  BY FaultType DEF Look, WorldType
<1>7. FileType' /\ IpType'
  BY DEF Look, FileType, IpType
<1> QED BY <1>5, <1>6, <1>7, TypePartsNext

LEMMA CheckType ==
  ASSUME TypeInv, NEW h \in Helpers, Check(h)
  PROVE  TypeInv'
<1> USE TypeParts
<1>0. pc[h] = "deciding" /\ UNCHANGED <<keyboard, profile, targets, late, receipts, held>>
  BY DEF Check
<1>a. /\ Modes \subseteq Goals /\ Modes \subseteq FileModes /\ "default" \in Goals
      /\ "unknown" \in FileModes
  BY DEF Goals, FileModes
<1>b. Found(h) \in Goals \cup {"none"}
  BY FoundType
<1>c. job[h].goal \in Modes \/ job[h].op \in {"toggle", "toggle-nonblocking", "reconcile", "bootstrap"}
  BY <1>0 DEF ProcType, JobOK
<1>d. Fresh \in Tokens /\ Fresh \in Nat /\ job[h] \in Jobs
  BY DEF FileType, Tokens, Fresh, ProcType
<1>e. ASSUME ProcType', FileType', WorldType' PROVE TypeInv'
  <2>1. IpType'
    BY <1>0 DEF IpType
  <2> QED BY <1>e, <2>1, TypePartsNext
<1>f. ASSUME UNCHANGED budget PROVE WorldType'
  BY <1>f, <1>0 DEF WorldType
<1>1. CASE CheckTransition(h)
  <2>1. CASE ClaimTransition(h, IF job[h].goal = "none" THEN Other(Found(h)) ELSE job[h].goal)
    <3>1. (IF job[h].goal = "none" THEN Other(Found(h)) ELSE job[h].goal) \in Goals
      <4>1. Other(Found(h)) \in Goals
        BY DEF Other, Goals, Modes
      <4>2. job[h].goal \in Goals \cup {"none"}
        BY <1>d DEF Jobs
      <4> QED BY <4>1, <4>2
    <3> QED BY <1>0, <2>1, <3>1, <1>e, <1>f, ClaimTransitionType
  <2>2. CASE Leave(h)
    BY <2>2, <1>e, <1>f, LeaveType
  <2> QED BY <1>1, <2>1, <2>2 DEF CheckTransition
<1>2. CASE CheckReconcile(h)
  <2>1. CASE Found(h) \in Modes /\ Conclude(h, Fresh, Found(h))
    BY <2>1, <1>a, <1>e, <1>f, ConcludeType
  <2>2. CASE Leave(h)
    BY <2>2, <1>e, <1>f, LeaveType
  <2> QED BY <1>2, <2>1, <2>2 DEF CheckReconcile
<1>3. CASE CheckBootstrap(h)
  <2>1. CASE Leave(h)
    BY <2>1, <1>e, <1>f, LeaveType
  <2>2. CASE Found(h) \in Modes /\ Conclude(h, Fresh, Found(h))
    BY <2>2, <1>a, <1>e, <1>f, ConcludeType
  <2>3. CASE /\ issued' = Fresh /\ Claim(h, Fresh, "gamepad", "default")
             /\ UNCHANGED <<drift, budget>>
    <3>1. "gamepad" \in Goals
      BY DEF Goals, Modes
    <3>2. job[h].op # "acquire"
      BY <1>3 DEF CheckBootstrap
    <3>3. ProcType' /\ FileType'
      BY <2>3, <3>1, <3>2, <1>0, <1>a, <1>d, ClaimType DEF FileType
    <3> QED BY <2>3, <3>3, <1>e, <1>f
  <2> QED BY <1>3, <2>1, <2>2, <2>3 DEF CheckBootstrap
<1>4. CASE CheckRecover(h)
  <2>0. job[h].goal \in Modes /\ job[h].lease \in Tokens /\ job[h].op # "acquire"
    BY <1>4, <1>c, <1>d DEF CheckRecover, Jobs
  <2>1. CASE Leave(h)
    BY <2>1, <1>e, <1>f, LeaveType
  <2>2. CASE Conclude(h, Fresh, job[h].goal)
    BY <2>0, <2>2, <1>a, <1>e, <1>f, ConcludeType
  <2>3. CASE Claim(h, job[h].lease, job[h].goal, "none") /\ UNCHANGED <<issued, drift, budget>>
    <3>1. ProcType' /\ FileType'
      BY <2>0, <2>3, <1>0, <1>a, ClaimType DEF FileType
    <3> QED BY <2>3, <3>1, <1>e, <1>f
  <2> QED BY <1>4, <2>1, <2>2, <2>3 DEF CheckRecover
<1>5. CASE CheckRestore(h)
  <2>0. job[h].goal \in Modes /\ job[h].op # "acquire"
    BY <1>5, <1>c DEF CheckRestore
  <2>1. CASE Leave(h)
    BY <2>1, <1>e, <1>f, LeaveType
  <2>2. CASE issued' = Fresh /\ Claim(h, Fresh, job[h].goal, "none") /\ UNCHANGED <<drift, budget>>
    <3>1. ProcType' /\ FileType'
      BY <2>0, <2>2, <1>0, <1>a, <1>d, ClaimType DEF FileType
    <3> QED BY <2>2, <3>1, <1>e, <1>f
  <2>3. CASE Conclude(h, Fresh, "unknown")
    BY <2>3, <1>a, <1>e, <1>f, ConcludeType
  <2>4. CASE ClaimTransition(h, job[h].goal)
    BY <2>0, <2>4, <1>0, <1>a, <1>e, <1>f, ClaimTransitionType
  <2>5. CASE Found(h) \in Modes /\ Conclude(h, Fresh, Found(h))
    BY <2>5, <1>a, <1>e, <1>f, ConcludeType
  <2> QED BY <1>5, <2>1, <2>2, <2>3, <2>4, <2>5 DEF CheckRestore
<1> QED BY <1>1, <1>2, <1>3, <1>4, <1>5 DEF Check

LEMMA ReceiptType ==
  ASSUME TypeInv, NEW h \in Helpers, CheckFails(h) \/ SendReceipt(h) \/ ReceiptRefused(h)
  PROVE  TypeInv'
<1> USE TypeParts
<1>1. CASE CheckFails(h)
  <2>1. ProcType' /\ WorldType'
    BY <1>1, ExitType, FaultType DEF CheckFails, WorldType
  <2>2. FileType' /\ IpType'
    BY <1>1 DEF CheckFails, NoWrite, FileType, IpType
  <2> QED BY <2>1, <2>2, TypePartsNext
<1>2. CASE SendReceipt(h)
  <2>0. job[h] \in Jobs /\ pc[h] = "receipt"
    BY <1>2 DEF SendReceipt, ProcType
  <2>a. job[h].prior \in Modes
    BY <2>0 DEF ProcType, JobOK
  <2>1. [token |-> job[h].token, previous |-> job[h].prior] \in [token : Tokens, previous : Modes]
    BY <2>0, <2>a DEF Jobs
  <2>2. WorldType'
    BY <1>2, <2>1 DEF SendReceipt, WorldType
  <2>3. ProcType'
    BY <1>2 DEF SendReceipt, Goto, ProcType, JobOK, PCs, Working, InFlight, Calling
  <2>4. FileType' /\ IpType'
    BY <1>2 DEF SendReceipt, FileType, IpType
  <2> QED BY <2>2, <2>3, <2>4, TypePartsNext
<1>3. CASE ReceiptRefused(h)
  <2>0. job[h] \in Jobs /\ job[h].token \in Tokens /\ job[h].prior \in FileModes
    <3>1. pc[h] = "receipt" /\ job[h] \in Jobs
      BY <1>3 DEF ReceiptRefused, ProcType
    <3>2. job[h].prior \in Modes
      BY <3>1 DEF ProcType, JobOK
    <3> QED BY <3>1, <3>2 DEF Jobs, FileModes
  <2>1. ProcType'
    BY <1>3, ExitType DEF ReceiptRefused
  <2>2. CASE Publish(job[h].token, job[h].prior) /\ UNCHANGED budget
    BY <1>3, <2>0, <2>1, <2>2, PublishType, TypePartsNext
       DEF ReceiptRefused, FileType, IpType, WorldType
  <2>3. CASE WriteFault /\ Write(job[h].token, "unknown") /\ UNCHANGED drift
    <3>1. "unknown" \in FileModes
      BY DEF FileModes
    <3> QED BY <1>3, <2>0, <2>1, <2>3, <3>1, WriteType, WriteFaultType, TypePartsNext
            DEF ReceiptRefused, FileType, IpType, WorldType
  <2>4. CASE WriteFault /\ NoWrite
    BY <1>3, <2>1, <2>4, WriteFaultType, TypePartsNext
       DEF ReceiptRefused, NoWrite, FileType, IpType, WorldType
  <2> QED BY <1>3, <2>2, <2>3, <2>4 DEF ReceiptRefused
<1> QED BY <1>1, <1>2, <1>3

LEMMA SnapshotType ==
  ASSUME TypeInv, NEW h \in Helpers, Snapshot(h)
  PROVE  TypeInv'
<1> USE TypeParts
<1>0. job[h] \in Jobs /\ job[h].goal \in Goals /\ pc[h] = "entering"
  BY DEF Snapshot, ProcType, JobOK, Working
<1>1. FileType' /\ IpType'
  BY DEF Snapshot, FileType, IpType
<1>2. CASE /\ profile # "absent"
           /\ job' = [job EXCEPT ![h] = [@ EXCEPT !.entry = ip]]
           /\ calls' = [calls EXCEPT ![h] = ApplyCalls(job[h].goal)]
           /\ pc' = [pc EXCEPT ![h] = "applying"]
           /\ UNCHANGED <<budget, lock, keyboard, receipts>>
  <2>1. [job[h] EXCEPT !.entry = ip] \in Jobs /\ [job[h] EXCEPT !.entry = ip].goal = job[h].goal
    <3>1. ip \in Goals \X Targets
      BY <1>2 DEF ip, IpType, Profiles
    <3> QED BY <1>0, <3>1 DEF Jobs
  <2>2. ApplyCalls(job[h].goal) \in Seq(CallSet) /\ ApplyCalls(job[h].goal) # <<>>
    BY <1>0, CallsType
  <2>3. /\ job' \in [Helpers -> Jobs] /\ calls' \in [Helpers -> Seq(CallSet)]
        /\ pc' \in [Helpers -> PCs] /\ lock' \in Helpers \cup {NoOne}
    BY <1>2, <2>1, <2>2 DEF ProcType, PCs
  <2>4. job'[h].goal = job[h].goal
    BY <1>2, <2>1 DEF ProcType
  <2>5. JobOK'
    BY <1>0, <1>2, <2>2, <2>4 DEF ProcType, JobOK, Working, InFlight, Calling
  <2> QED BY <1>1, <1>2, <2>3, <2>5, TypePartsNext DEF ProcType, WorldType
<1>3. CASE /\ UNCHANGED budget \/ Fault
           /\ pc' = [pc EXCEPT ![h] = "failed"] /\ UNCHANGED <<job, calls, lock, keyboard, receipts>>
  <2>1. ProcType'
    BY <1>0, <1>3 DEF ProcType, JobOK, PCs, Working, InFlight, Calling
  <2>2. WorldType'
    BY <1>3, FaultType DEF WorldType
  <2> QED BY <1>1, <2>1, <2>2, TypePartsNext
<1> QED BY <1>2, <1>3 DEF Snapshot

LEMMA CallDoneType ==
  ASSUME TypeInv, NEW h \in Helpers, CallDone(h)
  PROVE  TypeInv'
<1> USE TypeParts
<1>0. calls[h] \in Seq(CallSet) /\ calls[h] # <<>> /\ pc[h] \in {"applying", "undoing"}
  BY DEF CallDone, ProcType, JobOK, InFlight, Calling
<1>1. Head(calls[h]) \in CallSet /\ Tail(calls[h]) \in Seq(CallSet)
  BY <1>0
<1>2. IpType'
  BY <1>1, EffectType, ExactType DEF CallDone, IpType
<1>3. calls' \in [Helpers -> Seq(CallSet)] /\ calls'[h] = Tail(calls[h])
  BY <1>1 DEF CallDone, ProcType
<1>4. /\ pc' \in [Helpers -> PCs]
      /\ pc'[h] \in {"applying", "undoing", "applied", "failed"}
      /\ pc'[h] \in {"applying", "undoing"} => Tail(calls[h]) # <<>>
  BY <1>0 DEF CallDone, ProcType, PCs
<1>5. JobOK'
  BY <1>0, <1>3, <1>4 DEF CallDone, ProcType, JobOK, Working, InFlight, Calling
<1>6. ProcType'
  BY <1>3, <1>4, <1>5 DEF CallDone, ProcType
<1>7. FileType' /\ WorldType'
  BY DEF CallDone, FileType, WorldType
<1> QED BY <1>2, <1>6, <1>7, TypePartsNext

LEMMA CallFailsType ==
  ASSUME TypeInv, NEW h \in Helpers, CallFails(h)
  PROVE  TypeInv'
<1> USE TypeParts
<1>0. calls[h] \in Seq(CallSet) /\ calls[h] # <<>> /\ job[h] \in Jobs
  BY DEF CallFails, ProcType, JobOK, InFlight, Calling
<1>1. IpType'
  BY <1>0, AbandonedType, ExactType DEF CallFails, IpType
<1>2. WorldType'
  BY FaultType DEF CallFails, WorldType
<1>3. FileType'
  BY DEF CallFails, FileType
<1>4. PICK cs \in Seq(CallSet), l \in {"undoing", "failed"} :
        /\ calls' = [calls EXCEPT ![h] = cs] /\ pc' = [pc EXCEPT ![h] = l]
        /\ l = "undoing" => cs # <<>>
  <2>1. job[h].entry[1] \in Goals /\ job[h].entry[2] \in Targets
    BY <1>0 DEF Jobs
  <2>2. UndoCalls(job[h].entry[1], job[h].entry[2]) \in Seq(CallSet) \ {<<>>}
    BY <2>1, CallsType
  <2>3. CASE pc[h] = "applying"
    BY <2>2, <2>3 DEF CallFails
  <2>4. CASE pc[h] # "applying"
    <3>1. <<>> \in Seq(CallSet)
      OBVIOUS
    <3> QED BY <2>4, <3>1 DEF CallFails
  <2> QED BY <2>3, <2>4
<1>5. job[h].goal \in Goals /\ UNCHANGED <<job, lock>>
  BY DEF CallFails, ProcType, JobOK, Calling, Working
<1>6. ProcType'
  BY <1>4, <1>5 DEF ProcType, JobOK, PCs, Working, InFlight, Calling
<1> QED BY <1>1, <1>2, <1>3, <1>6, TypePartsNext

LEMMA PollType ==
  ASSUME TypeInv, NEW h \in Helpers, Poll(h)
  PROVE  TypeInv'
<1> USE TypeParts
<1>0. job[h].goal \in Goals /\ pc[h] = "applied"
  BY DEF Poll, ProcType, JobOK, Working
<1>1. PICK l \in {"polled", "failed"} : pc' = [pc EXCEPT ![h] = l] /\ UNCHANGED <<lock, calls, job>>
  BY DEF Poll, Goto
<1>2. ProcType'
  BY <1>0, <1>1 DEF ProcType, JobOK, PCs, Working, InFlight, Calling
<1>3. WorldType'
  BY FaultType DEF Poll, WorldType
<1>4. FileType' /\ IpType'
  BY DEF Poll, FileType, IpType
<1> QED BY <1>2, <1>3, <1>4, TypePartsNext

LEMMA SettleType ==
  ASSUME TypeInv, NEW h \in Helpers, Settle(h)
  PROVE  TypeInv'
<1> USE TypeParts
<1>0. /\ job[h] \in Jobs /\ job[h].goal \in Goals /\ job[h].token \in Tokens
      /\ pc[h] = "polled"
  BY DEF Settle, ProcType, JobOK, Working, Jobs
<1>1. IpType' /\ UNCHANGED <<keyboard, receipts>>
  BY DEF Settle, IpType
<1>2. CASE PublishSettled(h) /\ UNCHANGED budget
  <2>1. SettledToken(h) \in Tokens /\ Fresh \in Nat
    BY <1>0 DEF SettledToken, Fresh, FileType, Tokens
  <2>2. SettledMode(h) \in FileModes
    BY <1>0 DEF SettledMode, FileModes, Goals, Modes
  <2> QED BY <1>1, <1>2, <2>1, <2>2, PublishType, ExitType, TypePartsNext
          DEF PublishSettled, FileType, WorldType
<1>3. CASE WriteFault /\ Exit(h) /\ UNCHANGED <<issued, drift>>
           /\ (UNCHANGED <<file, retired>> \/ Write(job[h].token, "unknown"))
  <2>1. "unknown" \in FileModes
    BY DEF FileModes
  <2>2. FileType'
    BY <1>0, <1>3, <2>1, WriteType DEF FileType
  <2> QED BY <1>1, <1>3, <2>2, ExitType, WriteFaultType, TypePartsNext DEF WorldType
<1> QED BY <1>2, <1>3 DEF Settle

LEMMA RollBackType ==
  ASSUME TypeInv, NEW h \in Helpers, RollBack(h)
  PROVE  TypeInv'
<1> USE TypeParts
<1>0. job[h] \in Jobs /\ job[h].prior \in Goals /\ pc[h] = "failed"
  BY DEF RollBack, CanRollBack, ProcType, Jobs
<1>1. /\ [job[h] EXCEPT !.goal = job[h].prior, !.round = "back"] \in Jobs
      /\ [job[h] EXCEPT !.goal = job[h].prior, !.round = "back"].goal \in Goals
  BY <1>0 DEF Jobs
<1>2. job' \in [Helpers -> Jobs] /\ job'[h].goal \in Goals
  BY <1>1 DEF RollBack, ProcType
<1>3. PICK l \in {"polled", "entering"} : pc' = [pc EXCEPT ![h] = l] /\ UNCHANGED <<lock, calls>>
  BY DEF RollBack, Goto
<1>4. JobOK'
  BY <1>0, <1>2, <1>3 DEF RollBack, ProcType, JobOK, Working, InFlight, Calling
<1>5. ProcType'
  BY <1>2, <1>3, <1>4 DEF ProcType, PCs
<1>6. WorldType'
  BY FaultType DEF RollBack, WorldType
<1>7. FileType' /\ IpType'
  BY DEF RollBack, NoWrite, FileType, IpType
<1> QED BY <1>5, <1>6, <1>7, TypePartsNext

LEMMA GiveUpType ==
  ASSUME TypeInv, NEW h \in Helpers, GiveUp(h)
  PROVE  TypeInv'
<1> USE TypeParts
<1>1. ProcType' /\ IpType'
  BY ExitType DEF GiveUp, IpType
<1>2. WorldType'
  BY WriteFaultType DEF GiveUp, WorldType
<1>3. FileType'
  <2>1. job[h].token \in Tokens /\ "unknown" \in FileModes
    BY DEF ProcType, Jobs, FileModes
  <2> QED BY <2>1, WriteType DEF GiveUp, FileType
<1> QED BY <1>1, <1>2, <1>3, TypePartsNext

LEMMA KillType ==
  ASSUME TypeInv, NEW h \in Helpers, Kill(h)
  PROVE  TypeInv'
<1> USE TypeParts
<1>1. FileType' /\ IpType'
  BY DEF Kill, FileType, IpType
<1>2. WorldType'
  <2>1. budget' = [budget EXCEPT !.kills = budget.kills + 1]
    BY DEF Kill
  <2> QED BY <2>1 DEF Kill, WorldType
<1>3. CASE Calling(h)
  <2>1. calls[h] \in Seq(CallSet) /\ calls[h] # <<>> /\ job[h].goal \in Goals
    BY <1>3 DEF ProcType, JobOK, InFlight, Calling, Working
  <2>2. <<Head(calls[h])>> \in Seq(CallSet)
    BY <2>1
  <2>3. /\ calls' = [calls EXCEPT ![h] = <<Head(calls[h])>>]
        /\ pc' = [pc EXCEPT ![h] = "orphan"] /\ UNCHANGED <<lock, job>>
    BY <1>3 DEF Kill
  <2>4. ProcType'
    BY <1>3, <2>1, <2>2, <2>3 DEF ProcType, JobOK, PCs, Working, InFlight, Calling
  <2> QED BY <1>1, <1>2, <2>4, TypePartsNext
<1>4. CASE ~Calling(h)
  BY <1>1, <1>2, <1>4, ExitType, TypePartsNext DEF Kill
<1> QED BY <1>3, <1>4

LEMMA OrphanEndsType ==
  ASSUME TypeInv, NEW h \in Helpers, OrphanEnds(h)
  PROVE  TypeInv'
<1> USE TypeParts
<1>1. FileType' /\ WorldType'
  BY DEF OrphanEnds, FileType, WorldType
<1>2. calls[h] \in Seq(CallSet) /\ calls[h] # <<>>
  BY DEF OrphanEnds, ProcType, JobOK, InFlight, Calling
<1>3. IpType'
  BY <1>2, AbandonedType, ExactType DEF OrphanEnds, IpType
<1>4. NewJob("reconcile", 0, "none") \in Jobs /\ <<>> \in Seq(CallSet)
  BY NewJobType DEF Ops, Tokens
<1>5. /\ job' \in [Helpers -> Jobs] /\ calls' \in [Helpers -> Seq(CallSet)]
      /\ pc' \in [Helpers -> PCs] /\ lock' \in Helpers \cup {NoOne}
  BY <1>4 DEF OrphanEnds, ProcType, PCs
<1>6. JobOK'
  BY DEF OrphanEnds, ProcType, JobOK, Working, InFlight, Calling
<1> QED BY <1>1, <1>3, <1>5, <1>6, TypePartsNext DEF ProcType

LEMMA WorldStepType ==
  ASSUME TypeInv, KeyboardAsks \/ KeyboardDone \/ Restart \/ Ready \/ LateCallLands
  PROVE  TypeInv'
<1> USE TypeParts
<1>1. CASE KeyboardAsks \/ KeyboardDone
  BY <1>1, TypePartsNext
     DEF KeyboardAsks, KeyboardDone, ProcType, JobOK, Working, InFlight, Calling, FileType,
         IpType, WorldType
<1>2. CASE Restart
  <2>1. budget' = [budget EXCEPT !.restarts = budget.restarts + 1]
    BY <1>2 DEF Restart
  <2>2. WorldType'
    BY <1>2, <2>1 DEF Restart, WorldType
  <2> QED BY <1>2, <2>2, ExactType, TypePartsNext
          DEF Restart, Moves, ProcType, JobOK, Working, InFlight, Calling, FileType, IpType,
              Profiles, Targets
<1>3. CASE Ready
  BY <1>3, ExactType, TypePartsNext
     DEF Ready, Moves, ProcType, JobOK, Working, InFlight, Calling, FileType, IpType, WorldType,
         Profiles, Targets, Goals
<1>4. CASE LateCallLands
  <2>1. IpType'
    BY <1>4, EffectType, ExactType DEF LateCallLands, Moves, IpType
  <2> QED BY <1>4, <2>1, TypePartsNext
          DEF LateCallLands, Moves, ProcType, JobOK, Working, InFlight, Calling, FileType, WorldType
<1> QED BY <1>1, <1>2, <1>3, <1>4

LEMMA NextType == TypeInv /\ [Next]_vars => TypeInv'
<1> SUFFICES ASSUME TypeInv, [Next]_vars PROVE TypeInv'
  OBVIOUS
<1>1. CASE UNCHANGED vars
  BY <1>1, TypeParts, TypePartsNext
     DEF vars, ProcType, JobOK, Working, InFlight, Calling, FileType, IpType, WorldType
<1>2. CASE \E h \in Helpers : Start(h) \/ Step(h) \/ Kill(h)
  <2> PICK h \in Helpers : Start(h) \/ Step(h) \/ Kill(h)
    BY <1>2
  <2> QED
    BY StartType, LockType, LookType, CheckType, ReceiptType, SnapshotType, CallDoneType,
       CallFailsType, PollType, SettleType, RollBackType, GiveUpType, OrphanEndsType, KillType DEF Step
<1>3. CASE KeyboardAsks \/ KeyboardDone \/ Restart \/ Ready \/ LateCallLands
  BY <1>3, WorldStepType
<1> QED BY <1>1, <1>2, <1>3 DEF Next

\* Every reachable state of the input helper is well typed.
THEOREM TypeCorrect == Spec => []TypeOK
<1>1. Init => TypeInv
  BY InitType
<1>2. TypeInv /\ [Next]_vars => TypeInv'
  BY NextType
<1>3. TypeInv => TypeOK
  BY DEF TypeInv
<1> QED BY <1>1, <1>2, <1>3, PTL DEF Spec

(***************************************************************************)
(* The lease.  The inductive invariant says who owns the flock, that a     *)
(* process past its claim still finds its claim in the state file, that    *)
(* superseded tokens are older than the last one drawn, that an acquire    *)
(* which moved on has delivered its receipt, and that a recovery aims at a *)
(* managed mode and has nothing to roll back to.                           *)
(***************************************************************************)
LockOwned == \A h \in Helpers : pc[h] \notin {"idle", "locking"} => lock = h

Claimed ==
  \A h \in Helpers :
    pc[h] \in Working => file = [token |-> job[h].token, mode |-> "transitioning"]

TokensAge ==
  /\ file.token <= issued
  /\ \A t \in retired : t <= issued /\ t # file.token

ReceiptOut ==
  \A h \in Helpers :
    job[h].op = "acquire" /\ pc[h] \in Working \ {"receipt"}
      => [token |-> job[h].token, previous |-> job[h].prior] \in receipts

RecoveryAims ==
  \A h \in Helpers :
    job[h].op = "recover" /\ pc[h] \in Working => job[h].goal \in Modes /\ job[h].prior = "none"

LeaseInv == LockOwned /\ Claimed /\ TokensAge /\ ReceiptOut /\ RecoveryAims

LEMMA InitLease == Init => LeaseInv
  BY DEF Init, LeaseInv, LockOwned, Claimed, TokensAge, ReceiptOut, RecoveryAims, Working

\* While one process is under the flock every other one is idle or waiting for it.
LEMMA OneActive ==
  ASSUME LockOwned, NEW h \in Helpers, lock = h, NEW g \in Helpers, g # h
  PROVE  pc[g] \in {"idle", "locking"}
  BY DEF LockOwned

\* How a step may treat the token: keep it, or replace it with a fresh one.
TokenKept  == UNCHANGED <<file, retired, issued>>
TokenMoved(t) ==
  /\ \E m \in FileModes : Write(t, m)
  /\ \/ t = file.token /\ issued' \in {issued, Fresh}
     \/ t = Fresh /\ issued' = Fresh

LEMMA TokensAgeNext ==
  ASSUME TypeInv, TokensAge, NEW t, TokenKept \/ TokenMoved(t)
  PROVE  TokensAge'
<1>0. file.token \in Nat /\ issued \in Nat /\ retired \subseteq Nat
  BY DEF TypeInv, TypeOK, Tokens
<1>1. CASE TokenKept
  BY <1>1 DEF TokenKept, TokensAge
<1>2. CASE TokenMoved(t)
  <2>1. PICK m \in FileModes : Write(t, m)
    BY <1>2 DEF TokenMoved
  <2>2. file'.token = t /\ retired' = IF t = file.token THEN retired ELSE retired \cup {file.token}
    BY <2>1 DEF Write
  <2>3. CASE t = file.token /\ issued' \in {issued, Fresh}
    BY <1>0, <2>2, <2>3 DEF TokensAge, Fresh
  <2>4. CASE t = Fresh /\ issued' = Fresh
    BY <1>0, <2>2, <2>4 DEF TokensAge, Fresh
  <2> QED BY <1>2, <2>3, <2>4 DEF TokenMoved
<1> QED BY <1>1, <1>2

\* A process under the flock that ends, whatever it publishes.
LEMMA ExitLease ==
  ASSUME TypeInv, LeaseInv, NEW h \in Helpers, pc[h] \notin {"idle", "locking"}, Exit(h),
         NEW t, TokenKept \/ TokenMoved(t), UNCHANGED receipts
  PROVE  LeaseInv'
<1>1. lock = h /\ \A g \in Helpers \ {h} : pc[g] \in {"idle", "locking"}
  BY OneActive DEF LeaseInv, LockOwned
<1>2. \A g \in Helpers : pc'[g] \in {"idle", "locking"}
  BY <1>1 DEF Exit, TypeInv, TypeOK
<1>3. TokensAge'
  BY TokensAgeNext DEF LeaseInv
<1> QED BY <1>2, <1>3 DEF LeaseInv, LockOwned, Claimed, ReceiptOut, RecoveryAims, Working

\* A process that claims.
LEMMA ClaimLease ==
  ASSUME TypeInv, LeaseInv, NEW h \in Helpers, pc[h] = "deciding",
         NEW t \in Tokens, NEW goal \in Goals, NEW prior \in Goals \cup {"none"},
         Claim(h, t, goal, prior),
         \/ t = file.token /\ issued' \in {issued, Fresh}
         \/ t = Fresh /\ issued' = Fresh,
         job[h].op = "recover" => goal \in Modes /\ prior = "none",
         UNCHANGED receipts
  PROVE  LeaseInv'
<1>1. lock = h /\ \A g \in Helpers \ {h} : pc[g] \in {"idle", "locking"}
  BY OneActive DEF LeaseInv, LockOwned
<1>2. PICK l \in {"receipt", "entering"} :
         /\ pc' = [pc EXCEPT ![h] = l] /\ UNCHANGED lock
         /\ job[h].op = "acquire" => l = "receipt"
  BY DEF Claim, Goto
<1>3. Write(t, "transitioning")
  BY DEF Claim
<1>4. /\ job'[h].token = t /\ job'[h].goal = goal /\ job'[h].prior = prior
      /\ job'[h].op = job[h].op
  <2>1. job \in [Helpers -> Jobs]
    BY DEF TypeInv, TypeOK
  <2>2. job[h] \in Jobs
    BY <2>1
  <2>3. job' = [job EXCEPT ![h] = [job[h] EXCEPT !.token = t, !.goal = goal, !.prior = prior]]
    BY DEF Claim
  <2>4. job'[h] = [job[h] EXCEPT !.token = t, !.goal = goal, !.prior = prior]
    BY <2>1, <2>3
  <2> QED BY <2>2, <2>4 DEF Jobs
<1>5. TokensAge'
  <2>1. TokenMoved(t)
    BY <1>3 DEF TokenMoved, FileModes
  <2> QED BY <2>1, TokensAgeNext DEF LeaseInv
<1>6. \A g \in Helpers \ {h} : pc'[g] \in {"idle", "locking"}
  BY <1>1, <1>2 DEF TypeInv, TypeOK
<1>7. pc'[h] = l
  BY <1>2 DEF TypeInv, TypeOK
<1>8. Claimed'
  BY <1>3, <1>4, <1>6 DEF Claimed, Working, Write
<1>9. LockOwned'
  BY <1>1, <1>2, <1>6 DEF LockOwned
<1>10. ReceiptOut' /\ RecoveryAims'
  BY <1>2, <1>4, <1>6, <1>7 DEF ReceiptOut, RecoveryAims, Working
<1> QED BY <1>5, <1>8, <1>9, <1>10 DEF LeaseInv

\* A process that goes on without touching the state file or its job's identity.
LEMMA StayLease ==
  ASSUME TypeInv, LeaseInv, NEW h \in Helpers, pc[h] \in Working, NEW l \in Working,
         pc' = [pc EXCEPT ![h] = l], UNCHANGED <<lock, file, retired, issued>>,
         \A g \in Helpers : /\ job'[g].op = job[g].op /\ job'[g].token = job[g].token
                            /\ job'[g].prior = job[g].prior
                            /\ g = h \/ job'[g].goal = job[g].goal,
         job[h].op = "recover" => job'[h].goal = job[h].goal,
         receipts \subseteq receipts',
         l # "receipt" /\ pc[h] = "receipt"
           => [token |-> job[h].token, previous |-> job[h].prior] \in receipts'
  PROVE  LeaseInv'
<1>1. \A g \in Helpers : pc'[g] = IF g = h THEN l ELSE pc[g]
  BY DEF TypeInv, TypeOK
<1>2. LockOwned' /\ Claimed' /\ TokensAge'
  BY <1>1 DEF LeaseInv, LockOwned, Claimed, TokensAge, Working
<1>3. ReceiptOut' /\ RecoveryAims'
  BY <1>1 DEF LeaseInv, ReceiptOut, RecoveryAims, Working
<1> QED BY <1>2, <1>3 DEF LeaseInv

LEMMA StartLease ==
  ASSUME TypeInv, LeaseInv, NEW h \in Helpers, Start(h)
  PROVE  LeaseInv'
<1>1. /\ pc' = [pc EXCEPT ![h] = "locking"] /\ \E r \in Requests : job' = [job EXCEPT ![h] = r]
      /\ UNCHANGED <<lock, file, retired, issued, receipts>>
  BY DEF Start, Goto
<1>2. /\ pc'[h] = "locking"
      /\ \A g \in Helpers \ {h} : pc'[g] = pc[g] /\ job'[g] = job[g]
  BY <1>1 DEF TypeInv, TypeOK
<1> QED
  BY <1>1, <1>2 DEF LeaseInv, LockOwned, Claimed, TokensAge, ReceiptOut, RecoveryAims, Working

LEMMA LockLease ==
  ASSUME TypeInv, LeaseInv, NEW h \in Helpers, Lock(h)
  PROVE  LeaseInv'
<1>1. \A g \in Helpers : pc[g] \in {"idle", "locking"}
  BY HelpersAssumption DEF Lock, LeaseInv, LockOwned
<1>2. /\ lock' = h /\ pc'[h] = "checking"
      /\ \A g \in Helpers \ {h} : pc'[g] \in {"idle", "locking"}
  BY <1>1 DEF Lock, TypeInv, TypeOK
<1>3. TokensAge'
  BY DEF Lock, LeaseInv, TokensAge
<1> QED BY <1>2, <1>3 DEF LeaseInv, LockOwned, Claimed, ReceiptOut, RecoveryAims, Working

\* A process that ends while it waits for the flock, killed or out of patience.
LEMMA WaiterLease ==
  ASSUME TypeInv, LeaseInv, NEW h \in Helpers, pc[h] = "locking", Exit(h),
         UNCHANGED <<file, retired, issued, receipts>>
  PROVE  LeaseInv'
<1>1. /\ pc'[h] = "idle" /\ lock' = IF lock = h THEN NoOne ELSE lock
      /\ \A g \in Helpers \ {h} : pc'[g] = pc[g] /\ job'[g] = job[g]
  BY DEF Exit, TypeInv, TypeOK
<1> QED
  BY <1>1 DEF LeaseInv, LockOwned, Claimed, TokensAge, ReceiptOut, RecoveryAims, Working

\* The look at the runtime: the owner is neither before nor behind its claim.
LEMMA LookLease ==
  ASSUME TypeInv, LeaseInv, NEW h \in Helpers, Look(h)
  PROVE  LeaseInv'
<1>1. /\ pc[h] = "checking" /\ pc' = [pc EXCEPT ![h] = "deciding"]
      /\ UNCHANGED <<lock, file, retired, issued, receipts>>
  BY DEF Look, Goto
<1>2. lock = h /\ \A g \in Helpers \ {h} : pc[g] \in {"idle", "locking"}
  BY <1>1, OneActive DEF LeaseInv, LockOwned
<1>3. \A g \in Helpers : pc'[g] \in {"idle", "locking", "deciding"}
                         /\ (pc'[g] = "deciding" => g = h)
  BY <1>1, <1>2 DEF TypeInv, TypeOK
<1> QED BY <1>1, <1>2, <1>3 DEF LeaseInv, LockOwned, Claimed, TokensAge, ReceiptOut, RecoveryAims, Working

LEMMA CheckLease ==
  ASSUME TypeInv, LeaseInv, NEW h \in Helpers, Check(h)
  PROVE  LeaseInv'
<1>0. pc[h] = "deciding" /\ pc[h] \notin {"idle", "locking"} /\ UNCHANGED receipts
  BY DEF Check
<1>a. /\ Fresh \in Tokens /\ file.token \in Tokens /\ job[h] \in Jobs
      /\ Modes \subseteq Goals /\ Modes \subseteq FileModes /\ "unknown" \in FileModes
      /\ Found(h) \in Goals \cup {"none"} /\ "default" \in Goals
  BY FoundType, TypeParts DEF TypeInv, TypeOK, Tokens, Fresh, Goals, FileModes
<1>b. job[h].goal \in Modes \/ job[h].op \in {"toggle", "toggle-nonblocking", "reconcile", "bootstrap"}
  BY <1>0 DEF TypeInv, JobOK
<1>c. ASSUME Leave(h) PROVE LeaseInv'
  BY <1>0, <1>c, ExitLease DEF Leave, NoWrite, TokenKept
<1>d. ASSUME NEW m \in FileModes, Conclude(h, Fresh, m) PROVE LeaseInv'
  <2>1. Write(Fresh, m) /\ Exit(h) /\ issued' = Fresh
    BY <1>d DEF Conclude, Publish
  <2>2. TokenMoved(Fresh)
    BY <2>1 DEF TokenMoved
  <2> QED BY <1>0, <2>1, <2>2, ExitLease
<1>e. ASSUME NEW goal \in Goals, ClaimTransition(h, goal), job[h].op # "recover"
      PROVE  LeaseInv'
  BY <1>0, <1>a, <1>e, ClaimLease DEF ClaimTransition
<1>1. CASE CheckTransition(h)
  <2>1. CASE ClaimTransition(h, IF job[h].goal = "none" THEN Other(Found(h)) ELSE job[h].goal)
    <3>1. (IF job[h].goal = "none" THEN Other(Found(h)) ELSE job[h].goal) \in Goals
      <4>1. Other(Found(h)) \in Goals
        BY DEF Other, Goals, Modes
      <4>2. job[h].goal \in Goals \cup {"none"}
        BY <1>a DEF Jobs
      <4> QED BY <4>1, <4>2
    <3>2. job[h].op # "recover"
      BY <1>1 DEF CheckTransition, Transitions
    <3> QED BY <2>1, <3>1, <3>2, <1>e
  <2> QED BY <1>1, <2>1, <1>c DEF CheckTransition
<1>2. CASE CheckReconcile(h)
  BY <1>2, <1>a, <1>c, <1>d DEF CheckReconcile
<1>3. CASE CheckBootstrap(h)
  <2>1. CASE /\ issued' = Fresh /\ Claim(h, Fresh, "gamepad", "default")
    <3>1. job[h].op # "recover" /\ "gamepad" \in Goals
      BY <1>3 DEF CheckBootstrap, Goals, Modes
    <3> QED BY <2>1, <3>1, <1>0, <1>a, ClaimLease
  <2> QED BY <1>3, <2>1, <1>a, <1>c, <1>d DEF CheckBootstrap
<1>4. CASE CheckRecover(h)
  <2>0. job[h].goal \in Modes
    BY <1>4, <1>b DEF CheckRecover
  <2>1. CASE /\ file.token = job[h].lease
             /\ Claim(h, job[h].lease, job[h].goal, "none") /\ UNCHANGED issued
    BY <2>0, <2>1, <1>0, <1>a, ClaimLease
  <2> QED BY <1>4, <2>0, <2>1, <1>a, <1>c, <1>d DEF CheckRecover
<1>5. CASE CheckRestore(h)
  <2>0. job[h].goal \in Modes /\ job[h].op # "recover"
    BY <1>5, <1>b DEF CheckRestore
  <2>1. CASE issued' = Fresh /\ Claim(h, Fresh, job[h].goal, "none")
    BY <2>0, <2>1, <1>0, <1>a, ClaimLease
  <2>2. CASE Conclude(h, Fresh, "unknown")
    BY <2>2, <1>a, <1>d
  <2>3. CASE ClaimTransition(h, job[h].goal)
    BY <2>0, <2>3, <1>a, <1>e
  <2> QED BY <1>5, <2>1, <2>2, <2>3, <1>a, <1>c, <1>d DEF CheckRestore
<1> QED BY <1>1, <1>2, <1>3, <1>4, <1>5 DEF Check

LEMMA ReceiptLease ==
  ASSUME TypeInv, LeaseInv, NEW h \in Helpers, CheckFails(h) \/ SendReceipt(h) \/ ReceiptRefused(h)
  PROVE  LeaseInv'
<1>1. CASE CheckFails(h)
  BY <1>1, ExitLease DEF CheckFails, NoWrite, TokenKept
<1>2. CASE SendReceipt(h)
  <2>1. /\ pc[h] = "receipt" /\ pc' = [pc EXCEPT ![h] = "entering"]
        /\ UNCHANGED <<lock, job, file, retired, issued>>
        /\ receipts' = receipts \cup {[token |-> job[h].token, previous |-> job[h].prior]}
    BY <1>2 DEF SendReceipt, Goto
  <2> QED BY <2>1, StayLease DEF Working
<1>3. CASE ReceiptRefused(h)
  <2>1. pc[h] = "receipt" /\ Exit(h) /\ UNCHANGED <<issued, receipts>>
    BY <1>3 DEF ReceiptRefused
  <2>2. job[h].token = file.token /\ job[h].prior \in FileModes /\ "unknown" \in FileModes
    BY <2>1 DEF LeaseInv, Claimed, Working, TypeInv, JobOK, FileModes
  <2>3. TokenKept \/ TokenMoved(job[h].token)
    BY <1>3, <2>1, <2>2 DEF ReceiptRefused, Publish, NoWrite, TokenKept, TokenMoved
  <2> QED BY <2>1, <2>3, ExitLease
<1> QED BY <1>1, <1>2, <1>3

LEMMA CallsLease ==
  ASSUME TypeInv, LeaseInv, NEW h \in Helpers, Snapshot(h) \/ CallDone(h) \/ CallFails(h)
  PROVE  LeaseInv'
<1>1. pc[h] \in Working \ {"receipt"}
  BY DEF Snapshot, CallDone, CallFails, Calling, Working
<1>2. UNCHANGED <<lock, file, retired, issued, receipts>>
  BY DEF Snapshot, CallDone, CallFails
<1>3. PICK l \in Working : pc' = [pc EXCEPT ![h] = l]
  <2>1. CASE Snapshot(h)
    BY <2>1 DEF Snapshot, Working
  <2>2. CASE CallDone(h)
    <3>1. (IF Tail(calls[h]) # <<>> THEN pc[h]
           ELSE IF pc[h] = "applying" THEN "applied" ELSE "failed") \in Working
      BY <1>1 DEF Working
    <3> QED BY <2>2, <3>1 DEF CallDone
  <2>3. CASE CallFails(h)
    BY <2>3 DEF CallFails, Working
  <2> QED BY <2>1, <2>2, <2>3
<1>4. \A g \in Helpers : /\ job'[g].op = job[g].op /\ job'[g].token = job[g].token
                         /\ job'[g].prior = job[g].prior /\ job'[g].goal = job[g].goal
  <2>1. CASE job' = job
    BY <2>1
  <2>2. CASE job' = [job EXCEPT ![h] = [@ EXCEPT !.entry = ip]]
    <3>1. job \in [Helpers -> Jobs] /\ job[h] \in Jobs
      BY DEF TypeInv, TypeOK
    <3>2. \A g \in Helpers : job'[g] = IF g = h THEN [job[h] EXCEPT !.entry = ip] ELSE job[g]
      BY <2>2, <3>1
    <3> QED BY <3>1, <3>2 DEF Jobs
  <2> QED BY <2>1, <2>2 DEF Snapshot, CallDone, CallFails
<1> QED BY <1>1, <1>2, <1>3, <1>4, StayLease

LEMMA PollLease ==
  ASSUME TypeInv, LeaseInv, NEW h \in Helpers, Poll(h)
  PROVE  LeaseInv'
<1>1. PICK l \in {"polled", "failed"} :
        /\ pc[h] = "applied" /\ pc' = [pc EXCEPT ![h] = l]
        /\ UNCHANGED <<lock, job, file, retired, issued, receipts>>
  BY DEF Poll, Goto
<1> QED BY <1>1, StayLease DEF Working

LEMMA SettleLease ==
  ASSUME TypeInv, LeaseInv, NEW h \in Helpers, Settle(h)
  PROVE  LeaseInv'
<1>1. pc[h] = "polled" /\ UNCHANGED receipts
  BY DEF Settle
<1>2. /\ job[h].token = file.token /\ job[h].goal \in Goals
      /\ "unknown" \in FileModes
  BY <1>1 DEF LeaseInv, Claimed, Working, TypeInv, JobOK, FileModes
<1>3. CASE PublishSettled(h)
  <2>1. SettledMode(h) \in FileModes
    BY <1>2 DEF SettledMode, FileModes, Goals
  <2>2. TokenMoved(SettledToken(h))
    BY <1>2, <1>3, <2>1 DEF PublishSettled, Publish, SettledToken, TokenMoved
  <2> QED BY <1>1, <1>3, <2>2, ExitLease DEF PublishSettled
<1>4. CASE Exit(h) /\ UNCHANGED issued
           /\ (UNCHANGED <<file, retired>> \/ Write(job[h].token, "unknown"))
  <2>1. TokenKept \/ TokenMoved(job[h].token)
    BY <1>2, <1>4 DEF TokenKept, TokenMoved
  <2> QED BY <1>1, <1>4, <2>1, ExitLease
<1> QED BY <1>3, <1>4 DEF Settle

LEMMA RollBackLease ==
  ASSUME TypeInv, LeaseInv, NEW h \in Helpers, RollBack(h)
  PROVE  LeaseInv'
<1>1. PICK l \in {"polled", "entering"} :
        /\ pc[h] = "failed" /\ pc' = [pc EXCEPT ![h] = l]
        /\ job' = [job EXCEPT ![h] = [@ EXCEPT !.goal = job[h].prior, !.round = "back"]]
        /\ UNCHANGED <<lock, file, retired, issued, receipts>>
  BY DEF RollBack, Goto, NoWrite
<1>2. job[h].op # "recover" /\ job[h] \in Jobs
  BY <1>1 DEF RollBack, CanRollBack, LeaseInv, RecoveryAims, Working, TypeInv, TypeOK
<1>3. \A g \in Helpers :
        job'[g] = IF g = h THEN [job[h] EXCEPT !.goal = job[h].prior, !.round = "back"]
                           ELSE job[g]
  BY <1>1 DEF TypeInv, TypeOK
<1>4. /\ job'[h].op = job[h].op /\ job'[h].token = job[h].token
      /\ job'[h].prior = job[h].prior
  <2>1. job'[h] = [job[h] EXCEPT !.goal = job[h].prior, !.round = "back"]
    BY <1>3
  <2> QED BY <1>2, <2>1 DEF Jobs
<1> QED BY <1>1, <1>2, <1>3, <1>4, StayLease DEF Working

LEMMA GiveUpLease ==
  ASSUME TypeInv, LeaseInv, NEW h \in Helpers, GiveUp(h)
  PROVE  LeaseInv'
<1>1. pc[h] = "failed" /\ Exit(h) /\ UNCHANGED <<receipts, issued>>
  BY DEF GiveUp
<1>2. job[h].token = file.token /\ "unknown" \in FileModes
  BY <1>1 DEF LeaseInv, Claimed, Working, FileModes
<1>3. TokenKept \/ TokenMoved(job[h].token)
  BY <1>1, <1>2 DEF GiveUp, TokenKept, TokenMoved
<1> QED BY <1>1, <1>3, ExitLease

LEMMA KillLease ==
  ASSUME TypeInv, LeaseInv, NEW h \in Helpers, Kill(h)
  PROVE  LeaseInv'
<1>1. pc[h] # "idle" /\ UNCHANGED <<file, retired, issued, receipts>>
  BY DEF Kill
<1>2. CASE Calling(h)
  <2>1. /\ pc[h] \in Working /\ pc[h] # "receipt" /\ "orphan" \in Working
        /\ pc' = [pc EXCEPT ![h] = "orphan"] /\ UNCHANGED <<lock, job>>
    BY <1>2 DEF Kill, Calling, Working
  <2> QED BY <1>1, <2>1, StayLease
<1>3. CASE ~Calling(h)
  <2>1. Exit(h)
    BY <1>3 DEF Kill
  <2> QED BY <1>1, <2>1, WaiterLease, ExitLease DEF TokenKept
<1> QED BY <1>2, <1>3

LEMMA OrphanEndsLease ==
  ASSUME TypeInv, LeaseInv, NEW h \in Helpers, OrphanEnds(h)
  PROVE  LeaseInv'
<1>1. lock = h /\ \A g \in Helpers \ {h} : pc[g] \in {"idle", "locking"}
  BY OneActive DEF LeaseInv, LockOwned, OrphanEnds
<1>2. \A g \in Helpers : pc'[g] \in {"idle", "locking"}
  BY <1>1 DEF OrphanEnds, TypeInv, TypeOK
<1>3. TokensAge'
  BY DEF OrphanEnds, LeaseInv, TokensAge
<1> QED BY <1>2, <1>3 DEF LeaseInv, LockOwned, Claimed, ReceiptOut, RecoveryAims, Working

LEMMA WorldLease ==
  ASSUME LeaseInv, UNCHANGED <<pc, job, lock, file, retired, issued, receipts>>
  PROVE  LeaseInv'
BY DEF LeaseInv, LockOwned, Claimed, TokensAge, ReceiptOut, RecoveryAims

LEMMA NextLease == TypeInv /\ LeaseInv /\ [Next]_vars => LeaseInv'
<1> SUFFICES ASSUME TypeInv, LeaseInv, [Next]_vars PROVE LeaseInv'
  OBVIOUS
<1>1. CASE UNCHANGED vars
  BY <1>1, WorldLease DEF vars
<1>2. CASE \E h \in Helpers : Start(h) \/ Step(h) \/ Kill(h)
  <2> PICK h \in Helpers : Start(h) \/ Step(h) \/ Kill(h)
    BY <1>2
  <2>1. CASE LockBusy(h)
    BY <2>1, WaiterLease DEF LockBusy
  <2> QED
    BY <2>1, StartLease, LockLease, LookLease, CheckLease, ReceiptLease, CallsLease, PollLease,
       SettleLease, RollBackLease, GiveUpLease, OrphanEndsLease, KillLease DEF Step
<1>3. CASE KeyboardAsks \/ KeyboardDone \/ Restart \/ Ready \/ LateCallLands
  BY <1>3, WorldLease DEF KeyboardAsks, KeyboardDone, Restart, Ready, LateCallLands
<1> QED BY <1>1, <1>2, <1>3 DEF Next

Inv == TypeInv /\ LeaseInv

\* Every reachable state satisfies both inductive invariants.
LEMMA Reachable == Spec => []Inv
<1>1. Init => Inv
  BY InitType, InitLease DEF Inv
<1>2. Inv /\ [Next]_vars => Inv'
  BY NextType, NextLease DEF Inv
<1> QED BY <1>1, <1>2, PTL DEF Spec

\* For any number of helpers, kills, faults and restarts, whoever has a D-Bus call
\* in flight owns the flock.
THEOREM OneWriterHolds == Spec => []OneWriter
<1>1. Inv => OneWriter
  BY DEF Inv, LeaseInv, LockOwned, OneWriter, InFlight, Calling
<1> QED BY <1>1, Reachable, PTL

\* While a call is in flight the state file carries its helper's claim.
THEOREM MutationIsAnnouncedHolds == Spec => []MutationIsAnnounced
<1>1. Inv => MutationIsAnnounced
  BY DEF Inv, LeaseInv, Claimed, MutationIsAnnounced, InFlight, Calling, Working
<1> QED BY <1>1, Reachable, PTL

\* No token comes back once the state file has moved on from it.
THEOREM RetiredTokensStayRetiredHolds == Spec => []RetiredTokensStayRetired
<1>1. Inv => RetiredTokensStayRetired
  BY DEF Inv, LeaseInv, TokensAge, RetiredTokensStayRetired
<1> QED BY <1>1, Reachable, PTL

\* An acquire's first mutation comes after its receipt.
THEOREM ReceiptBeforeMutationHolds == Spec => []ReceiptBeforeMutation
<1>1. Inv => ReceiptBeforeMutation
  BY DEF Inv, LeaseInv, ReceiptOut, ReceiptBeforeMutation, InFlight, Calling, Working
<1> QED BY <1>1, Reachable, PTL

(***************************************************************************)
(* What a step may never do.  Only the flock's owner writes the state file *)
(* and past its claim it only rewrites its own generation; so a command    *)
(* that was started with a lease can be followed through its three kinds   *)
(* of writes: the decision, the outcome, and the outcome of a failure.     *)
(***************************************************************************)
LEMMA OwnerWrites ==
  ASSUME Inv, [Next]_vars, NEW h \in Helpers, lock = h, file' # file
  PROVE  \/ Check(h)
         \/ /\ ReceiptRefused(h) \/ Settle(h) \/ GiveUp(h)
            /\ file.token = job[h].token
<1>1. PICK g \in Helpers : Check(g) \/ ReceiptRefused(g) \/ Settle(g) \/ GiveUp(g)
  BY DEF Next, Step, vars, Start, Lock, LockBusy, Look, CheckFails, NoWrite, SendReceipt, Snapshot,
         CallDone, CallFails, Poll, RollBack, OrphanEnds, Kill, KeyboardAsks, KeyboardDone, Restart, Ready,
         LateCallLands
<1>2. pc[g] \notin {"idle", "locking"} /\ (Check(g) \/ pc[g] \in Working)
  BY <1>1 DEF Check, ReceiptRefused, Settle, GiveUp, Working
<1>3. g = h
  BY <1>2, OneActive DEF Inv, LeaseInv
<1>4. Check(h) \/ file.token = job[h].token
  BY <1>2, <1>3 DEF Inv, LeaseInv, Claimed
<1> QED BY <1>1, <1>3, <1>4

\* A recovery or restoration replaces its own generation or nothing: it never
\* overwrites a newer choice.
THEOREM OldLeaseReplacesNothingHolds == Spec => OldLeaseReplacesNothing
<1> DEFINE Kept(h) == job[h].op \in LeaseOps /\ lock = h /\ file' # file
                        => file.token \in {job[h].lease, job[h].token}
<1>1. ASSUME Inv, [Next]_vars, NEW h \in Helpers PROVE Kept(h)
  <2> SUFFICES ASSUME job[h].op \in LeaseOps, lock = h, file' # file
               PROVE  file.token \in {job[h].lease, job[h].token}
    OBVIOUS
  <2>1. CASE Check(h)
    <3>1. CheckRecover(h) \/ CheckRestore(h)
      BY <2>1 DEF Check, CheckTransition, CheckReconcile, CheckBootstrap, LeaseOps, Transitions
    <3>2. ~Leave(h)
      BY DEF Leave, NoWrite
    <3> QED BY <3>1, <3>2 DEF CheckRecover, CheckRestore
  <2> QED BY <1>1, <2>1, OwnerWrites
<1>2. Inv /\ [Next]_vars => [\A h \in Helpers : Kept(h)]_vars
  BY <1>1
<1> QED BY <1>2, Reachable, PTL DEF Spec, OldLeaseReplacesNothing

=============================================================================

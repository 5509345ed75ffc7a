----------------------------- MODULE UiUpdateProofs -----------------------------
(***************************************************************************)
(* Update transactions keep their promises for any number of transactions  *)
(* and artifacts, faults, kills and edits.                                 *)
(***************************************************************************)
EXTENDS UiUpdate, SequenceTheorems, TLAPS

-----------------------------------------------------------------------------
(* Sequences of artifacts *)

Ran(s) == {s[i] : i \in DOMAIN s}

LEMMA RanType == ASSUME NEW S, NEW s \in Seq(S) PROVE Ran(s) \subseteq S
  BY ElementOfSeq, LenProperties DEF Ran

LEMMA RanTail ==
  ASSUME NEW S, NEW s \in Seq(S), s # <<>>
  PROVE  /\ Head(s) \in S /\ Tail(s) \in Seq(S)
         /\ Head(s) \in Ran(s) /\ Ran(s) = Ran(Tail(s)) \cup {Head(s)}
<1>1. /\ Head(s) = s[1] /\ Tail(s) \in Seq(S) /\ Len(s) \in Nat /\ Len(s) >= 1
      /\ Len(Tail(s)) = Len(s) - 1 /\ \A i \in 1..Len(Tail(s)) : Tail(s)[i] = s[i + 1]
  BY HeadTailProperties, LenProperties, EmptySeq
<1>2. DOMAIN s = 1..Len(s) /\ DOMAIN Tail(s) = 1..(Len(s) - 1)
  BY <1>1, LenProperties
<1>3. s[1] \in Ran(s) /\ s[1] \in S
  BY <1>1, <1>2, ElementOfSeq DEF Ran
<1>4. Ran(Tail(s)) \subseteq Ran(s)
  BY <1>1, <1>2 DEF Ran
<1>5. ASSUME NEW x \in Ran(s), x # s[1] PROVE x \in Ran(Tail(s))
  <2>1. PICK i \in 1..Len(s) : x = s[i]
    BY <1>2, <1>5 DEF Ran
  <2>2. i - 1 \in 1..(Len(s) - 1) /\ Tail(s)[i - 1] = s[i]
    BY <1>1, <1>5, <2>1
  <2> QED BY <1>2, <2>1, <2>2 DEF Ran
<1> QED BY <1>1, <1>3, <1>4, <1>5

LEMMA RanEmpty == Ran(<<>>) = {}
  BY DEF Ran

LEMMA RanAppend ==
  ASSUME NEW S, NEW s \in Seq(S), NEW x \in S
  PROVE  Append(s, x) \in Seq(S) /\ Ran(Append(s, x)) = Ran(s) \cup {x} /\ Append(s, x) # <<>>
<1>1. /\ Append(s, x) \in Seq(S) /\ Len(Append(s, x)) = Len(s) + 1 /\ Len(s) \in Nat
      /\ \A i \in 1..Len(s) : Append(s, x)[i] = s[i]
      /\ Append(s, x)[Len(s) + 1] = x
  BY AppendProperties, LenProperties
<1>2. DOMAIN s = 1..Len(s) /\ DOMAIN Append(s, x) = 1..(Len(s) + 1)
  BY <1>1, LenProperties
<1>3. Ran(Append(s, x)) = Ran(s) \cup {x}
  BY <1>1, <1>2 DEF Ran
<1> QED BY <1>1, <1>3, EmptySeq

LEMMA RanReverse ==
  ASSUME NEW S, NEW s \in Seq(S)
  PROVE  /\ Reverse(s) \in Seq(S) /\ Ran(Reverse(s)) = Ran(s)
         /\ Reverse(s) = <<>> <=> s = <<>>
<1>1. DOMAIN s = 1..Len(s) /\ Len(s) \in Nat
  BY LenProperties
<1>2. \A i \in 1..Len(s) : Len(s) + 1 - i \in 1..Len(s) /\ Len(s) + 1 - (Len(s) + 1 - i) = i
  BY <1>1
<1>3. Reverse(s) = [i \in 1..Len(s) |-> s[Len(s) + 1 - i]]
  BY <1>1 DEF Reverse
<1>4. Reverse(s) \in [1..Len(s) -> S]
  BY <1>1, <1>2, <1>3, ElementOfSeq
<1>5. Reverse(s) \in Seq(S) /\ DOMAIN Reverse(s) = 1..Len(s)
  BY <1>1, <1>4, SeqDef
<1>6. Len(Reverse(s)) = Len(s)
  BY <1>1, <1>5, LenProperties
<1>7. Ran(Reverse(s)) = Ran(s)
  <2>1. ASSUME NEW i \in 1..Len(s) PROVE Reverse(s)[i] \in Ran(s) /\ s[i] \in Ran(Reverse(s))
    <3>1. Reverse(s)[i] = s[Len(s) + 1 - i] /\ s[i] = Reverse(s)[Len(s) + 1 - i]
      BY <1>2, <1>3
    <3> QED BY <1>1, <1>2, <1>5, <3>1 DEF Ran
  <2> QED BY <1>1, <1>5, <2>1 DEF Ran
<1> QED BY <1>5, <1>6, <1>7, EmptySeq

-----------------------------------------------------------------------------
(* Types, part by part *)

Jobs == [kind : {"none", "apply", "rollback"}, tx : Transactions \cup {"none"},
         left : Seq(Artifacts), done : Seq(Artifacts), errors : BOOLEAN]

DiskType == /\ target \in [Artifacts -> Contents] /\ base \in [Artifacts -> Contents]
            /\ tx \in [Transactions -> Directory] /\ temp \subseteq Artifacts \X Tokens
BookType == /\ budget \in [faults : Nat, edits : Nat] /\ hit \in BOOLEAN
            /\ edited \subseteq Artifacts /\ unseen \subseteq Artifacts /\ orderly \in BOOLEAN
            /\ report \in {"none", "staged", "applied", "restored", "incomplete", "undone",
                           "not undone"} \X (Transactions \cup {"none"})
            /\ stack \subseteq begun \X begun /\ begun \subseteq Transactions

\* A marker stays only where there is something to roll back.
Markers == \A t \in Transactions : /\ tx[t].applied /\ ~tx[t].rolled => t \in begun
                                   /\ tx[t].rolled => tx[t].state = "staged" /\ t \notin begun
                                   /\ t \in begun => tx[t].state = "staged"

\* What an operation in progress has established.
Steady ==
  /\ pc \in {"idle", "put", "check", "inspect", "mark", "unmark", "confirm", "take", "restore",
             "recheck", "finish"}
  /\ job \in Jobs
  /\ pc = "idle" => job = NoJob
  /\ pc # "idle" =>
       /\ job.kind \in {"apply", "rollback"} /\ job.tx \in Transactions
       /\ tx[job.tx].state = "staged" /\ ~tx[job.tx].rolled
       /\ job.kind = "apply" => job.tx \in begun
       /\ pc \in {"put", "check", "inspect", "mark"} => unseen = {}
       /\ report[1] = "none"
       /\ pc \in {"put", "check", "inspect", "mark", "unmark", "confirm"} => job.kind = "apply"
       /\ pc \in {"take", "finish"} => job.kind = "rollback"
       /\ pc \in {"put", "check", "inspect", "take", "restore", "recheck"} => job.left # <<>>
       /\ pc \in {"mark", "finish"} => job.left = <<>>
       /\ (job.kind = "apply" /\ pc \in {"restore", "recheck", "confirm"} /\ ~job.errors)
            => ~tx[job.tx].applied

TypeInv == DiskType /\ BookType /\ Markers /\ Steady

LEMMA TypeInvOK == TypeInv => TypeOK
<1> SUFFICES ASSUME TypeInv PROVE TypeOK
  OBVIOUS
<1>1. pc # "idle" => job # NoJob
  BY DEF TypeInv, Steady, NoJob
<1>2. job.left \in Seq(Artifacts) /\ job.done \in Seq(Artifacts) /\ job.errors \in BOOLEAN
  BY DEF TypeInv, Steady, Jobs
<1>3. pc \in {"mark", "finish"} => job.left = <<>>
  BY DEF TypeInv, Steady
<1> QED BY <1>1, <1>2, <1>3 DEF TypeInv, TypeOK, DiskType, BookType, Markers, Steady

LEMMA NoJobType == NoJob \in Jobs /\ NoJob.errors = FALSE /\ NoJob.done = <<>>
  BY EmptySeq DEF NoJob, Jobs

LEMMA PlanType == /\ Plan \in Seq(Artifacts) /\ Plan # <<>> /\ Ran(Plan) = Artifacts
                  /\ Reverse(Plan) \in Seq(Artifacts) /\ Reverse(Plan) # <<>>
                  /\ Ran(Reverse(Plan)) = Artifacts
<1>1. Plan \in Seq(Artifacts) /\ Plan # <<>> /\ Ran(Plan) = Artifacts
  BY UpdateConstants DEF Ran, Artifacts
<1> QED BY <1>1, RanReverse

LEMMA OriginalType == ASSUME NEW a \in Artifacts PROVE Original(a) \in Contents
  BY UpdateConstants DEF Original, Contents

\* One marker of one transaction changes.
LEMMA AppliedSet ==
  ASSUME DiskType, NEW t \in Transactions, NEW b \in BOOLEAN, tx' = [tx EXCEPT ![t].applied = b]
  PROVE  /\ tx' \in [Transactions -> Directory]
         /\ \A u \in Transactions :
              /\ tx'[u].applied = IF u = t THEN b ELSE tx[u].applied
              /\ tx'[u].rolled = tx[u].rolled /\ tx'[u].state = tx[u].state
              /\ tx'[u].before = tx[u].before /\ tx'[u].payload = tx[u].payload
<1>1. tx \in [Transactions -> Directory] /\ tx[t] \in Directory
  BY DEF DiskType
<1>2. tx' = [tx EXCEPT ![t] = [tx[t] EXCEPT !.applied = b]]
  OBVIOUS
<1>3. [tx[t] EXCEPT !.applied = b] \in Directory
  BY <1>1 DEF Directory
<1>4. /\ [tx[t] EXCEPT !.applied = b].applied = b
      /\ [tx[t] EXCEPT !.applied = b].rolled = tx[t].rolled
      /\ [tx[t] EXCEPT !.applied = b].state = tx[t].state
      /\ [tx[t] EXCEPT !.applied = b].before = tx[t].before
      /\ [tx[t] EXCEPT !.applied = b].payload = tx[t].payload
  BY <1>1 DEF Directory
<1> QED BY <1>1, <1>2, <1>3, <1>4

LEMMA RolledSet ==
  ASSUME DiskType, NEW t \in Transactions, NEW b \in BOOLEAN, tx' = [tx EXCEPT ![t].rolled = b]
  PROVE  /\ tx' \in [Transactions -> Directory]
         /\ \A u \in Transactions :
              /\ tx'[u].rolled = IF u = t THEN b ELSE tx[u].rolled
              /\ tx'[u].applied = tx[u].applied /\ tx'[u].state = tx[u].state
              /\ tx'[u].before = tx[u].before /\ tx'[u].payload = tx[u].payload
<1>1. tx \in [Transactions -> Directory] /\ tx[t] \in Directory
  BY DEF DiskType
<1>2. tx' = [tx EXCEPT ![t] = [tx[t] EXCEPT !.rolled = b]]
  OBVIOUS
<1>3. [tx[t] EXCEPT !.rolled = b] \in Directory
  BY <1>1 DEF Directory
<1>4. /\ [tx[t] EXCEPT !.rolled = b].rolled = b
      /\ [tx[t] EXCEPT !.rolled = b].applied = tx[t].applied
      /\ [tx[t] EXCEPT !.rolled = b].state = tx[t].state
      /\ [tx[t] EXCEPT !.rolled = b].before = tx[t].before
      /\ [tx[t] EXCEPT !.rolled = b].payload = tx[t].payload
  BY <1>1 DEF Directory
<1> QED BY <1>1, <1>2, <1>3, <1>4

\* What the transactions hold is what they held.
SameContents == \A t \in Transactions : /\ tx'[t].before = tx[t].before
                                        /\ tx'[t].payload = tx[t].payload
                                        /\ tx'[t].state = tx[t].state

LEMMA FaultType ==
  ASSUME BookType, Fault \/ Fine
  PROVE  budget' \in [faults : Nat, edits : Nat] /\ hit' \in BOOLEAN
<1>1. /\ budget' = budget \/ budget' = [budget EXCEPT !.faults = budget.faults + 1]
      /\ hit' = hit \/ hit' = TRUE
  BY DEF Fault, Fine, Spend
<1>2. [budget EXCEPT !.faults = budget.faults + 1] \in [faults : Nat, edits : Nat]
  <2>1. budget \in [faults : Nat, edits : Nat]
    BY DEF BookType
  <2>2. budget.faults + 1 \in Nat
    BY <2>1
  <2> QED BY <2>1, <2>2
<1>3. hit' \in BOOLEAN
  BY <1>1 DEF BookType
<1> QED BY <1>1, <1>2, <1>3 DEF BookType

\* A write changes its target or not, and leaves at most its own file behind.
LEMMA WrittenEffect ==
  ASSUME DiskType, NEW a \in Artifacts, NEW c \in Contents, NEW k \in Tokens, NEW o,
         Written(a, c, k, o), o \in {"ok", "late", "failed"}
  PROVE  /\ target' \in [Artifacts -> Contents] /\ temp' \subseteq Artifacts \X Tokens
         /\ temp \subseteq temp' /\ (Fault \/ Fine)
         /\ o = "failed" => target' = target /\ (Fault \/ <<a, k>> \in temp)
         /\ o # "failed" => target' = [target EXCEPT ![a] = c]
         /\ o = "late" => Fault
<1>1. CASE o = "ok"
  <2>1. target' = [target EXCEPT ![a] = c] /\ temp' = temp /\ Fine
    BY <1>1 DEF Written
  <2> QED BY <1>1, <2>1 DEF DiskType
<1>2. CASE o = "late"
  <2>1. target' = [target EXCEPT ![a] = c] /\ temp' = temp /\ Fault
    BY <1>2 DEF Written
  <2> QED BY <1>2, <2>1 DEF DiskType
<1>3. CASE o = "failed"
  <2>1. /\ target' = target
        /\ \/ <<a, k>> \in temp /\ Fine /\ temp' = temp
           \/ Fault /\ (temp' = temp \/ temp' = temp \cup {<<a, k>>})
    BY <1>3 DEF Written
  <2> QED BY <1>3, <2>1 DEF DiskType
<1> QED BY <1>1, <1>2, <1>3

-----------------------------------------------------------------------------
(* The locals of an operation *)

LEMMA MineType ==
  ASSUME TypeInv, pc \in {"put", "check", "inspect", "take", "restore", "recheck"}
  PROVE  /\ Mine \in Artifacts /\ Tail(job.left) \in Seq(Artifacts)
         /\ Ran(job.left) = Ran(Tail(job.left)) \cup {Mine}
         /\ job \in Jobs /\ job.done \in Seq(Artifacts) /\ job.tx \in Transactions
         /\ tx[job.tx].before[Mine] \in Contents /\ tx[job.tx].payload[Mine] \in Contents
<1>1. /\ job \in Jobs /\ job.left # <<>> /\ job.left \in Seq(Artifacts) /\ job.tx \in Transactions
      /\ job.done \in Seq(Artifacts)
  BY DEF TypeInv, Steady, Jobs
<1>2. /\ Mine \in Artifacts /\ Tail(job.left) \in Seq(Artifacts)
      /\ Ran(job.left) = Ran(Tail(job.left)) \cup {Mine}
  BY <1>1, RanTail DEF Mine
<1>3. tx[job.tx] \in Directory
  BY <1>1 DEF TypeInv, DiskType
<1> QED BY <1>1, <1>2, <1>3 DEF Directory

\* The operation goes on to the next artifact.
LEMMA AdvanceEffect ==
  ASSUME TypeInv, pc \in {"put", "check", "take", "restore", "recheck"}, NEW again, NEW after,
         Advance(again, after)
  PROVE  /\ job' \in Jobs /\ job'.left = Tail(job.left) /\ job'.kind = job.kind
         /\ job'.tx = job.tx /\ job'.done = job.done /\ job'.errors = job.errors
         /\ report' = report
         /\ \/ job'.left = <<>> /\ pc' = after
            \/ job'.left # <<>> /\ pc' = again
<1>1. job \in Jobs /\ Tail(job.left) \in Seq(Artifacts)
  BY MineType
<1> DEFINE l == Tail(job.left)
<1>2. job' = [job EXCEPT !.left = l] /\ report' = report
  BY DEF Advance
<1>3. pc' = IF l = <<>> THEN after ELSE again
  BY DEF Advance
<1> HIDE DEF l
<1>4. l \in Seq(Artifacts)
  BY <1>1 DEF l
<1>5. /\ job' \in Jobs /\ job'.left = l /\ job'.kind = job.kind
      /\ job'.tx = job.tx /\ job'.done = job.done /\ job'.errors = job.errors
  BY <1>1, <1>2, <1>4 DEF Jobs
<1> QED BY <1>2, <1>3, <1>5 DEF l

\* _restore_one failed: the operator's roll-back ends, the automatic one goes on.
LEMMA GiveUpEffect ==
  ASSUME TypeInv, pc \in {"restore", "recheck"}, GiveUp
  PROVE  \/ /\ job.kind = "rollback" /\ pc' = "idle" /\ job' = NoJob
            /\ report' = <<"not undone", job.tx>>
         \/ /\ job.kind = "apply" /\ report' = report
            /\ job' \in Jobs /\ job'.left = Tail(job.left) /\ job'.kind = job.kind
            /\ job'.tx = job.tx /\ job'.done = job.done /\ job'.errors
            /\ \/ job'.left = <<>> /\ pc' = "confirm"
               \/ job'.left # <<>> /\ pc' = "restore"
<1>1. CASE job.kind = "rollback"
  BY <1>1 DEF GiveUp, End
<1>2. CASE job.kind # "rollback"
  <2> DEFINE l == Tail(job.left)
  <2>1. job' = [job EXCEPT !.left = l, !.errors = TRUE] /\ report' = report
    BY <1>2 DEF GiveUp
  <2>2. pc' = IF l = <<>> THEN "confirm" ELSE "restore"
    BY <1>2 DEF GiveUp
  <2>3. job.kind = "apply"
    BY <1>2 DEF TypeInv, Steady
  <2>4. job \in Jobs /\ l \in Seq(Artifacts)
    BY MineType
  <2> HIDE DEF l
  <2>5. /\ job' \in Jobs /\ job'.left = l /\ job'.kind = job.kind
        /\ job'.tx = job.tx /\ job'.done = job.done /\ job'.errors = TRUE
    BY <2>1, <2>4 DEF Jobs
  <2> QED BY <2>1, <2>2, <2>3, <2>5 DEF l
<1> QED BY <1>1, <1>2

-----------------------------------------------------------------------------
(* Types: the steps *)

LEMMA IdleSteady == ASSUME pc' = "idle", job' = NoJob PROVE Steady'
  BY NoJobType DEF Steady

\* An operation goes on, and its own directory is as it was.
LEMMA GoesOnSteady ==
  ASSUME TypeInv, pc # "idle", job' \in Jobs, job'.kind = job.kind, job'.tx = job.tx,
         UNCHANGED <<tx, report, begun>>,
         pc' \in {"put", "check", "inspect", "mark", "unmark", "confirm", "take", "restore", "recheck",
                  "finish"},
         pc' \in {"put", "check", "inspect", "mark", "unmark", "confirm"} => job.kind = "apply",
         pc' \in {"take", "finish"} => job.kind = "rollback",
         pc' \in {"put", "check", "inspect", "take", "restore", "recheck"} => job'.left # <<>>,
         pc' \in {"mark", "finish"} => job'.left = <<>>,
         pc' \in {"put", "check", "inspect", "mark"} => unseen' = unseen /\ pc \in {"put", "check"},
         (job.kind = "apply" /\ pc' \in {"restore", "recheck", "confirm"} /\ ~job'.errors)
            => ~tx[job.tx].applied
  PROVE  Steady'
  BY DEF TypeInv, Steady

\* Nothing but an operation's place and locals.
LEMMA MarkersKept == ASSUME Markers, UNCHANGED <<tx, begun>> PROVE Markers'
  BY DEF Markers

LEMMA BookKept ==
  ASSUME BookType, Fault \/ Fine, UNCHANGED <<edited, unseen, stack, begun, base, orderly>>,
         report' = report \/ report' \in {"restored", "applied", "incomplete", "undone", "not undone"}
                                           \X (Transactions \cup {"none"})
  PROVE  BookType'
<1>1. budget' \in [faults : Nat, edits : Nat] /\ hit' \in BOOLEAN
  BY FaultType
<1>2. report' \in {"none", "staged", "applied", "restored", "incomplete", "undone",
                   "not undone"} \X (Transactions \cup {"none"})
  BY DEF BookType
<1> QED BY <1>1, <1>2 DEF BookType

\* The locals, with one more artifact done or not.
LEMMA MoreDone ==
  ASSUME job \in Jobs, job.done \in Seq(Artifacts), NEW a \in Artifacts,
         \/ job' = job \/ job' = [job EXCEPT !.done = job.done]
         \/ job' = [job EXCEPT !.done = Append(job.done, a)]
  PROVE  /\ job' \in Jobs /\ job'.kind = job.kind /\ job'.tx = job.tx /\ job'.left = job.left
         /\ \/ job'.done = job.done
            \/ Ran(job'.done) = Ran(job.done) \cup {a} /\ job'.done = Append(job.done, a)
<1> DEFINE l == Append(job.done, a)
<1>1. l \in Seq(Artifacts) /\ Ran(l) = Ran(job.done) \cup {a}
  BY RanAppend
<1> HIDE DEF l
<1>2. job' = [job EXCEPT !.done = job.done] \/ job' = [job EXCEPT !.done = l] \/ job' = job
  BY DEF l
<1>3. /\ job' \in Jobs /\ job'.kind = job.kind /\ job'.tx = job.tx /\ job'.left = job.left
      /\ job'.done = job.done \/ job'.done = l
  BY <1>1, <1>2 DEF Jobs
<1> QED BY <1>1, <1>3 DEF l

LEMMA PutType == ASSUME TypeInv, Put PROVE TypeInv'
<1>0. pc = "put"
  BY DEF Put
<1> DEFINE c == tx[job.tx].payload[Mine]
<1>1. PICK o \in {"ok", "late", "failed"} :
        /\ Written(Mine, c, "apply", o)
        /\ \/ o = "ok" /\ pc' = "check" /\ job' = [job EXCEPT !.done = Append(job.done, Mine)]
           \/ o # "ok" /\ pc' = "inspect" /\ job' = job
  BY DEF Put
<1>2. Append(job.done, Mine) \in Seq(Artifacts) /\ c \in Contents
  BY <1>0, MineType, RanAppend
<1>3. job' \in Jobs /\ job'.kind = job.kind /\ job'.tx = job.tx /\ job'.left = job.left
  BY <1>0, <1>1, <1>2, MineType, MoreDone
<1>4. target' \in [Artifacts -> Contents] /\ temp' \subseteq Artifacts \X Tokens /\ (Fault \/ Fine)
  BY <1>0, <1>1, <1>2, MineType, WrittenEffect DEF TypeInv, Tokens
<1>5. UNCHANGED <<tx, report, edited, unseen, stack, begun, base, orderly>>
  BY DEF Put, seen, nesting
<1>6. job.kind = "apply" /\ job.left # <<>>
  BY <1>0 DEF TypeInv, Steady
<1>7. Steady'
  BY <1>0, <1>1, <1>3, <1>5, <1>6, GoesOnSteady
<1> QED BY <1>4, <1>5, <1>7, BookKept, MarkersKept DEF TypeInv, DiskType

LEMMA InspectType == ASSUME TypeInv, Inspect PROVE TypeInv'
<1>0. /\ pc = "inspect" /\ pc' = "unmark" /\ job.kind = "apply" /\ Mine \in Artifacts
      /\ DiskType /\ BookType /\ Markers
  BY MineType DEF Inspect, TypeInv, Steady
<1>1. UNCHANGED <<target, tx, temp, report, edited, stack, begun, base, orderly>> /\ (Fault \/ Fine)
  BY DEF Inspect, disk, nesting
<1>2. job' = job \/ job' = [job EXCEPT !.done = job.done]
      \/ job' = [job EXCEPT !.done = Append(job.done, Mine)]
  BY DEF Inspect
<1>3. job' \in Jobs /\ job'.kind = job.kind /\ job'.tx = job.tx /\ job'.left = job.left
  BY <1>0, <1>2, MineType, MoreDone
<1>4. unseen' \subseteq Artifacts
  BY <1>0 DEF Inspect, BookType
<1>5. budget' \in [faults : Nat, edits : Nat] /\ hit' \in BOOLEAN
  BY <1>0, <1>1, FaultType
<1>6. BookType'
  BY <1>0, <1>1, <1>4, <1>5 DEF BookType
<1>7. Steady'
  BY <1>0, <1>1, <1>3, GoesOnSteady
<1> QED BY <1>0, <1>1, <1>6, <1>7, MarkersKept DEF TypeInv, DiskType

LEMMA CheckType == ASSUME TypeInv, Check PROVE TypeInv'
<1>0. pc = "check" /\ job.kind = "apply"
  BY DEF Check, TypeInv, Steady
<1>1. /\ UNCHANGED <<target, tx, temp, edited, unseen, stack, begun, base, orderly>>
      /\ Fault \/ Fine
  BY DEF Check, disk, seen, nesting
<1>2. CASE Advance("put", "mark")
  <2>1. Steady' /\ report' = report
    BY <1>0, <1>1, <1>2, AdvanceEffect, GoesOnSteady
  <2> QED BY <1>1, <2>1, BookKept, MarkersKept DEF TypeInv, DiskType
<1>3. CASE Goto("unmark")
  <2>1. pc' = "unmark" /\ job' = job /\ report' = report /\ job \in Jobs
    BY <1>3 DEF Goto, TypeInv, Steady
  <2>2. Steady'
    BY <1>0, <1>1, <2>1, GoesOnSteady
  <2> QED BY <1>1, <2>1, <2>2, BookKept, MarkersKept DEF TypeInv, DiskType
<1> QED BY <1>2, <1>3 DEF Check

LEMMA MarkType == ASSUME TypeInv, Mark PROVE TypeInv'
<1> DEFINE t == job.tx
<1>0. /\ pc = "mark" /\ job.kind = "apply" /\ t \in Transactions /\ t \in begun /\ job \in Jobs
      /\ tx[t].state = "staged" /\ ~tx[t].rolled
  BY DEF Mark, TypeInv, Steady
<1>1. UNCHANGED <<target, temp, edited, unseen, stack, begun, base, orderly>> /\ (Fault \/ Fine)
  BY DEF Mark, seen, nesting
<1>2. tx' = tx \/ tx' = [tx EXCEPT ![t].applied = TRUE]
  BY DEF Mark, Goto, End
<1>3. DiskType /\ tx \in [Transactions -> Directory]
  BY DEF TypeInv, DiskType
<1>7. tx' \in [Transactions -> Directory]
  BY <1>0, <1>2, <1>3, AppliedSet
<1>4. Markers' /\ SameContents /\ ~tx'[t].rolled
  <2>1. CASE tx' = tx
    BY <1>0, <1>1, <2>1 DEF TypeInv, Markers, SameContents
  <2>2. CASE tx' = [tx EXCEPT ![t].applied = TRUE]
    <3>1. \A u \in Transactions : /\ tx'[u].applied = IF u = t THEN TRUE ELSE tx[u].applied
                                  /\ tx'[u].rolled = tx[u].rolled /\ tx'[u].state = tx[u].state
                                  /\ tx'[u].before = tx[u].before /\ tx'[u].payload = tx[u].payload
      BY <1>0, <2>2, AppliedSet DEF TypeInv
    <3> HIDE DEF t
    <3> QED BY <1>0, <1>1, <3>1 DEF TypeInv, Markers, SameContents
  <2> QED BY <1>2, <2>1, <2>2
<1>5. CASE End("applied", t)
  <2>1. pc' = "idle" /\ job' = NoJob /\ report' = <<"applied", t>>
    BY <1>5 DEF End
  <2>2. BookType'
    BY <1>0, <1>1, <2>1, BookKept DEF TypeInv
  <2> QED BY <1>1, <1>7, <1>4, <2>1, <2>2, IdleSteady DEF TypeInv, DiskType
<1>6. CASE Goto("unmark")
  <2>1. pc' = "unmark" /\ job' = job /\ report' = report
    BY <1>6 DEF Goto
  <2>2. BookType'
    BY <1>1, <2>1, BookKept DEF TypeInv
  <2>3. Steady'
    BY <1>0, <1>1, <1>4, <2>1 DEF TypeInv, Steady, SameContents
  <2> QED BY <1>1, <1>7, <1>4, <2>2, <2>3 DEF TypeInv, DiskType
<1> QED BY <1>5, <1>6 DEF Mark

LEMMA UnmarkType == ASSUME TypeInv, Unmark PROVE TypeInv' /\ SameContents
<1> DEFINE t == job.tx
<1>0. /\ pc = "unmark" /\ job.kind = "apply" /\ t \in Transactions /\ t \in begun /\ job \in Jobs
      /\ tx[t].state = "staged" /\ ~tx[t].rolled /\ job.done \in Seq(Artifacts)
  BY DEF Unmark, TypeInv, Steady, Jobs
<1>1. /\ UNCHANGED <<target, temp, report, edited, unseen, stack, begun, base, orderly>> /\ (Fault \/ Fine)
      /\ pc' = IF job.done = <<>> THEN "confirm" ELSE "restore"
  BY DEF Unmark, seen, nesting
<1> DEFINE l == Reverse(job.done)
<1>2. l \in Seq(Artifacts) /\ (l = <<>> <=> job.done = <<>>)
  BY <1>0, RanReverse
<1>3. \/ job' = [job EXCEPT !.left = l] /\ tx' = [tx EXCEPT ![t].applied = FALSE]
      \/ /\ job' = [job EXCEPT !.left = l, !.errors = TRUE]
         /\ tx' = tx \/ tx' = [tx EXCEPT ![t].applied = FALSE]
  BY DEF Unmark, UnmarkError
<1> HIDE DEF l, t
<1>4. /\ job' \in Jobs /\ job'.left = l /\ job'.kind = job.kind /\ job'.tx = job.tx
      /\ job'.errors \/ tx' = [tx EXCEPT ![t].applied = FALSE]
  BY <1>0, <1>2, <1>3 DEF Jobs
<1>51. DiskType /\ tx \in [Transactions -> Directory]
  BY DEF TypeInv, DiskType
<1>5. tx' \in [Transactions -> Directory]
  BY <1>0, <1>3, <1>51, AppliedSet
<1>6. /\ Markers' /\ SameContents /\ ~tx'[t].rolled
      /\ job'.errors \/ ~tx'[t].applied
  <2>1. CASE tx' # [tx EXCEPT ![t].applied = FALSE]
    <3>1. tx' = tx /\ job'.errors
      BY <1>3, <1>4, <2>1
    <3> QED BY <1>0, <1>1, <3>1 DEF TypeInv, Markers, SameContents, t
  <2>2. CASE tx' = [tx EXCEPT ![t].applied = FALSE]
    <3>1. \A u \in Transactions : /\ tx'[u].applied = IF u = t THEN FALSE ELSE tx[u].applied
                                  /\ tx'[u].rolled = tx[u].rolled /\ tx'[u].state = tx[u].state
                                  /\ tx'[u].before = tx[u].before /\ tx'[u].payload = tx[u].payload
      BY <1>0, <1>51, <2>2, AppliedSet DEF t
    <3> QED BY <1>0, <1>1, <3>1 DEF TypeInv, Markers, SameContents, t
  <2> QED BY <2>1, <2>2
<1>7. Steady'
  <2>1. job'.tx = t /\ tx'[t].state = "staged" /\ pc' \in {"confirm", "restore"}
    BY <1>0, <1>1, <1>4, <1>6 DEF SameContents, t
  <2>2. pc' = "restore" => job'.left # <<>>
    BY <1>1, <1>2, <1>4
  <2>3. report'[1] = "none"
    BY <1>0, <1>1 DEF TypeInv, Steady
  <2> QED BY <1>0, <1>1, <1>4, <1>6, <2>1, <2>2, <2>3 DEF Steady
<1>8. BookType'
  BY <1>1, BookKept DEF TypeInv
<1> QED BY <1>1, <1>5, <1>6, <1>7, <1>8 DEF TypeInv, DiskType

\* A transaction leaves the ones begun.
LEMMA UndoneBook ==
  ASSUME BookType, NEW t, Fault \/ Fine, UNCHANGED <<edited, unseen>>, Undone(t),
         report' \in {"restored", "undone", "not undone"} \X (Transactions \cup {"none"})
  PROVE  BookType'
<1>1. /\ stack' \subseteq begun' \X begun' /\ begun' \subseteq Transactions
      /\ orderly' \in BOOLEAN
  BY DEF Undone, Without, BookType
<1>2. budget' \in [faults : Nat, edits : Nat] /\ hit' \in BOOLEAN
  BY FaultType
<1> QED BY <1>1, <1>2 DEF BookType

LEMMA ConfirmType == ASSUME TypeInv, Confirm PROVE TypeInv'
<1> DEFINE t == job.tx
<1>0. /\ pc = "confirm" /\ job.kind = "apply" /\ t \in Transactions /\ t \in begun
      /\ tx[t].state = "staged" /\ ~tx[t].rolled /\ (~job.errors => ~tx[t].applied)
      /\ base \in [Artifacts -> Contents]
  BY DEF Confirm, TypeInv, Steady, DiskType
<1>1. UNCHANGED <<target, tx, temp, edited, unseen>> /\ (Fault \/ Fine)
  BY DEF Confirm, disk, seen
<1>2. CASE End("restored", t) /\ Undone(t) /\ ~job.errors
  <2>1. /\ pc' = "idle" /\ job' = NoJob /\ report' = <<"restored", t>> /\ begun' = begun \ {t}
        /\ base' = base
    BY <1>2 DEF End, Undone
  <2>2. BookType'
    BY <1>0, <1>1, <1>2, <2>1, UndoneBook DEF TypeInv
  <2>3. Markers'
    BY <1>0, <1>1, <1>2, <2>1 DEF TypeInv, Markers
  <2> QED BY <1>1, <2>1, <2>2, <2>3, IdleSteady DEF TypeInv, DiskType
<1>3. CASE (End("incomplete", t) \/ End("restored", t)) /\ UNCHANGED nesting
  <2>1. /\ pc' = "idle" /\ job' = NoJob /\ UNCHANGED <<stack, begun, base, orderly>>
        /\ report' \in {"restored", "incomplete"} \X (Transactions \cup {"none"})
    BY <1>0, <1>3 DEF End, nesting
  <2>2. BookType'
    BY <1>1, <2>1, BookKept DEF TypeInv
  <2> QED BY <1>1, <2>1, <2>2, IdleSteady, MarkersKept DEF TypeInv, DiskType
<1> QED BY <1>2, <1>3 DEF Confirm

LEMMA TakeType == ASSUME TypeInv, Take PROVE TypeInv'
<1>0. pc = "take" /\ job.kind = "rollback" /\ job.tx \in Transactions
  BY DEF Take, TypeInv, Steady
<1>1. /\ UNCHANGED <<target, tx, temp, edited, unseen, stack, begun, base, orderly>>
      /\ Fault \/ Fine
  BY DEF Take, disk, seen, nesting
<1>2. CASE Advance("take", "finish")
  <2>1. Steady' /\ report' = report
    BY <1>0, <1>1, <1>2, AdvanceEffect, GoesOnSteady
  <2> QED BY <1>1, <2>1, BookKept, MarkersKept DEF TypeInv, DiskType
<1>3. CASE Goto("restore")
  <2>1. pc' = "restore" /\ job' = job /\ report' = report /\ job \in Jobs /\ job.left # <<>>
    BY <1>0, <1>3 DEF Goto, TypeInv, Steady
  <2>2. Steady'
    BY <1>0, <1>1, <2>1, GoesOnSteady
  <2> QED BY <1>1, <2>1, <2>2, BookKept, MarkersKept DEF TypeInv, DiskType
<1>4. CASE End("not undone", job.tx)
  <2>1. pc' = "idle" /\ job' = NoJob /\ report' = <<"not undone", job.tx>>
    BY <1>4 DEF End
  <2>2. BookType'
    BY <1>0, <1>1, <2>1, BookKept DEF TypeInv
  <2> QED BY <1>1, <2>1, <2>2, IdleSteady, MarkersKept DEF TypeInv, DiskType
<1> QED BY <1>2, <1>3, <1>4 DEF Take

\* A restoration that failed leaves the types as they are.
LEMMA GiveUpType ==
  ASSUME TypeInv, pc \in {"restore", "recheck"}, GiveUp, Fault \/ Fine,
         UNCHANGED <<tx, edited, unseen, stack, begun, base, orderly>>
  PROVE  BookType' /\ Markers' /\ Steady'
<1>1. CASE job.kind = "rollback"
  <2>1. pc' = "idle" /\ job' = NoJob /\ report' = <<"not undone", job.tx>> /\ job.tx \in Transactions
    BY <1>1, GiveUpEffect DEF TypeInv, Steady
  <2>2. BookType'
    BY <2>1, BookKept DEF TypeInv
  <2> QED BY <2>1, <2>2, IdleSteady, MarkersKept DEF TypeInv
<1>2. CASE job.kind = "apply"
  <2>1. /\ report' = report /\ job' \in Jobs /\ job'.kind = job.kind /\ job'.tx = job.tx
        /\ job'.errors
        /\ \/ job'.left = <<>> /\ pc' = "confirm"
           \/ job'.left # <<>> /\ pc' = "restore"
    BY <1>2, GiveUpEffect
  <2>2. Steady'
    BY <1>2, <2>1, GoesOnSteady
  <2>3. BookType'
    BY <2>1, BookKept DEF TypeInv
  <2> QED BY <2>2, <2>3, MarkersKept DEF TypeInv
<1> QED BY <1>1, <1>2 DEF TypeInv, Steady

\* One restoration writes the backup, fails, or writes it and fails.
LEMMA RestoreEffect ==
  ASSUME TypeInv, Restore
  PROVE  /\ UNCHANGED <<tx, edited, unseen, stack, begun, base, orderly>> /\ (Fault \/ Fine)
         /\ target' \in [Artifacts -> Contents] /\ temp' \subseteq Artifacts \X Tokens
         /\ temp \subseteq temp'
         /\ \/ target' = target
            \/ /\ target[Mine] = tx[job.tx].payload[Mine]
               /\ target' = [target EXCEPT ![Mine] = tx[job.tx].before[Mine]]
         /\ \/ /\ pc' = "recheck" /\ job' = job /\ report' = report
               /\ target' = [target EXCEPT ![Mine] = tx[job.tx].before[Mine]]
            \/ GiveUp /\ (\/ job.kind = "apply" \/ Fault
                          \/ target[Mine] # tx[job.tx].payload[Mine]
                          \/ <<Mine, "rollback">> \in temp)
<1> DEFINE c == tx[job.tx].before[Mine]
<1>0. pc = "restore" /\ UNCHANGED <<tx, edited, unseen, stack, begun, base, orderly>>
  BY DEF Restore, seen, nesting
<1>1. Mine \in Artifacts /\ c \in Contents /\ job.kind \in {"apply", "rollback"} /\ DiskType
  BY <1>0, MineType DEF TypeInv, Steady
<1>2. CASE target[Mine] # tx[job.tx].payload[Mine] /\ Fine /\ GiveUp /\ UNCHANGED <<target, temp>>
  BY <1>0, <1>2 DEF TypeInv, DiskType
<1>3. ASSUME NEW k \in Tokens, NEW o \in {"ok", "late", "failed"}, Written(Mine, c, k, o),
             k = "rollback" \/ job.kind = "apply", target[Mine] = tx[job.tx].payload[Mine],
             \/ o = "ok" /\ Goto("recheck")
             \/ o # "ok" /\ GiveUp
      PROVE  /\ target' \in [Artifacts -> Contents] /\ temp' \subseteq Artifacts \X Tokens
             /\ temp \subseteq temp' /\ (Fault \/ Fine)
             /\ target' = target \/ target' = [target EXCEPT ![Mine] = c]
             /\ \/ /\ pc' = "recheck" /\ job' = job /\ report' = report
                   /\ target' = [target EXCEPT ![Mine] = c]
                \/ GiveUp /\ (job.kind = "apply" \/ Fault \/ <<Mine, "rollback">> \in temp)
  <2>1. /\ target' \in [Artifacts -> Contents] /\ temp' \subseteq Artifacts \X Tokens
        /\ temp \subseteq temp' /\ (Fault \/ Fine)
        /\ o = "failed" => target' = target /\ (Fault \/ <<Mine, k>> \in temp)
        /\ o # "failed" => target' = [target EXCEPT ![Mine] = c]
        /\ o = "late" => Fault
    BY <1>1, <1>3, WrittenEffect
  <2>2. CASE o = "ok" /\ Goto("recheck")
    BY <2>1, <2>2 DEF Goto
  <2>3. CASE o # "ok" /\ GiveUp
    <3> DEFINE new == [target EXCEPT ![Mine] = c]
    <3>1. /\ target' = target \/ target' = new
          /\ o = "failed" => Fault \/ <<Mine, k>> \in temp
          /\ o = "late" => Fault
      BY <2>1
    <3> HIDE DEF new
    <3>2. GiveUp /\ (job.kind = "apply" \/ Fault \/ <<Mine, "rollback">> \in temp)
      BY <1>3, <2>3, <3>1
    <3> QED BY <2>1, <3>1, <3>2 DEF new
  <2> QED BY <1>3, <2>2, <2>3
<1>4. CASE target[Mine] = tx[job.tx].payload[Mine]
  <2>1. PICK k \in Tokens, o \in {"ok", "late", "failed"} :
          /\ Written(Mine, c, k, o) /\ (k = "rollback" \/ job.kind = "apply")
          /\ \/ o = "ok" /\ Goto("recheck")
             \/ o # "ok" /\ GiveUp
    BY <1>4 DEF Restore, Tokens
  <2> QED BY <1>0, <1>3, <1>4, <2>1
<1> QED BY <1>2, <1>4 DEF Restore

LEMMA RestoreType == ASSUME TypeInv, Restore PROVE TypeInv'
<1>0. /\ pc = "restore" /\ job \in Jobs /\ job.left # <<>>
      /\ job.kind = "apply" /\ ~job.errors => ~tx[job.tx].applied
  BY DEF Restore, TypeInv, Steady
<1>1. /\ UNCHANGED <<tx, edited, unseen, stack, begun, base, orderly>> /\ (Fault \/ Fine)
      /\ target' \in [Artifacts -> Contents] /\ temp' \subseteq Artifacts \X Tokens
      /\ GiveUp \/ (pc' = "recheck" /\ job' = job /\ report' = report)
  BY RestoreEffect
<1>2. CASE GiveUp
  <2>1. BookType' /\ Markers' /\ Steady'
    BY <1>0, <1>1, <1>2, GiveUpType
  <2> QED BY <1>1, <2>1 DEF TypeInv, DiskType
<1>3. CASE pc' = "recheck" /\ job' = job /\ report' = report
  <2>1. Steady'
    BY <1>0, <1>1, <1>3, GoesOnSteady
  <2>2. BookType' /\ Markers'
    BY <1>1, <1>3, BookKept, MarkersKept DEF TypeInv
  <2> QED BY <1>1, <2>1, <2>2 DEF TypeInv, DiskType
<1> QED BY <1>1, <1>2, <1>3

LEMMA RecheckType == ASSUME TypeInv, Recheck PROVE TypeInv'
<1>0. /\ pc = "recheck" /\ job.kind \in {"apply", "rollback"}
      /\ job.kind = "apply" /\ ~job.errors => ~tx[job.tx].applied
  BY DEF Recheck, TypeInv, Steady
<1>1. /\ UNCHANGED <<target, tx, temp, edited, unseen, stack, begun, base, orderly>>
      /\ Fault \/ Fine
  BY DEF Recheck, disk, seen, nesting
<1>2. CASE GiveUp
  BY <1>0, <1>1, <1>2, GiveUpType DEF TypeInv, DiskType
<1>3. CASE job.kind = "apply" /\ Advance("restore", "confirm")
  <2>1. /\ job' \in Jobs /\ job'.kind = job.kind /\ job'.tx = job.tx /\ report' = report
        /\ job'.errors = job.errors
        /\ \/ job'.left = <<>> /\ pc' = "confirm"
           \/ job'.left # <<>> /\ pc' = "restore"
    BY <1>0, <1>3, AdvanceEffect
  <2>2. Steady'
    BY <1>0, <1>1, <1>3, <2>1, GoesOnSteady
  <2>3. BookType' /\ Markers'
    BY <1>1, <2>1, BookKept, MarkersKept DEF TypeInv
  <2> QED BY <1>1, <2>2, <2>3 DEF TypeInv, DiskType
<1>4. CASE job.kind = "rollback" /\ Advance("take", "finish")
  <2>1. /\ job' \in Jobs /\ job'.kind = job.kind /\ job'.tx = job.tx /\ report' = report
        /\ \/ job'.left = <<>> /\ pc' = "finish"
           \/ job'.left # <<>> /\ pc' = "take"
    BY <1>0, <1>4, AdvanceEffect
  <2>2. Steady'
    BY <1>0, <1>1, <1>4, <2>1, GoesOnSteady
  <2>3. BookType' /\ Markers'
    BY <1>1, <2>1, BookKept, MarkersKept DEF TypeInv
  <2> QED BY <1>1, <2>2, <2>3 DEF TypeInv, DiskType
<1>5. GiveUp \/ (job.kind = "apply" /\ Advance("restore", "confirm"))
             \/ (job.kind = "rollback" /\ Advance("take", "finish"))
  BY <1>0 DEF Recheck
<1> QED BY <1>2, <1>3, <1>4, <1>5

LEMMA FinishType == ASSUME TypeInv, Finish PROVE TypeInv'
<1> DEFINE t == job.tx
<1>0. /\ pc = "finish" /\ t \in Transactions /\ tx[t].state = "staged" /\ ~tx[t].rolled
      /\ DiskType /\ BookType /\ Markers
  BY DEF Finish, TypeInv, Steady
<1>1. UNCHANGED <<target, temp, edited, unseen>> /\ (Fault \/ Fine)
  BY DEF Finish, seen
<1>2. /\ pc' = "idle" /\ job' = NoJob /\ (report' = <<"undone", t>> \/ report' = <<"not undone", t>>)
  BY DEF Finish, End
<1>5. \/ UNCHANGED <<tx, nesting>>
      \/ tx' = [tx EXCEPT ![t].rolled = TRUE] /\ Undone(t)
  BY DEF Finish
<1> HIDE DEF t
<1>3. CASE UNCHANGED <<tx, nesting>>
  <2>1. UNCHANGED <<tx, stack, begun, base, orderly>>
    BY <1>3 DEF nesting
  <2>2. BookType' /\ Markers'
    <3>1. report' \in {"restored", "applied", "incomplete", "undone", "not undone"}
                        \X (Transactions \cup {"none"})
      <4>1. CASE report' = <<"undone", t>>
        BY <1>0, <4>1
      <4>2. CASE report' = <<"not undone", t>>
        BY <1>0, <4>2
      <4> QED BY <1>2, <4>1, <4>2
    <3> QED BY <1>0, <1>1, <2>1, <3>1, BookKept, MarkersKept
  <2> QED BY <1>0, <1>1, <1>2, <2>1, <2>2, IdleSteady DEF TypeInv, DiskType
<1>4. CASE tx' = [tx EXCEPT ![t].rolled = TRUE] /\ Undone(t)
  <2>1. /\ tx' \in [Transactions -> Directory]
        /\ \A u \in Transactions : /\ tx'[u].rolled = IF u = t THEN TRUE ELSE tx[u].rolled
                                   /\ tx'[u].applied = tx[u].applied /\ tx'[u].state = tx[u].state
    BY <1>0, <1>4, RolledSet
  <2>2. BookType'
    <3>1. report' \in {"restored", "undone", "not undone"} \X (Transactions \cup {"none"})
      <4>1. CASE report' = <<"undone", t>>
        BY <1>0, <4>1
      <4>2. CASE report' = <<"not undone", t>>
        BY <1>0, <4>2
      <4> QED BY <1>2, <4>1, <4>2
    <3>2. Undone(t)
      BY <1>4
    <3> QED BY <1>0, <1>1, <3>1, <3>2, UndoneBook
  <2>3. begun' = begun \ {t} /\ base' = base
    BY <1>4 DEF Undone
  <2>4. Markers'
    BY <1>0, <2>1, <2>3 DEF Markers
  <2> QED BY <1>0, <1>1, <1>2, <2>1, <2>2, <2>3, <2>4, IdleSteady DEF TypeInv, DiskType
<1> QED BY <1>3, <1>4, <1>5

LEMMA KillType == ASSUME TypeInv, Kill PROVE TypeInv'
<1>0. /\ pc # "idle" /\ job.kind \in {"apply", "rollback"} /\ DiskType /\ BookType /\ Markers
  BY DEF Kill, TypeInv, Steady
<1>1. UNCHANGED <<target, tx, edited, unseen, stack, begun, base, orderly>> /\ Fault
  BY DEF Kill, seen, nesting
<1>2. pc' = "idle" /\ job' = NoJob /\ report' = <<"none", "none">>
  BY DEF Kill
<1>3. temp' = temp \/ (pc \in {"put", "restore"} /\ \E k \in Tokens : temp' = temp \cup {<<Mine, k>>})
  BY DEF Kill, Tokens
<1>4. temp' \subseteq Artifacts \X Tokens
  BY <1>3, MineType DEF TypeInv, DiskType
<1>5. budget' \in [faults : Nat, edits : Nat] /\ hit' \in BOOLEAN
  BY <1>0, <1>1, FaultType
<1>6. BookType'
  BY <1>0, <1>1, <1>2, <1>5 DEF BookType
<1> QED BY <1>0, <1>1, <1>2, <1>4, <1>6, IdleSteady, MarkersKept DEF TypeInv, DiskType

\* Somebody else's edit, in the terms the invariants need.
LEMMA EditEffect ==
  ASSUME TypeInv, NEW a \in Artifacts, Edit(a)
  PROVE  /\ UNCHANGED <<tx, temp, pc, job, report, hit, begun, unseen>> /\ stack' = {}
         /\ budget' \in [faults : Nat, edits : Nat]
         /\ edited' = edited \cup {a} /\ orderly' = (orderly /\ begun = {})
         /\ \E c \in Contents : /\ target' = [target EXCEPT ![a] = c]
                              /\ base' = IF begun = {} THEN [base EXCEPT ![a] = c] ELSE base
<1>1. /\ UNCHANGED <<tx, temp, pc, job, report, hit, begun, unseen>> /\ stack' = {}
      /\ edited' = edited \cup {a} /\ orderly' = (orderly /\ begun = {})
      /\ \E c \in Contents : /\ target' = [target EXCEPT ![a] = c]
                           /\ base' = IF begun = {} THEN [base EXCEPT ![a] = c] ELSE base
  BY DEF Edit
<1>2. budget' = [budget EXCEPT !.edits = budget.edits + 1]
  BY DEF Edit, Spend
<1>3. budget' \in [faults : Nat, edits : Nat]
  <2>1. budget \in [faults : Nat, edits : Nat]
    BY DEF TypeInv, BookType
  <2>2. budget.edits + 1 \in Nat
    BY <2>1
  <2> QED BY <1>2, <2>1, <2>2
<1> QED BY <1>1, <1>3

LEMMA EditType == ASSUME TypeInv, NEW a \in Artifacts, Edit(a) PROVE TypeInv'
<1>1. /\ UNCHANGED <<tx, temp, pc, job, report, hit, begun, unseen>> /\ stack' = {}
      /\ budget' \in [faults : Nat, edits : Nat]
      /\ edited' = edited \cup {a} /\ orderly' = (orderly /\ begun = {})
  BY EditEffect
<1>2. PICK c \in Contents : /\ target' = [target EXCEPT ![a] = c]
                            /\ base' = IF begun = {} THEN [base EXCEPT ![a] = c] ELSE base
  BY EditEffect
<1>3. target' \in [Artifacts -> Contents] /\ base' \in [Artifacts -> Contents]
  <2>1. target \in [Artifacts -> Contents] /\ base \in [Artifacts -> Contents]
    BY DEF TypeInv, DiskType
  <2> QED BY <1>2, <2>1
<1>4. Steady'
  BY <1>1 DEF TypeInv, Steady
<1>5. BookType' /\ Markers'
  BY <1>1 DEF TypeInv, BookType, Markers
<1> QED BY <1>1, <1>3, <1>4, <1>5 DEF TypeInv, DiskType

\* What a staging does.
LEMMA StageEffect ==
  ASSUME TypeInv, NEW t \in Transactions, Stage(t)
  PROVE  /\ pc = "idle" /\ UNCHANGED <<target, temp, pc, job, stack, begun, base, orderly>>
         /\ tx[t].state = "none" /\ tx' \in [Transactions -> Directory]
         /\ \A u \in Transactions \ {t} : tx'[u] = tx[u]
         /\ tx'[t].state # "none" /\ ~tx'[t].applied /\ ~tx'[t].rolled
         /\ budget' \in [faults : Nat, edits : Nat] /\ hit' = FALSE /\ edited' = {} /\ unseen' = {}
         /\ (report' = <<"staged", t>> \/ report' = <<"none", "none">>)
<1>1. /\ pc = "idle" /\ UNCHANGED <<target, temp, pc, job, stack, begun, base, orderly>>
      /\ tx[t].state = "none" /\ hit' = FALSE /\ edited' = {} /\ unseen' = {}
      /\ report' = <<"staged", t>> \/ report' = <<"none", "none">>
      /\ budget' = budget \/ budget' = [budget EXCEPT !.faults = budget.faults + 1]
  BY DEF Stage, nesting, Spend
<1>2. PICK files \in [Artifacts -> Versions], state \in {"partial", "staged"} :
        tx' = [tx EXCEPT ![t] = [state |-> state, before |-> target, payload |-> files,
                                 applied |-> FALSE, rolled |-> FALSE]]
  BY DEF Stage
<1> DEFINE d == [state |-> state, before |-> target, payload |-> files,
                 applied |-> FALSE, rolled |-> FALSE]
<1>3. /\ target \in [Artifacts -> Contents] /\ tx \in [Transactions -> Directory]
      /\ budget \in [faults : Nat, edits : Nat]
  BY DEF TypeInv, DiskType, BookType
<1>4. files \in [Artifacts -> Contents]
  BY DEF Contents
<1>5. d \in Directory /\ d.state # "none" /\ ~d.applied /\ ~d.rolled
  BY <1>3, <1>4 DEF Directory
<1>6. tx' = [tx EXCEPT ![t] = d]
  BY <1>2
<1> HIDE DEF d
<1>7. /\ tx' \in [Transactions -> Directory] /\ tx'[t] = d
      /\ \A u \in Transactions \ {t} : tx'[u] = tx[u]
  BY <1>3, <1>5, <1>6
<1>8. budget' \in [faults : Nat, edits : Nat]
  <2>1. budget.faults + 1 \in Nat
    BY <1>3
  <2> QED BY <1>1, <1>3, <2>1
<1> QED BY <1>1, <1>5, <1>7, <1>8

LEMMA StageType == ASSUME TypeInv, NEW t \in Transactions, Stage(t) PROVE TypeInv'
<1>1. /\ pc = "idle" /\ UNCHANGED <<target, temp, pc, job, stack, begun, base, orderly>>
      /\ tx[t].state = "none" /\ tx' \in [Transactions -> Directory]
      /\ \A u \in Transactions \ {t} : tx'[u] = tx[u]
      /\ tx'[t].state # "none" /\ ~tx'[t].applied /\ ~tx'[t].rolled
      /\ budget' \in [faults : Nat, edits : Nat] /\ hit' = FALSE /\ edited' = {} /\ unseen' = {}
      /\ (report' = <<"staged", t>> \/ report' = <<"none", "none">>)
  BY StageEffect
<1>2. job' = NoJob /\ pc' = "idle" /\ t \notin begun
  BY <1>1 DEF TypeInv, Steady, Markers
<1>3. BookType'
  <2>1. CASE report' = <<"staged", t>>
    BY <1>1, <2>1 DEF TypeInv, BookType
  <2>2. CASE report' = <<"none", "none">>
    BY <1>1, <2>2 DEF TypeInv, BookType
  <2> QED BY <1>1, <2>1, <2>2
<1>4. Markers'
  BY <1>1, <1>2 DEF TypeInv, Markers
<1> QED BY <1>1, <1>2, <1>3, <1>4, IdleSteady DEF TypeInv, DiskType

\* An operation begins.
LEMMA BeginEffect ==
  ASSUME NEW t \in Transactions, NEW l \in Seq(Artifacts), NEW kind \in {"apply", "rollback"},
         NEW next, Begin(kind, t, l, next)
  PROVE  /\ job' \in Jobs /\ job'.kind = kind /\ job'.tx = t /\ job'.left = l
         /\ job'.done = <<>> /\ job'.errors = FALSE
         /\ pc' = next /\ report' = <<"none", "none">> /\ edited' = {} /\ unseen' = {}
<1>1. /\ pc' = next /\ report' = <<"none", "none">> /\ edited' = {} /\ unseen' = {}
  BY DEF Begin
<1>2. job' = [kind |-> kind, tx |-> t, left |-> l, done |-> <<>>, errors |-> FALSE]
  BY DEF Begin, NoJob
<1>3. job' \in Jobs
  BY <1>2, EmptySeq DEF Jobs
<1> QED BY <1>1, <1>2, <1>3

LEMMA ApplyEffect ==
  ASSUME TypeInv, NEW t \in Transactions, Apply(t)
  PROVE  /\ pc = "idle" /\ UNCHANGED <<target, tx, temp, budget>>
         /\ tx[t].state = "staged" /\ ~tx[t].applied /\ ~tx[t].rolled /\ Before(t)
         /\ job' \in Jobs /\ job'.kind = "apply" /\ job'.tx = t /\ job'.left = Plan
         /\ job'.done = <<>> /\ job'.errors = FALSE /\ pc' = "put" /\ report' = <<"none", "none">>
         /\ edited' = {} /\ unseen' = {} /\ hit' = FALSE /\ begun' = begun \cup {t}
         /\ \/ On(t, t) /\ ~Top(t) /\ stack' = {<<t, t>>}
            \/ /\ ~On(t, t) \/ Top(t)
               /\ stack' = Without(t) \cup {<<u, t>> : u \in Stacked \cup {t}}
         /\ base' = IF begun = {} THEN target ELSE base
         /\ orderly' = (begun = {} \/ (orderly /\ (t \in begun => Top(t))))
<1>1. Begin("apply", t, Plan, "put")
  BY DEF Apply
<1>2. /\ job' \in Jobs /\ job'.kind = "apply" /\ job'.tx = t /\ job'.left = Plan
      /\ job'.done = <<>> /\ job'.errors = FALSE
      /\ pc' = "put" /\ report' = <<"none", "none">> /\ edited' = {} /\ unseen' = {}
  BY <1>1, PlanType, BeginEffect
<1>3. \/ On(t, t) /\ ~Top(t) /\ stack' = {<<t, t>>}
      \/ /\ ~On(t, t) \/ Top(t)
         /\ stack' = Without(t) \cup {<<u, t>> : u \in Stacked \cup {t}}
  BY DEF Apply
<1> QED BY <1>2, <1>3 DEF Apply, disk

LEMMA ApplyType == ASSUME TypeInv, NEW t \in Transactions, Apply(t) PROVE TypeInv'
<1>1. /\ pc = "idle" /\ UNCHANGED <<target, tx, temp, budget>>
      /\ tx[t].state = "staged" /\ ~tx[t].applied /\ ~tx[t].rolled
      /\ job' \in Jobs /\ job'.kind = "apply" /\ job'.tx = t /\ job'.left = Plan
      /\ pc' = "put" /\ report' = <<"none", "none">>
      /\ edited' = {} /\ unseen' = {} /\ hit' = FALSE /\ begun' = begun \cup {t}
      /\ stack' \in {{<<t, t>>}, Without(t) \cup {<<u, t>> : u \in Stacked \cup {t}}}
      /\ base' = target \/ base' = base
      /\ orderly' \in BOOLEAN
  BY ApplyEffect
<1>2. Steady'
  BY <1>1, PlanType DEF TypeInv, Steady
<1>3. \A u \in Stacked : u \in begun
  BY DEF TypeInv, BookType, Stacked, On
<1>4. stack' \subseteq begun' \X begun' /\ begun' \subseteq Transactions
  <2>1. begun \subseteq Transactions /\ stack \subseteq begun \X begun
    BY DEF TypeInv, BookType
  <2>2. {<<u, t>> : u \in Stacked \cup {t}} \subseteq begun' \X begun'
    BY <1>1, <1>3
  <2>3. Without(t) \subseteq begun' \X begun' /\ {<<t, t>>} \subseteq begun' \X begun'
    BY <1>1, <2>1 DEF Without
  <2> QED BY <1>1, <2>1, <2>2, <2>3
<1>5. BookType'
  BY <1>1, <1>4 DEF TypeInv, BookType
<1>6. Markers'
  BY <1>1 DEF TypeInv, Markers
<1>7. DiskType'
  BY <1>1 DEF TypeInv, DiskType
<1> QED BY <1>2, <1>5, <1>6, <1>7 DEF TypeInv

LEMMA RollbackEffect ==
  ASSUME TypeInv, NEW t \in Transactions, Rollback(t)
  PROVE  /\ pc = "idle" /\ UNCHANGED <<target, tx, temp, begun, base>>
         /\ tx[t].state = "staged" /\ ~tx[t].rolled /\ edited' = {} /\ unseen' = {}
         /\ \/ /\ \A a \in Artifacts : Known(t, a)
               /\ job' \in Jobs /\ job'.kind = "rollback" /\ job'.tx = t
               /\ job'.left = Reverse(Plan) /\ job'.errors = FALSE
               /\ pc' = "take" /\ report' = <<"none", "none">> /\ hit' = FALSE /\ budget' = budget
               /\ stack' = {p \in stack : On(p[2], t)} /\ orderly' = (orderly /\ Top(t))
            \/ /\ Fault \/ (hit' = FALSE /\ budget' = budget /\ \E a \in Artifacts : ~Known(t, a))
               /\ report' = <<"not undone", t>> /\ UNCHANGED <<pc, job, stack, orderly>>
<1>1. /\ pc = "idle" /\ UNCHANGED <<target, tx, temp, begun, base>>
      /\ tx[t].state = "staged" /\ ~tx[t].rolled /\ edited' = {} /\ unseen' = {}
  BY DEF Rollback, disk, Begin
<1>2. CASE /\ \A a \in Artifacts : Known(t, a)
           /\ Begin("rollback", t, Reverse(Plan), "take") /\ hit' = FALSE /\ budget' = budget
           /\ stack' = {p \in stack : On(p[2], t)} /\ orderly' = (orderly /\ Top(t))
  <2>1. /\ job' \in Jobs /\ job'.kind = "rollback" /\ job'.tx = t
        /\ job'.left = Reverse(Plan) /\ job'.errors = FALSE
        /\ pc' = "take" /\ report' = <<"none", "none">>
    BY <1>2, PlanType, BeginEffect
  <2> QED BY <1>1, <1>2, <2>1
<1>3. CASE /\ Fault \/ (hit' = FALSE /\ budget' = budget /\ \E a \in Artifacts : ~Known(t, a))
           /\ report' = <<"not undone", t>> /\ UNCHANGED <<pc, job, stack, orderly>>
  BY <1>1, <1>3
<1> QED BY <1>2, <1>3 DEF Rollback

LEMMA RollbackType == ASSUME TypeInv, NEW t \in Transactions, Rollback(t) PROVE TypeInv'
<1>1. /\ pc = "idle" /\ UNCHANGED <<target, tx, temp, begun, base>>
      /\ tx[t].state = "staged" /\ ~tx[t].rolled /\ edited' = {} /\ unseen' = {}
  BY RollbackEffect
<1>2. \/ /\ job' \in Jobs /\ job'.kind = "rollback" /\ job'.tx = t
         /\ job'.left = Reverse(Plan) /\ job'.errors = FALSE
         /\ pc' = "take" /\ report' = <<"none", "none">> /\ hit' = FALSE /\ budget' = budget
         /\ stack' = {p \in stack : On(p[2], t)} /\ orderly' = (orderly /\ Top(t))
      \/ /\ Fault \/ (hit' = FALSE /\ budget' = budget)
         /\ report' = <<"not undone", t>> /\ UNCHANGED <<pc, job, stack, orderly>>
  BY RollbackEffect
<1>3. stack' \subseteq begun' \X begun' /\ orderly' \in BOOLEAN
  BY <1>1, <1>2 DEF TypeInv, BookType
<1>4. budget' \in [faults : Nat, edits : Nat] /\ hit' \in BOOLEAN
  BY <1>2, FaultType DEF TypeInv, BookType
<1>5. BookType'
  <2>1. CASE report' = <<"not undone", t>>
    BY <1>1, <1>3, <1>4, <2>1 DEF TypeInv, BookType
  <2>2. CASE report' = <<"none", "none">>
    BY <1>1, <1>3, <1>4, <2>2 DEF TypeInv, BookType
  <2> QED BY <1>2, <2>1, <2>2
<1>6. Steady'
  <2>1. CASE UNCHANGED <<pc, job>>
    BY <1>1, <2>1, IdleSteady DEF TypeInv, Steady
  <2>2. CASE /\ job' \in Jobs /\ job'.kind = "rollback" /\ job'.tx = t
             /\ job'.left = Reverse(Plan) /\ pc' = "take" /\ report' = <<"none", "none">>
    BY <1>1, <2>2, PlanType DEF Steady
  <2> QED BY <1>2, <2>1, <2>2
<1> QED BY <1>1, <1>5, <1>6, MarkersKept DEF TypeInv, DiskType

LEMMA TypeInit == Init => TypeInv
<1> SUFFICES ASSUME Init PROVE TypeInv
  OBVIOUS
<1>1. target \in [Artifacts -> Contents] /\ base = target
  BY OriginalType DEF Init
<1> DEFINE d == [state |-> "none", before |-> target, payload |-> target, applied |-> FALSE,
                 rolled |-> FALSE]
<1>2. d \in Directory
  BY <1>1 DEF Directory
<1>3. tx = [t \in Transactions |-> d]
  BY DEF Init
<1> HIDE DEF d
<1>4. tx \in [Transactions -> Directory] /\ \A t \in Transactions : tx[t] = d
  BY <1>2, <1>3
<1>5. DiskType
  BY <1>1, <1>4 DEF Init, DiskType
<1>6. Markers
  BY <1>4 DEF Init, Markers, d
<1>7. BookType
  BY DEF Init, BookType
<1>8. Steady
  BY NoJobType DEF Init, Steady
<1> QED BY <1>5, <1>6, <1>7, <1>8 DEF TypeInv

LEMMA TypeStep == TypeInv /\ [Next]_vars => TypeInv'
<1> SUFFICES ASSUME TypeInv, [Next]_vars PROVE TypeInv'
  OBVIOUS
<1>1. CASE UNCHANGED vars
  BY <1>1 DEF vars, disk, history, seen, nesting, TypeInv, DiskType, BookType, Markers, Steady
<1>2. CASE Next
  BY <1>2, StageType, ApplyType, RollbackType, PutType, InspectType, CheckType, MarkType, UnmarkType,
     ConfirmType, TakeType, RestoreType, RecheckType, FinishType, KillType, EditType
     DEF Next, Operation
<1> QED BY <1>1, <1>2

\* Every variable keeps its type, an operation is in progress exactly when there are locals
\* of one, and markers are consistent: "applied" stays only on a transaction begun and not
\* undone, "rolled back" only on a staged one that is not begun.
THEOREM TypeCorrect == Spec => []TypeOK
<1>1. Spec => []TypeInv
  BY TypeInit, TypeStep, PTL DEF Spec
<1> QED BY <1>1, TypeInvOK, PTL

-----------------------------------------------------------------------------
(* What the steps of an operation do, in the terms of the next invariants *)

LEMMA PutEffect ==
  ASSUME TypeInv, Put
  PROVE  /\ pc = "put" /\ job.kind = "apply" /\ Mine \in Artifacts
         /\ UNCHANGED <<tx, report, edited, unseen, stack, begun, base, orderly>>
         /\ job'.kind = job.kind /\ job'.tx = job.tx /\ job'.left = job.left
         /\ \/ /\ pc' = "check" /\ Ran(job'.done) = Ran(job.done) \cup {Mine}
               /\ target' = [target EXCEPT ![Mine] = tx[job.tx].payload[Mine]]
            \/ /\ pc' = "inspect" /\ job'.done = job.done
               /\ \/ target' = target
                  \/ target' = [target EXCEPT ![Mine] = tx[job.tx].payload[Mine]]
<1>0. /\ pc = "put" /\ UNCHANGED <<tx, report, edited, unseen, stack, begun, base, orderly>>
      /\ job.kind = "apply"
  BY DEF Put, seen, nesting, TypeInv, Steady
<1> DEFINE c == tx[job.tx].payload[Mine]
<1>1. PICK o \in {"ok", "late", "failed"} :
        /\ Written(Mine, c, "apply", o)
        /\ \/ o = "ok" /\ pc' = "check" /\ job' = [job EXCEPT !.done = Append(job.done, Mine)]
           \/ o # "ok" /\ pc' = "inspect" /\ job' = job
  BY DEF Put
<1>2. /\ job \in Jobs /\ job.done \in Seq(Artifacts) /\ Mine \in Artifacts /\ c \in Contents
      /\ DiskType
  BY <1>0, MineType DEF TypeInv
<1>3. /\ o = "failed" => target' = target
      /\ o # "failed" => target' = [target EXCEPT ![Mine] = c]
  <2>1. "apply" \in Tokens /\ Written(Mine, c, "apply", o)
    BY <1>1 DEF Tokens
  <2> QED BY <1>2, <2>1, WrittenEffect
<1>4. CASE o = "ok"
  <2>1. /\ Append(job.done, Mine) \in Seq(Artifacts)
        /\ Ran(Append(job.done, Mine)) = Ran(job.done) \cup {Mine}
    BY <1>2, RanAppend
  <2> DEFINE l == Append(job.done, Mine)
  <2>2. job' = [job EXCEPT !.done = l] /\ pc' = "check"
    BY <1>1, <1>4
  <2> HIDE DEF l
  <2>3. job'.kind = job.kind /\ job'.tx = job.tx /\ job'.left = job.left /\ job'.done = l
    BY <1>2, <2>2 DEF Jobs
  <2> QED BY <1>0, <1>2, <1>3, <1>4, <2>1, <2>2, <2>3 DEF l
<1>5. CASE o # "ok"
  BY <1>0, <1>1, <1>2, <1>3, <1>5
<1> QED BY <1>4, <1>5

LEMMA InspectEffect ==
  ASSUME TypeInv, Inspect
  PROVE  /\ pc = "inspect" /\ pc' = "unmark" /\ job.kind = "apply" /\ Mine \in Artifacts
         /\ UNCHANGED <<target, tx, temp, report, edited, stack, begun, base, orderly>>
         /\ job'.kind = job.kind /\ job'.tx = job.tx /\ job'.left = job.left
         /\ \/ /\ Ran(job'.done) = Ran(job.done) \cup {Mine} /\ unseen' = unseen
            \/ /\ Ran(job'.done) = Ran(job.done) /\ unseen \subseteq unseen'
               /\ target[Mine] = tx[job.tx].payload[Mine] => Mine \in unseen'
<1>1. /\ pc = "inspect" /\ pc' = "unmark" /\ job.kind = "apply"
      /\ Mine \in Artifacts /\ job \in Jobs /\ job.done \in Seq(Artifacts)
      /\ UNCHANGED <<target, tx, temp, report, edited, stack, begun, base, orderly>>
  BY MineType DEF Inspect, disk, nesting, TypeInv, Steady
<1>2. \/ /\ unseen' = unseen /\ target[Mine] = tx[job.tx].payload[Mine]
         /\ job' = [job EXCEPT !.done = Append(job.done, Mine)]
      \/ /\ unseen' = unseen /\ target[Mine] # tx[job.tx].payload[Mine]
         /\ job' = [job EXCEPT !.done = job.done]
      \/ /\ unseen' = unseen \cup {a \in {Mine} : target[a] = tx[job.tx].payload[a]}
         /\ job' = job
  BY DEF Inspect, FailedPut
<1>3. /\ job'.kind = job.kind /\ job'.tx = job.tx /\ job'.left = job.left
      /\ Ran(job'.done) = Ran(job.done) \/ Ran(job'.done) = Ran(job.done) \cup {Mine}
  BY <1>1, <1>2, MoreDone
<1>4. CASE /\ unseen' = unseen /\ target[Mine] = tx[job.tx].payload[Mine]
           /\ job' = [job EXCEPT !.done = Append(job.done, Mine)]
  <2>1. Ran(job'.done) = Ran(job.done) \cup {Mine}
    <3>1. job'.done = Append(job.done, Mine)
      BY <1>1, <1>4 DEF Jobs
    <3> QED BY <1>1, <3>1, RanAppend
  <2> QED BY <1>1, <1>3, <1>4, <2>1
<1>5. CASE /\ unseen' = unseen /\ target[Mine] # tx[job.tx].payload[Mine]
           /\ job' = [job EXCEPT !.done = job.done]
  BY <1>1, <1>3, <1>5
<1>6. CASE /\ unseen' = unseen \cup {a \in {Mine} : target[a] = tx[job.tx].payload[a]}
           /\ job' = job
  BY <1>1, <1>3, <1>6
<1> QED BY <1>2, <1>4, <1>5, <1>6

LEMMA MarkEffect ==
  ASSUME TypeInv, Mark
  PROVE  /\ pc = "mark" /\ job.kind = "apply" /\ job.left = <<>> /\ job.tx \in Transactions
         /\ UNCHANGED <<target, temp, edited, unseen, stack, begun, base, orderly>>
         /\ SameContents
         /\ \/ pc' = "idle" /\ report' = <<"applied", job.tx>>
            \/ pc' = "unmark" /\ UNCHANGED <<job, report>>
<1>1. /\ pc = "mark" /\ job.kind = "apply" /\ job.left = <<>> /\ job.tx \in Transactions /\ DiskType
      /\ UNCHANGED <<target, temp, edited, unseen, stack, begun, base, orderly>>
      /\ \/ pc' = "idle" /\ report' = <<"applied", job.tx>>
         \/ pc' = "unmark" /\ UNCHANGED <<job, report>>
  BY DEF Mark, Goto, End, seen, nesting, TypeInv, Steady
<1>2. tx' = tx \/ tx' = [tx EXCEPT ![job.tx].applied = TRUE]
  BY DEF Mark
<1>3. CASE tx' = tx
  BY <1>1, <1>3 DEF SameContents
<1>4. CASE tx' = [tx EXCEPT ![job.tx].applied = TRUE]
  BY <1>1, <1>4, AppliedSet DEF SameContents
<1> QED BY <1>1, <1>2, <1>3, <1>4

LEMMA UnmarkEffect ==
  ASSUME TypeInv, Unmark
  PROVE  /\ pc = "unmark" /\ job.kind = "apply" /\ pc' \in {"confirm", "restore"}
         /\ UNCHANGED <<target, temp, report, edited, unseen, stack, begun, base, orderly>> /\ SameContents
         /\ job'.kind = job.kind /\ job'.tx = job.tx /\ job'.done = job.done
         /\ Ran(job'.left) = Ran(job.done)
<1>1. /\ pc = "unmark" /\ job.kind = "apply" /\ job \in Jobs /\ pc' \in {"confirm", "restore"}
      /\ UNCHANGED <<target, temp, report, edited, unseen, stack, begun, base, orderly>>
  BY DEF Unmark, seen, nesting, TypeInv, Steady
<1> DEFINE l == Reverse(job.done)
<1>2. l \in Seq(Artifacts) /\ Ran(l) = Ran(job.done)
  BY <1>1, RanReverse DEF Jobs
<1>3. job' = [job EXCEPT !.left = l] \/ job' = [job EXCEPT !.left = l, !.errors = TRUE]
  BY DEF Unmark, UnmarkError
<1> HIDE DEF l
<1>4. job'.kind = job.kind /\ job'.tx = job.tx /\ job'.done = job.done /\ job'.left = l
  BY <1>1, <1>2, <1>3 DEF Jobs
<1> QED BY <1>1, <1>2, <1>4, UnmarkType

LEMMA ConfirmEffect ==
  ASSUME TypeInv, Confirm
  PROVE  /\ pc = "confirm" /\ job.kind = "apply" /\ pc' = "idle" /\ job.tx \in Transactions
         /\ UNCHANGED <<target, tx, temp, edited, unseen, base, orderly>>
         /\ \/ /\ report' = <<"restored", job.tx>>
               /\ \A a \in Ran(job.done) : target[a] = tx[job.tx].before[a]
               /\ \/ unseen = {} /\ Undone(job.tx)
                  \/ UNCHANGED <<stack, begun>>
            \/ report' = <<"incomplete", job.tx>> /\ UNCHANGED <<stack, begun>>
<1>1. /\ pc = "confirm" /\ job.kind = "apply" /\ job.tx \in Transactions /\ pc' = "idle"
      /\ UNCHANGED <<target, tx, temp, edited, unseen, base, orderly>>
  BY DEF Confirm, End, Undone, seen, disk, nesting, TypeInv, Steady
<1>2. \/ /\ \A i \in DOMAIN job.done : target[job.done[i]] = tx[job.tx].before[job.done[i]]
         /\ report' = <<"restored", job.tx>>
         /\ \/ unseen = {} /\ Undone(job.tx)
            \/ UNCHANGED nesting
      \/ report' = <<"incomplete", job.tx>> /\ UNCHANGED nesting
  BY DEF Confirm, End
<1> QED BY <1>1, <1>2 DEF Ran, nesting

LEMMA FinishEffect ==
  ASSUME TypeInv, Finish
  PROVE  /\ pc = "finish" /\ job.kind = "rollback" /\ pc' = "idle" /\ job.tx \in Transactions
         /\ job.left = <<>>
         /\ UNCHANGED <<target, temp, edited, unseen, base, orderly>> /\ SameContents
         /\ \/ /\ report' = <<"not undone", job.tx>> /\ ~Before(job.tx)
               /\ UNCHANGED <<hit, stack, begun>>
            \/ report' = <<"undone", job.tx>> /\ Before(job.tx) /\ Undone(job.tx)
            \/ /\ report' = <<"not undone", job.tx>> /\ Before(job.tx) /\ hit'
               /\ Undone(job.tx) \/ UNCHANGED <<stack, begun>>
<1>1. /\ pc = "finish" /\ job.kind = "rollback" /\ job.tx \in Transactions /\ DiskType /\ job.left = <<>>
      /\ UNCHANGED <<target, temp, edited, unseen, base, orderly>>
  BY DEF Finish, Undone, seen, nesting, TypeInv, Steady
<1>2. /\ pc' = "idle"
      /\ \/ /\ report' = <<"not undone", job.tx>> /\ ~Before(job.tx)
            /\ UNCHANGED <<hit, stack, begun>>
         \/ report' = <<"undone", job.tx>> /\ Before(job.tx) /\ Undone(job.tx)
         \/ /\ report' = <<"not undone", job.tx>> /\ Before(job.tx) /\ hit'
            /\ Undone(job.tx) \/ UNCHANGED <<stack, begun>>
  BY DEF Finish, End, Fine, Fault, nesting
<1>3. tx' = tx \/ tx' = [tx EXCEPT ![job.tx].rolled = TRUE]
  BY DEF Finish
<1>4. CASE tx' = tx
  BY <1>1, <1>2, <1>4 DEF SameContents
<1>5. CASE tx' = [tx EXCEPT ![job.tx].rolled = TRUE]
  <2>1. SameContents
    BY <1>1, <1>5, RolledSet DEF SameContents
  <2> QED BY <1>1, <1>2, <2>1
<1> QED BY <1>3, <1>4, <1>5

LEMMA CheckEffect ==
  ASSUME TypeInv, Check
  PROVE  /\ pc = "check" /\ job.kind = "apply"
         /\ UNCHANGED <<target, tx, temp, report, edited, unseen, stack, begun, base, orderly>>
         /\ job'.kind = job.kind /\ job'.tx = job.tx /\ job'.done = job.done
         /\ pc' = "unmark" \/ ((pc' = "put" \/ pc' = "mark") /\ Ran(job.left) = Ran(job'.left) \cup {Mine})
<1>1. /\ pc = "check" /\ job.kind = "apply"
      /\ UNCHANGED <<target, tx, temp, edited, unseen, stack, begun, base, orderly>>
  BY DEF Check, disk, seen, nesting, TypeInv, Steady
<1>2. CASE Advance("put", "mark")
  BY <1>1, <1>2, AdvanceEffect, MineType
<1>3. CASE Goto("unmark")
  BY <1>1, <1>3 DEF Goto
<1> QED BY <1>2, <1>3 DEF Check

-----------------------------------------------------------------------------
(* Reports *)

\* How far an apply has come: what it replaced, and that nothing else has changed, but a
\* target whose replacement failed and that was not looked at, or could not be read.
Doubtful == unseen \cup {a \in Artifacts : pc = "inspect" /\ a = Mine}

Phase ==
  /\ pc \in {"put", "check", "mark"} =>
       /\ Artifacts \subseteq Ran(job.done) \cup Ran(job.left)
       /\ \A a \in Ran(job.done) \ edited : target[a] = tx[job.tx].payload[a]
  /\ pc = "check" => Mine \in Ran(job.done)
  /\ pc = "inspect" => \/ Mine \in edited
                        \/ target[Mine] \in {tx[job.tx].before[Mine], tx[job.tx].payload[Mine]}
  /\ pc # "idle" /\ job.kind = "apply" =>
       \A a \in Artifacts \ (Ran(job.done) \cup edited \cup Doubtful) : target[a] = tx[job.tx].before[a]

LEMMA PhaseIdle == pc' = "idle" => Phase'
  BY DEF Phase

LEMMA PhasePut == ASSUME TypeInv, Phase, Put PROVE Phase'
<1> DEFINE c == tx[job.tx].payload[Mine]
<1>1. /\ pc = "put" /\ job.kind = "apply" /\ Mine \in Artifacts
      /\ UNCHANGED <<tx, edited, unseen>>
      /\ job'.kind = job.kind /\ job'.tx = job.tx /\ job'.left = job.left
      /\ \/ /\ pc' = "check" /\ Ran(job'.done) = Ran(job.done) \cup {Mine}
            /\ target' = [target EXCEPT ![Mine] = c]
         \/ /\ pc' = "inspect" /\ job'.done = job.done
            /\ target' = target \/ target' = [target EXCEPT ![Mine] = c]
  BY PutEffect
<1>2. target \in [Artifacts -> Contents] /\ Mine' = Mine
  BY <1>1 DEF TypeInv, DiskType, Mine
<1>3. /\ \A a \in Artifacts \ {Mine} : target'[a] = target[a]
      /\ target'[Mine] = target[Mine] \/ target'[Mine] = c
      /\ pc' = "check" => target'[Mine] = c
  BY <1>1, <1>2
<1>4. \/ pc' = "check" /\ Ran(job'.done) = Ran(job.done) \cup {Mine}
      \/ pc' = "inspect" /\ job'.done = job.done
  BY <1>1
<1>5. /\ UNCHANGED <<tx, edited, unseen>> /\ job'.tx = job.tx /\ job'.left = job.left
      /\ tx'[job'.tx].payload[Mine'] = c
      /\ job.kind = "apply" /\ pc = "put"
  BY <1>1, <1>2
<1>6. /\ Artifacts \subseteq Ran(job.done) \cup Ran(job.left)
      /\ \A a \in Ran(job.done) \ edited : target[a] = tx[job.tx].payload[a]
      /\ \A a \in Artifacts \ (Ran(job.done) \cup edited \cup unseen) : target[a] = tx[job.tx].before[a]
  BY <1>5 DEF Phase, Doubtful
<1>7. Ran(job.done) \subseteq Artifacts
  BY <1>1, MineType, RanType
<1>8. pc' = "check" => Phase'
  BY <1>2, <1>3, <1>4, <1>5, <1>6, <1>7 DEF Phase, Doubtful
<1>9. ASSUME pc' = "inspect" PROVE Phase'
  <2>1. unseen = {}
    BY <1>5 DEF TypeInv, Steady
  <2>2. \/ Mine \in edited \/ target[Mine] = tx[job.tx].before[Mine] \/ target[Mine] = c
    BY <1>1, <1>6, <2>1
  <2>3. (pc = "inspect" => \/ Mine \in edited
                        \/ target[Mine] \in {tx[job.tx].before[Mine], tx[job.tx].payload[Mine]})'
    BY <1>2, <1>3, <1>5, <2>2
  <2>4. (\A a \in Artifacts \ (Ran(job.done) \cup edited \cup Doubtful) :
           target[a] = tx[job.tx].before[a])'
    BY <1>2, <1>3, <1>4, <1>5, <1>6, <1>9 DEF Doubtful
  <2> QED BY <1>9, <2>3, <2>4 DEF Phase
<1> QED BY <1>4, <1>8, <1>9

LEMMA PhaseInspect == ASSUME TypeInv, Phase, Inspect PROVE Phase'
<1>1. /\ pc = "inspect" /\ pc' = "unmark" /\ job.kind = "apply" /\ Mine \in Artifacts
      /\ UNCHANGED <<target, tx, edited>>
      /\ job'.kind = job.kind /\ job'.tx = job.tx
      /\ \/ /\ Ran(job'.done) = Ran(job.done) \cup {Mine} /\ unseen' = unseen
         \/ /\ Ran(job'.done) = Ran(job.done) /\ unseen \subseteq unseen'
            /\ target[Mine] = tx[job.tx].payload[Mine] => Mine \in unseen'
  BY InspectEffect
<1>2. /\ \/ Mine \in edited
         \/ target[Mine] \in {tx[job.tx].before[Mine], tx[job.tx].payload[Mine]}
      /\ \A a \in Artifacts \ (Ran(job.done) \cup edited \cup unseen \cup {Mine}) :
           target[a] = tx[job.tx].before[a]
  BY <1>1 DEF Phase, Doubtful
<1>3. Doubtful' = unseen'
  BY <1>1 DEF Doubtful
<1>4. \A a \in Artifacts \ (Ran(job'.done) \cup edited \cup unseen') : target[a] = tx[job.tx].before[a]
  BY <1>1, <1>2
<1> QED BY <1>1, <1>3, <1>4 DEF Phase

\* A step that leaves the targets and the locals of the operation alone.
LEMMA PhaseSame ==
  ASSUME TypeInv, Phase, pc # "idle", pc' \in {"unmark", "confirm", "take", "restore", "recheck", "finish"},
         pc # "inspect", UNCHANGED <<target, edited, unseen>>, SameContents,
         job'.kind = job.kind, job'.tx = job.tx, job'.done = job.done
  PROVE  Phase'
<1>1. job.tx \in Transactions
  BY DEF TypeInv, Steady
<1> QED BY <1>1 DEF Phase, Doubtful, SameContents

LEMMA SilentReport == report'[1] \in {"none", "staged", "incomplete", "not undone"} => ReportIsTrue'
  BY DEF ReportIsTrue

LEMMA BusyReport ==
  ASSUME TypeInv, pc # "idle", report' = report PROVE ReportIsTrue'
<1>1. report'[1] = "none"
  BY DEF TypeInv, Steady
<1> QED BY <1>1, SilentReport

LEMMA CheckPhase == ASSUME TypeInv, Phase, Check PROVE Phase' /\ ReportIsTrue'
<1>1. /\ pc = "check" /\ job.kind = "apply"
      /\ UNCHANGED <<target, tx, report, edited, unseen>>
      /\ job'.kind = job.kind /\ job'.tx = job.tx /\ job'.done = job.done
      /\ pc' = "unmark" \/ ((pc' = "put" \/ pc' = "mark") /\ Ran(job.left) = Ran(job'.left) \cup {Mine})
  BY CheckEffect
<1>2. ReportIsTrue'
  BY <1>1, BusyReport
<1>3. CASE pc' = "unmark"
  BY <1>1, <1>2, <1>3, PhaseSame DEF SameContents
<1>4. CASE (pc' = "put" \/ pc' = "mark") /\ Ran(job.left) = Ran(job'.left) \cup {Mine}
  <2>1. Artifacts \subseteq Ran(job'.done) \cup Ran(job'.left)
    BY <1>1, <1>4 DEF Phase
  <2> QED BY <1>1, <1>2, <1>4, <2>1 DEF Phase, Doubtful
<1> QED BY <1>1, <1>3, <1>4

LEMMA MarkPhase == ASSUME TypeInv, Phase, Mark PROVE Phase' /\ ReportIsTrue'
<1>1. /\ pc = "mark" /\ job.kind = "apply" /\ job.left = <<>> /\ job.tx \in Transactions
      /\ UNCHANGED <<target, edited, unseen>> /\ SameContents
      /\ \/ pc' = "idle" /\ report' = <<"applied", job.tx>>
         \/ pc' = "unmark" /\ UNCHANGED <<job, report>>
  BY MarkEffect
<1>2. CASE pc' = "idle" /\ report' = <<"applied", job.tx>>
  <2>1. \A a \in Artifacts \ edited : target[a] = tx[job.tx].payload[a]
    BY <1>1, RanEmpty DEF Phase
  <2>2. \A a \in Artifacts \ edited' : target'[a] = tx'[job.tx].payload[a]
    BY <1>1, <2>1 DEF SameContents
  <2>3. report'[1] = "applied" /\ report'[2] = job.tx
    BY <1>2
  <2>4. ReportIsTrue'
    BY <2>2, <2>3 DEF ReportIsTrue
  <2> QED BY <1>2, <2>4, PhaseIdle
<1>3. CASE pc' = "unmark" /\ UNCHANGED <<job, report>>
  BY <1>1, <1>3, PhaseSame, BusyReport
<1> QED BY <1>1, <1>2, <1>3

LEMMA ConfirmPhase == ASSUME TypeInv, Phase, Confirm PROVE Phase' /\ ReportIsTrue'
<1>1. /\ pc = "confirm" /\ job.kind = "apply" /\ pc' = "idle"
      /\ UNCHANGED <<target, tx, edited, unseen>>
      /\ \/ /\ report' = <<"restored", job.tx>>
            /\ \A a \in Ran(job.done) : target[a] = tx[job.tx].before[a]
         \/ report' = <<"incomplete", job.tx>>
  BY ConfirmEffect
<1>2. CASE /\ report' = <<"restored", job.tx>>
           /\ \A a \in Ran(job.done) : target[a] = tx[job.tx].before[a]
  <2>1. \A a \in Artifacts \ (edited \cup unseen) : target[a] = tx[job.tx].before[a]
    BY <1>1, <1>2 DEF Phase, Doubtful
  <2>2. report'[1] = "restored" /\ report'[2] = job.tx
    BY <1>2
  <2>3. ReportIsTrue'
    BY <1>1, <2>1, <2>2 DEF ReportIsTrue
  <2> QED BY <1>1, <2>3, PhaseIdle
<1>3. CASE report' = <<"incomplete", job.tx>>
  <2>1. report'[1] = "incomplete"
    BY <1>3
  <2> QED BY <1>1, <2>1, PhaseIdle, SilentReport
<1> QED BY <1>1, <1>2, <1>3

LEMMA FinishPhase == ASSUME TypeInv, Phase, Finish PROVE Phase' /\ ReportIsTrue'
<1>1. /\ pc' = "idle" /\ job.tx \in Transactions
      /\ UNCHANGED <<target, edited>> /\ SameContents
      /\ \/ report' = <<"not undone", job.tx>>
         \/ report' = <<"undone", job.tx>> /\ Before(job.tx)
  BY FinishEffect
<1>2. CASE report' = <<"undone", job.tx>> /\ Before(job.tx)
  <2>1. \A a \in Artifacts : target'[a] = tx'[job.tx].before[a]
    BY <1>1, <1>2 DEF Before, SameContents
  <2>2. report'[1] = "undone" /\ report'[2] = job.tx
    BY <1>2
  <2>3. ReportIsTrue'
    BY <1>1, <2>1, <2>2 DEF ReportIsTrue
  <2> QED BY <1>1, <2>3, PhaseIdle
<1>3. CASE report' = <<"not undone", job.tx>>
  <2>1. report'[1] = "not undone"
    BY <1>3
  <2> QED BY <1>1, <2>1, PhaseIdle, SilentReport
<1> QED BY <1>1, <1>2, <1>3

\* A restoration that failed says nothing wrong, and an apply is as far as its targets say.
LEMMA GiveUpReport ==
  ASSUME TypeInv, pc \in {"restore", "recheck"}, GiveUp PROVE ReportIsTrue'
<1>1. CASE report' = <<"not undone", job.tx>>
  <2>1. report'[1] = "not undone"
    BY <1>1
  <2> QED BY <2>1, SilentReport
<1>2. CASE report' = report
  BY <1>2, BusyReport
<1> QED BY <1>1, <1>2, GiveUpEffect

\* What the rollbacks keep: the artifacts that an apply did not replace.
Spared == pc # "idle" /\ job.kind = "apply" =>
            \A a \in Artifacts \ (Ran(job.done) \cup edited \cup unseen) :
               target[a] = tx[job.tx].before[a]

LEMMA SparedPhase == (pc' \notin {"put", "check", "mark", "inspect"} /\ Spared') => Phase'
  BY DEF Spared, Phase, Doubtful

LEMMA RestorePhase == ASSUME TypeInv, Phase, Restore PROVE Phase' /\ ReportIsTrue'
<1>0. /\ pc = "restore" /\ Mine \in Artifacts /\ job.kind \in {"apply", "rollback"}
      /\ target \in [Artifacts -> Contents]
  BY MineType DEF Restore, TypeInv, Steady, DiskType
<1>1. /\ UNCHANGED <<tx, edited, unseen>>
      /\ \/ target' = target
         \/ target' = [target EXCEPT ![Mine] = tx[job.tx].before[Mine]]
      /\ \/ pc' = "recheck" /\ job' = job /\ report' = report
         \/ GiveUp
  BY RestoreEffect
<1>2. /\ \A a \in Artifacts \ {Mine} : target'[a] = target[a]
      /\ target'[Mine] = target[Mine] \/ target'[Mine] = tx[job.tx].before[Mine]
  BY <1>0, <1>1
<1>3. job.kind = "apply" =>
        \A a \in Artifacts \ (Ran(job.done) \cup edited \cup unseen) :
           target'[a] = tx[job.tx].before[a]
  BY <1>0, <1>2 DEF Phase, Doubtful
<1>4. ReportIsTrue'
  BY <1>0, <1>1, BusyReport, GiveUpReport
<1>5. \/ pc' = "idle"
      \/ /\ job'.kind = job.kind /\ job'.tx = job.tx /\ job'.done = job.done
         /\ pc' \in {"confirm", "restore", "recheck"}
  BY <1>0, <1>1, GiveUpEffect
<1>6. CASE pc' = "idle"
  BY <1>4, <1>6, PhaseIdle
<1>7. CASE /\ job'.kind = job.kind /\ job'.tx = job.tx /\ job'.done = job.done
           /\ pc' \in {"confirm", "restore", "recheck"}
  <2>1. UNCHANGED <<tx, edited, unseen>>
    BY <1>1
  <2>2. Spared'
    BY <1>3, <1>7, <2>1 DEF Spared
  <2> QED BY <1>4, <1>7, <2>2, SparedPhase
<1> QED BY <1>5, <1>6, <1>7

LEMMA RecheckPhase == ASSUME TypeInv, Phase, Recheck PROVE Phase' /\ ReportIsTrue'
<1>1. pc = "recheck" /\ UNCHANGED <<target, tx, edited, unseen>> /\ job.kind \in {"apply", "rollback"}
  BY DEF Recheck, disk, seen, TypeInv, Steady
<1>2. GiveUp \/ Advance("restore", "confirm") \/ Advance("take", "finish")
  BY <1>1 DEF Recheck
<1>3. ReportIsTrue'
  BY <1>1, <1>2, AdvanceEffect, GiveUpReport, BusyReport
<1>4. \/ pc' = "idle"
      \/ /\ job'.kind = job.kind /\ job'.tx = job.tx /\ job'.done = job.done
         /\ pc' \in {"confirm", "restore", "take", "finish"}
  BY <1>1, <1>2, GiveUpEffect, AdvanceEffect
<1>5. CASE pc' = "idle"
  BY <1>3, <1>5, PhaseIdle
<1>6. CASE /\ job'.kind = job.kind /\ job'.tx = job.tx /\ job'.done = job.done
           /\ pc' \in {"confirm", "restore", "take", "finish"}
  BY <1>1, <1>3, <1>6, PhaseSame DEF SameContents
<1> QED BY <1>4, <1>5, <1>6

LEMMA TakePhase == ASSUME TypeInv, Phase, Take PROVE Phase' /\ ReportIsTrue'
<1>1. pc = "take" /\ UNCHANGED <<target, tx, edited, unseen>>
  BY DEF Take, disk, seen
<1>2. CASE End("not undone", job.tx)
  <2>1. pc' = "idle" /\ report'[1] = "not undone"
    BY <1>2 DEF End
  <2> QED BY <2>1, PhaseIdle, SilentReport
<1>3. CASE Advance("take", "finish") \/ Goto("restore")
  <2>1. /\ report' = report /\ pc' \in {"take", "finish", "restore"}
        /\ job'.kind = job.kind /\ job'.tx = job.tx /\ job'.done = job.done
    <3>1. CASE Advance("take", "finish")
      BY <1>1, <3>1, AdvanceEffect
    <3>2. CASE Goto("restore")
      BY <3>2 DEF Goto
    <3> QED BY <1>3, <3>1, <3>2
  <2> QED BY <1>1, <2>1, PhaseSame, BusyReport DEF SameContents
<1> QED BY <1>2, <1>3 DEF Take

LEMMA UnmarkPhase == ASSUME TypeInv, Phase, Unmark PROVE Phase' /\ ReportIsTrue'
<1>1. /\ pc = "unmark" /\ pc' \in {"confirm", "restore"}
      /\ UNCHANGED <<target, report, edited, unseen>> /\ SameContents
      /\ job'.kind = job.kind /\ job'.tx = job.tx /\ job'.done = job.done
  BY UnmarkEffect
<1> QED BY <1>1, PhaseSame, BusyReport

LEMMA EditPhase ==
  ASSUME TypeInv, Phase, ReportIsTrue, NEW a \in Artifacts, Edit(a) PROVE Phase' /\ ReportIsTrue'
<1>1. /\ UNCHANGED <<tx, pc, job, report, unseen>> /\ edited' = edited \cup {a}
      /\ \E c \in Contents : target' = [target EXCEPT ![a] = c]
  BY EditEffect
<1>2. target \in [Artifacts -> Contents]
  BY DEF TypeInv, DiskType
<1>3. \A b \in Artifacts \ {a} : target'[b] = target[b]
  BY <1>1, <1>2
<1>4. pc # "idle" => Ran(job.done) \subseteq Artifacts
  <2>1. job.done \in Seq(Artifacts)
    BY DEF TypeInv, Steady, Jobs
  <2> QED BY <2>1, RanType
<1>5. UNCHANGED <<tx, pc, job, report, unseen>> /\ edited' = edited \cup {a} /\ Mine' = Mine
  BY <1>1 DEF Mine
<1>6. pc = "inspect" => Mine \in Artifacts
  BY MineType
<1>7. Doubtful' = Doubtful
  BY <1>5 DEF Doubtful
<1>8. Phase'
  <2>1. pc' \in {"put", "check", "mark"} =>
          /\ Artifacts \subseteq Ran(job'.done) \cup Ran(job'.left)
          /\ \A b \in Ran(job'.done) \ edited' : target'[b] = tx'[job'.tx].payload[b]
    <3>1. pc \in {"put", "check", "mark"} => pc # "idle"
      OBVIOUS
    <3> QED BY <1>3, <1>4, <1>5, <3>1 DEF Phase
  <2>2. pc' = "check" => Mine' \in Ran(job'.done)
    BY <1>5 DEF Phase
  <2>3. pc' = "inspect" =>
          \/ Mine' \in edited'
          \/ target'[Mine'] \in {tx'[job'.tx].before[Mine'], tx'[job'.tx].payload[Mine']}
    BY <1>3, <1>5, <1>6 DEF Phase
  <2>4. pc' # "idle" /\ job'.kind = "apply" =>
          \A b \in Artifacts \ (Ran(job'.done) \cup edited' \cup Doubtful') :
            target'[b] = tx'[job'.tx].before[b]
    BY <1>3, <1>5, <1>7 DEF Phase
  <2> QED BY <2>1, <2>2, <2>3, <2>4 DEF Phase
<1>9. ReportIsTrue'
  BY <1>3, <1>5 DEF ReportIsTrue
<1> QED BY <1>8, <1>9

LEMMA ApplyPhase == ASSUME TypeInv, NEW t \in Transactions, Apply(t) PROVE Phase' /\ ReportIsTrue'
<1>1. /\ UNCHANGED <<target, tx>> /\ Before(t)
      /\ job'.kind = "apply" /\ job'.tx = t /\ job'.left = Plan /\ job'.done = <<>>
      /\ pc' = "put" /\ report' = <<"none", "none">>
  BY ApplyEffect
<1>2. Ran(job'.done) = {} /\ Ran(job'.left) = Artifacts
  BY <1>1, RanEmpty, PlanType
<1>3. report'[1] = "none"
  BY <1>1
<1>4. Phase'
  BY <1>1, <1>2 DEF Phase, Doubtful, Before
<1> QED BY <1>3, <1>4, SilentReport

LEMMA RollbackPhase == ASSUME TypeInv, NEW t \in Transactions, Rollback(t) PROVE Phase' /\ ReportIsTrue'
<1>1. /\ pc = "idle"
      /\ \/ job'.kind = "rollback" /\ pc' = "take" /\ report' = <<"none", "none">>
         \/ report' = <<"not undone", t>> /\ pc' = pc
  BY RollbackEffect
<1>2. CASE job'.kind = "rollback" /\ pc' = "take" /\ report' = <<"none", "none">>
  <2>1. report'[1] = "none"
    BY <1>2
  <2> QED BY <1>2, <2>1, SilentReport DEF Phase
<1>3. CASE report' = <<"not undone", t>> /\ pc' = pc
  <2>1. report'[1] = "not undone"
    BY <1>3
  <2> QED BY <1>1, <1>3, <2>1, SilentReport DEF Phase
<1> QED BY <1>1, <1>2, <1>3

LEMMA StagePhase == ASSUME TypeInv, NEW t \in Transactions, Stage(t) PROVE Phase' /\ ReportIsTrue'
<1>1. pc' = "idle" /\ (report' = <<"staged", t>> \/ report' = <<"none", "none">>)
  BY StageEffect
<1>2. report'[1] \in {"none", "staged"}
  BY <1>1
<1> QED BY <1>1, <1>2, PhaseIdle, SilentReport

LEMMA KillPhase == ASSUME Kill PROVE Phase' /\ ReportIsTrue'
<1>1. pc' = "idle" /\ report' = <<"none", "none">>
  BY DEF Kill
<1>2. report'[1] = "none"
  BY <1>1
<1> QED BY <1>1, <1>2, PhaseIdle, SilentReport

LEMMA PhaseInit == Init => Phase /\ ReportIsTrue
<1> SUFFICES ASSUME Init PROVE Phase /\ ReportIsTrue
  OBVIOUS
<1>1. pc = "idle" /\ report[1] = "none"
  BY DEF Init
<1> QED BY <1>1 DEF Phase, ReportIsTrue

LEMMA PhaseStep == TypeInv /\ Phase /\ ReportIsTrue /\ [Next]_vars => Phase' /\ ReportIsTrue'
<1> SUFFICES ASSUME TypeInv, Phase, ReportIsTrue, [Next]_vars PROVE Phase' /\ ReportIsTrue'
  OBVIOUS
<1>1. CASE UNCHANGED vars
  BY <1>1 DEF vars, disk, history, seen, Phase, Doubtful, ReportIsTrue, Mine
<1>2. ASSUME Put PROVE Phase' /\ ReportIsTrue'
  BY <1>2, PhasePut, PutEffect, BusyReport
<1>4. ASSUME Inspect PROVE Phase' /\ ReportIsTrue'
  BY <1>4, PhaseInspect, InspectEffect, BusyReport
<1>3. CASE Next
  BY <1>2, <1>3, <1>4, StagePhase, ApplyPhase, RollbackPhase, CheckPhase, MarkPhase, UnmarkPhase,
     ConfirmPhase, TakePhase, RestorePhase, RecheckPhase, FinishPhase, KillPhase, EditPhase
     DEF Next, Operation
<1> QED BY <1>1, <1>3

LEMMA PhaseAlways == Spec => [](TypeInv /\ Phase /\ ReportIsTrue)
<1>1. Spec => []TypeInv
  BY TypeInit, TypeStep, PTL DEF Spec
<1> QED BY <1>1, PhaseInit, PhaseStep, PTL DEF Spec

\* A report is true of every target that nobody else wrote since: after "applied" the
\* payloads are there, after "rolled back" the backups, however many writes and reads
\* failed; but for a target that the automatic rollback could not read after its
\* replacement had failed.
THEOREM ReportIsTrueHolds == Spec => []ReportIsTrue
  BY PhaseAlways, PTL

-----------------------------------------------------------------------------
(* Undoing: what the invariants say *)

Line == /\ \A u, t \in Transactions : On(u, t) => On(u, u) /\ On(t, t)
        /\ \A u, t, v \in Transactions : On(u, t) /\ On(t, v) => On(u, v)
        /\ \A u, t \in Transactions : On(u, t) /\ On(t, u) => u = t

\* t was begun next after u.
Under(u, t) == On(u, t) /\ u # t /\ \A v \in Transactions : On(v, t) /\ v # t => On(v, u)
Bottom(t)   == t \in Stacked /\ \A u \in Stacked : On(t, u)

\* What a stacked transaction found, the one below it found or brought, and so with the
\* last of them and the targets.
Chain == \A u, t \in Transactions : Under(u, t) =>
           \A a \in Artifacts : tx[t].before[a] \in {tx[u].before[a], tx[u].payload[a]}
Crest == \A t \in Transactions : Top(t) => \A a \in Artifacts : Known(t, a)

\* All transactions begun are stacked, and the first of them found what the base holds.
Grounded == orderly => /\ begun = {} => target = base
                       /\ \A t \in begun : On(t, t)
                       /\ \A t \in Transactions : Bottom(t) => tx[t].before = base

\* How far a rollback has come, while nobody else has written.
Unwind ==
  pc # "idle" =>
    /\ orderly => Top(job.tx)
    /\ stack # {} =>
         /\ edited = {} /\ Top(job.tx)
         /\ job.kind = "rollback" =>
              /\ \A a \in Artifacts : Known(job.tx, a)
              /\ \A a \in Artifacts \ Ran(job.left) : target[a] = tx[job.tx].before[a]
              /\ pc = "restore" => target[Mine] = tx[job.tx].payload[Mine]
              /\ pc = "recheck" => target[Mine] = tx[job.tx].before[Mine]

Excused == report[1] = "not undone" /\ Top(report[2]) /\ ~hit
             => \E a \in Artifacts : <<a, "rollback">> \in temp

UndoInv == Line /\ Chain /\ Crest /\ Grounded

\* The kinds of steps these invariants distinguish.
Stays == UNCHANGED <<target, stack, begun, base, orderly>> /\ SameContents

Writes(t, a) ==
  /\ UNCHANGED <<tx, stack, begun, base, orderly>>
  /\ stack # {} => Top(t)
  /\ orderly => Top(t)
  /\ \A b \in Artifacts \ {a} : target'[b] = target[b]
  /\ target'[a] \in {tx[t].before[a], tx[t].payload[a]}

Leaves(t) ==
  /\ UNCHANGED target /\ SameContents /\ Undone(t)
  /\ stack # {} => Before(t) /\ Top(t)

Starts(t) ==
  /\ UNCHANGED <<target, tx>> /\ Before(t) /\ begun' = begun \cup {t}
  /\ \/ On(t, t) /\ ~Top(t) /\ stack' = {<<t, t>>}
     \/ /\ ~On(t, t) \/ Top(t)
        /\ stack' = Without(t) \cup {<<u, t>> : u \in Stacked \cup {t}}
  /\ base' = IF begun = {} THEN target ELSE base
  /\ orderly' = (begun = {} \/ (orderly /\ (t \in begun => Top(t))))

Cuts(t) ==
  /\ UNCHANGED <<target, tx, begun, base>>
  /\ \A a \in Artifacts : Known(t, a)
  /\ stack' = {p \in stack : On(p[2], t)} /\ orderly' = (orderly /\ Top(t))

-----------------------------------------------------------------------------
(* Undoing: the kinds of steps *)

LEMMA StackFacts ==
  ASSUME BookType
  PROVE  /\ \A u, t : On(u, t) => u \in begun /\ t \in begun /\ u \in Transactions /\ t \in Transactions
         /\ \A t : t \in Stacked <=> On(t, t)
         /\ \A u, t : On(u, t) => stack # {}
         /\ begun = {} => stack = {}
  BY DEF BookType, On, Stacked

LEMMA TopSame ==
  ASSUME stack' = stack
  PROVE  /\ \A t : Top(t)' <=> Top(t)
         /\ \A u, t : On(u, t)' <=> On(u, t)
         /\ \A u, t : Under(u, t)' <=> Under(u, t)
         /\ \A t : Bottom(t)' <=> Bottom(t)
         /\ Stacked' = Stacked /\ (stack' # {} <=> stack # {})
  BY DEF Top, On, Stacked, Under, Bottom

LEMMA TopStack == ASSUME NEW t, Top(t) PROVE stack # {}
  BY DEF Top, On

LEMMA OneTop ==
  ASSUME Line, NEW t \in Transactions, NEW u \in Transactions, Top(t), Top(u) PROVE t = u
  BY DEF Line, Top, Stacked

LEMMA StaysUndo == ASSUME TypeInv, UndoInv, Stays PROVE UndoInv'
<1>1. /\ UNCHANGED <<target, stack, begun, base, orderly>>
      /\ \A t \in Transactions : tx'[t].before = tx[t].before /\ tx'[t].payload = tx[t].payload
      /\ Line /\ Chain /\ Crest /\ Grounded
  BY DEF Stays, SameContents, UndoInv
<1>2. Line'
  BY <1>1, TopSame DEF Line
<1>3. Chain'
  BY <1>1, TopSame DEF Chain
<1>4. Crest'
  BY <1>1, TopSame DEF Crest, Known
<1>5. Grounded'
  BY <1>1, TopSame DEF Grounded
<1> QED BY <1>2, <1>3, <1>4, <1>5 DEF UndoInv

\* A replacement or a restoration.
LEMMA WritesUndo ==
  ASSUME TypeInv, UndoInv, NEW t \in Transactions, NEW a \in Artifacts, Writes(t, a)
  PROVE  UndoInv'
<1>1. /\ UNCHANGED <<tx, stack, begun, base, orderly>>
      /\ stack # {} => Top(t)
      /\ orderly => Top(t)
      /\ \A b \in Artifacts \ {a} : target'[b] = target[b]
      /\ target'[a] \in {tx[t].before[a], tx[t].payload[a]}
      /\ Line /\ Chain /\ Crest /\ Grounded /\ BookType
  BY DEF Writes, UndoInv, TypeInv
<1>2. Line' /\ Chain'
  BY <1>1, TopSame DEF Line, Chain
<1>3. Crest'
  <2>1. ASSUME NEW u \in Transactions, Top(u)', NEW b \in Artifacts PROVE Known(u, b)'
    <3>1. Top(u) /\ u = t
      BY <1>1, <2>1, TopSame, TopStack, OneTop
    <3> QED BY <1>1, <3>1 DEF Crest, Known
  <2> QED BY <2>1 DEF Crest
<1>4. Grounded'
  <2>1. orderly => begun # {}
    BY <1>1, StackFacts DEF Top
  <2> QED BY <1>1, <2>1, TopSame DEF Grounded
<1> QED BY <1>2, <1>3, <1>4 DEF UndoInv

\* A transaction is undone.
LEMMA LeavesUndo ==
  ASSUME TypeInv, UndoInv, NEW t \in Transactions, Leaves(t) PROVE UndoInv'
<1>1. /\ UNCHANGED <<target, base, orderly>> /\ stack' = Without(t) /\ begun' = begun \ {t}
      /\ \A u \in Transactions : tx'[u].before = tx[u].before /\ tx'[u].payload = tx[u].payload
      /\ stack # {} => Before(t) /\ Top(t)
      /\ Line /\ Chain /\ Crest /\ Grounded /\ BookType /\ DiskType
  BY DEF Leaves, Undone, SameContents, UndoInv, TypeInv
<1>2. /\ \A u, v : On(u, v)' <=> On(u, v) /\ u # t /\ v # t
      /\ Stacked' = Stacked \ {t}
  BY <1>1 DEF On, Stacked, Without
<1>3. ASSUME NEW u \in Stacked PROVE On(u, t) /\ u \in Transactions /\ (On(t, u) => u = t)
  <2>1. u \in Transactions /\ On(u, u)
    BY DEF Stacked
  <2>2. Top(t)
    BY <1>1, <2>1, StackFacts
  <2> QED BY <1>1, <2>1, <2>2 DEF Top, Line
<1>4. Line'
  BY <1>1, <1>2 DEF Line
<1>5. Chain'
  <2>1. ASSUME NEW u \in Transactions, NEW v \in Transactions, Under(u, v)' PROVE Under(u, v)
    <3>1. On(u, v) /\ u # t /\ v # t /\ u # v
      BY <1>2, <2>1 DEF Under
    <3>2. ~On(t, v)
      BY <1>1, <1>3, <3>1 DEF Line, Stacked
    <3> QED BY <1>2, <2>1, <3>1, <3>2 DEF Under
  <2> QED BY <1>1, <2>1 DEF Chain
<1>6. Crest'
  <2>1. ASSUME NEW u \in Transactions, Top(u)', NEW a \in Artifacts PROVE Known(u, a)'
    <3>1. On(u, u) /\ u # t /\ u \in Stacked /\ \A v \in Stacked \ {t} : On(v, u)
      BY <1>2, <2>1 DEF Top, Stacked
    <3>2. \A v \in Transactions : On(v, t) /\ v # t => v \in Stacked
      BY <1>1 DEF Line, Stacked
    <3>3. Under(u, t)
      BY <1>3, <3>1, <3>2 DEF Under
    <3>4. Before(t)
      BY <1>1, <3>1, StackFacts
    <3>5. tx[t].before[a] \in {tx[u].before[a], tx[u].payload[a]} /\ target[a] = tx[t].before[a]
      BY <1>1, <3>3, <3>4 DEF Chain, Before
    <3> QED BY <1>1, <3>5 DEF Known
  <2> QED BY <2>1 DEF Crest
<1>7. Grounded'
  <2> SUFFICES ASSUME orderly PROVE /\ begun' = {} => target = base
                                    /\ \A v \in begun' : On(v, v)'
                                    /\ \A v \in Transactions : Bottom(v)' => tx'[v].before = base
    BY <1>1 DEF Grounded
  <2>1. /\ begun = {} => target = base
        /\ \A v \in begun : On(v, v)
        /\ \A v \in Transactions : Bottom(v) => tx[v].before = base
    BY <1>1 DEF Grounded
  <2>2. ASSUME begun' = {} PROVE target = base
    <3>1. CASE t \notin begun
      BY <1>1, <2>1, <2>2, <3>1
    <3>2. CASE t \in begun
      <4>1. On(t, t) /\ Before(t)
        BY <1>1, <2>1, <3>2, StackFacts
      <4>2. Bottom(t)
        BY <1>1, <2>2, <4>1, StackFacts DEF Bottom
      <4>3. tx[t].before \in [Artifacts -> Contents] /\ target \in [Artifacts -> Contents]
        BY <1>1 DEF DiskType, Directory
      <4>4. target = tx[t].before
        BY <4>1, <4>3 DEF Before
      <4> QED BY <2>1, <4>2, <4>4
    <3> QED BY <3>1, <3>2
  <2>3. \A v \in begun' : On(v, v)'
    BY <1>1, <1>2, <2>1
  <2>4. ASSUME NEW v \in Transactions, Bottom(v)' PROVE Bottom(v)
    BY <1>2, <1>3, <2>4 DEF Bottom
  <2> QED BY <1>1, <2>1, <2>2, <2>3, <2>4
<1> QED BY <1>4, <1>5, <1>6, <1>7 DEF UndoInv

\* A transaction is applied, on top of the others or again.
LEMMA StartsUndo ==
  ASSUME TypeInv, UndoInv, NEW t \in Transactions, Starts(t) PROVE UndoInv'
<1>1. /\ UNCHANGED <<target, tx>> /\ Before(t) /\ begun' = begun \cup {t}
      /\ base' = IF begun = {} THEN target ELSE base
      /\ orderly' = (begun = {} \/ (orderly /\ (t \in begun => Top(t))))
      /\ \/ On(t, t) /\ ~Top(t) /\ stack' = {<<t, t>>}
         \/ /\ ~On(t, t) \/ Top(t)
            /\ stack' = Without(t) \cup {<<u, t>> : u \in Stacked \cup {t}}
      /\ Line /\ Chain /\ Crest /\ Grounded /\ BookType /\ DiskType
  BY DEF Starts, UndoInv, TypeInv
<1>2. \A a \in Artifacts : Known(t, a)'
  BY <1>1 DEF Known, Before
<1>3. CASE On(t, t) /\ ~Top(t) /\ stack' = {<<t, t>>}
  <2>1. /\ \A u, v : On(u, v)' <=> u = t /\ v = t
        /\ \A u : u \in Stacked' => u = t
    BY <1>3 DEF On, Stacked
  <2>2. Line'
    BY <2>1 DEF Line
  <2>3. Chain'
    <3>1. \A u, v \in Transactions : ~Under(u, v)'
      BY <2>1 DEF Under
    <3> QED BY <3>1 DEF Chain
  <2>4. Crest'
    BY <1>2, <2>1 DEF Crest, Top
  <2>5. Grounded'
    <3>1. t \in begun
      BY <1>1, <1>3, StackFacts
    <3>2. ~orderly'
      BY <1>1, <1>3, <3>1
    <3> QED BY <3>2 DEF Grounded
  <2> QED BY <2>2, <2>3, <2>4, <2>5 DEF UndoInv
<1>4. CASE /\ ~On(t, t) \/ Top(t)
           /\ stack' = Without(t) \cup {<<u, t>> : u \in Stacked \cup {t}}
  <2>1. /\ \A u, v : On(u, v)' <=> \/ On(u, v) /\ u # t /\ v # t
                                   \/ v = t /\ (u = t \/ u \in Stacked)
        /\ Stacked' = Stacked \cup {t}
    <3>1. \A u, v : On(u, v)' <=> \/ On(u, v) /\ u # t /\ v # t
                                  \/ v = t /\ (u = t \/ u \in Stacked)
      BY <1>4 DEF On, Without
    <3> QED BY <3>1 DEF Stacked
  <2>2. \A u : u \in Stacked <=> u \in Transactions /\ On(u, u)
    BY DEF Stacked
  <2>3. \A v \in Transactions : On(t, v) => v = t
    <3>1. ASSUME NEW v \in Transactions, On(t, v) PROVE v = t
      <4>1. On(t, t) /\ v \in Stacked
        BY <1>1, <3>1 DEF Line, Stacked
      <4> QED BY <1>1, <1>4, <3>1, <4>1 DEF Top, Line
    <3> QED BY <3>1
  <2>4. Line'
    <3>1. ASSUME NEW u \in Transactions, NEW v \in Transactions, On(u, v)'
          PROVE  On(u, u)' /\ On(v, v)'
      BY <1>1, <2>1, <2>2, <3>1 DEF Line
    <3>2. ASSUME NEW u \in Transactions, NEW v \in Transactions, NEW w \in Transactions,
                 On(u, v)', On(v, w)'
          PROVE  On(u, w)'
      BY <1>1, <2>1, <2>2, <3>2 DEF Line
    <3>3. ASSUME NEW u \in Transactions, NEW v \in Transactions, On(u, v)', On(v, u)'
          PROVE  u = v
      BY <1>1, <2>1, <2>2, <3>3 DEF Line
    <3> QED BY <3>1, <3>2, <3>3 DEF Line
  <2>5. Chain'
    <3> SUFFICES ASSUME NEW u \in Transactions, NEW v \in Transactions, Under(u, v)', NEW a \in Artifacts
                 PROVE  tx[v].before[a] \in {tx[u].before[a], tx[u].payload[a]}
      BY <1>1 DEF Chain
    <3>1. On(u, v)' /\ u # v /\ \A w \in Transactions : On(w, v)' /\ w # v => On(w, u)'
      BY DEF Under
    <3>2. CASE v # t
      <4>1. On(u, v) /\ u # t
        BY <2>1, <3>1, <3>2
      <4>2. ASSUME NEW w \in Transactions, On(w, v), w # v PROVE On(w, u)
        <5>1. w # t
          BY <2>3, <3>2, <4>2
        <5>2. On(w, v)'
          BY <2>1, <3>2, <4>2, <5>1
        <5> QED BY <2>1, <3>1, <4>1, <4>2, <5>2
      <4>3. Under(u, v)
        BY <3>1, <4>1, <4>2 DEF Under
      <4> QED BY <1>1, <4>3 DEF Chain
    <3>3. CASE v = t
      <4>1. u # t /\ u \in Stacked /\ \A w \in Stacked : w # t => On(w, u)
        <5>1. u # t /\ u \in Stacked
          BY <2>1, <3>1, <3>3
        <5>2. ASSUME NEW w \in Stacked, w # t PROVE On(w, u)
          BY <2>1, <2>2, <3>1, <3>3, <5>1, <5>2
        <5> QED BY <5>1, <5>2
      <4>2. CASE On(t, t)
        <5>1. Top(t)
          BY <1>4, <4>2
        <5>2. Under(u, t)
          BY <1>1, <2>2, <4>1, <5>1 DEF Under, Top, Line
        <5> QED BY <1>1, <3>3, <5>2 DEF Chain
      <4>3. CASE ~On(t, t)
        <5>1. Top(u)
          BY <2>2, <4>1, <4>3 DEF Top
        <5>2. Known(u, a) /\ target[a] = tx[t].before[a]
          BY <1>1, <5>1 DEF Crest, Before
        <5> QED BY <3>3, <5>2 DEF Known
      <4> QED BY <4>2, <4>3
    <3> QED BY <3>2, <3>3
  <2>6. Crest'
    <3>1. ASSUME NEW u \in Transactions, Top(u)' PROVE u = t
      <4>1. On(t, u)'
        BY <2>1, <3>1 DEF Top
      <4> QED BY <2>1, <4>1
    <3> QED BY <1>2, <3>1 DEF Crest
  <2>7. Grounded'
    <3> SUFFICES ASSUME orderly' PROVE /\ \A v \in begun' : On(v, v)'
                                       /\ \A v \in Transactions : Bottom(v)' => tx[v].before = base'
      BY <1>1 DEF Grounded
    <3>1. tx[t].before \in [Artifacts -> Contents] /\ target \in [Artifacts -> Contents]
      BY <1>1 DEF DiskType, Directory
    <3>2. target = tx[t].before
      BY <1>1, <3>1 DEF Before
    <3>3. CASE begun = {}
      <4>1. Stacked = {}
        BY <1>1, <3>3, StackFacts
      <4>2. \A v : Bottom(v)' => v = t
        BY <2>1, <4>1 DEF Bottom
      <4> QED BY <1>1, <2>1, <3>2, <3>3, <4>2
    <3>4. CASE begun # {}
      <4>1. /\ orderly /\ (t \in begun => Top(t)) /\ base' = base
            /\ \A v \in begun : On(v, v)
            /\ \A v \in Transactions : Bottom(v) => tx[v].before = base
        BY <1>1, <3>4 DEF Grounded
      <4>2. \A v \in begun' : On(v, v)'
        BY <1>1, <2>1, <4>1
      <4>3. ASSUME NEW v \in Transactions, Bottom(v)' PROVE Bottom(v)
        <5>1. CASE v # t
          <6>1. v \in Stacked /\ \A u \in Stacked \ {t} : On(v, u)
            BY <2>1, <4>3, <5>1 DEF Bottom
          <6>2. t \in Stacked => On(v, t)
            BY <1>4, <2>2, <6>1 DEF Top
          <6> QED BY <6>1, <6>2 DEF Bottom
        <5>2. CASE v = t
          <6>1. \A u \in Stacked : u = t
            BY <2>1, <4>3, <5>2 DEF Bottom
          <6>2. PICK w \in begun : On(w, w)
            BY <3>4, <4>1
          <6>3. w \in Stacked /\ w = t
            BY <1>1, <6>1, <6>2, StackFacts
          <6> QED BY <5>2, <6>1, <6>2, <6>3 DEF Bottom
        <5> QED BY <5>1, <5>2
      <4> QED BY <4>1, <4>2, <4>3
    <3> QED BY <3>3, <3>4
  <2> QED BY <2>4, <2>5, <2>6, <2>7 DEF UndoInv
<1> QED BY <1>1, <1>3, <1>4

\* A rollback begins: what was begun after its transaction leaves the stack.
LEMMA CutsUndo ==
  ASSUME TypeInv, UndoInv, NEW t \in Transactions, Cuts(t) PROVE UndoInv'
<1>1. /\ UNCHANGED <<target, tx, begun, base>> /\ orderly' = (orderly /\ Top(t))
      /\ \A a \in Artifacts : Known(t, a)
      /\ stack' = {p \in stack : On(p[2], t)}
      /\ Line /\ Chain /\ Crest /\ Grounded /\ BookType
  BY DEF Cuts, UndoInv, TypeInv
<1>2. /\ \A u, v : On(u, v)' <=> On(u, v) /\ On(v, t)
      /\ Stacked' = {u \in Stacked : On(u, t)}
  <2>1. \A u, v : On(u, v)' <=> On(u, v) /\ On(v, t)
    BY <1>1 DEF On
  <2> QED BY <2>1 DEF Stacked
<1>3. Line'
  BY <1>1, <1>2 DEF Line
<1>4. Chain'
  <2>1. \A u, v \in Transactions : Under(u, v)' => Under(u, v)
    BY <1>1, <1>2 DEF Under, Line
  <2> QED BY <1>1, <2>1 DEF Chain
<1>5. Crest'
  <2>1. ASSUME NEW u \in Transactions, Top(u)' PROVE u = t
    <3>1. On(u, t) /\ On(t, t)
      BY <1>1, <1>2, <2>1 DEF Top, Line
    <3>2. On(t, u)'
      BY <1>2, <2>1, <3>1 DEF Top, Stacked
    <3> QED BY <1>1, <1>2, <3>1, <3>2 DEF Line
  <2> QED BY <1>1, <2>1 DEF Crest, Known
<1>6. Grounded'
  <2>1. ASSUME Top(t) PROVE stack' = stack
    <3>1. ASSUME NEW p \in stack PROVE On(p[2], t)
      <4>1. p \in begun \X begun /\ begun \subseteq Transactions
        BY <1>1, <3>1 DEF BookType
      <4>2. p = <<p[1], p[2]>> /\ p[1] \in Transactions /\ p[2] \in Transactions
        BY <4>1
      <4>3. On(p[1], p[2])
        BY <3>1, <4>2 DEF On
      <4>4. p[2] \in Stacked
        BY <1>1, <4>2, <4>3 DEF Line, Stacked
      <4> QED BY <2>1, <4>4 DEF Top
    <3> QED BY <1>1, <3>1
  <2> QED BY <1>1, <2>1, TopSame DEF Grounded
<1> QED BY <1>3, <1>4, <1>5, <1>6 DEF UndoInv

LEMMA StageUndo ==
  ASSUME TypeInv, UndoInv, NEW t \in Transactions, Stage(t) PROVE UndoInv'
<1>1. /\ UNCHANGED <<target, stack, begun, base, orderly>> /\ tx[t].state = "none"
      /\ \A u \in Transactions \ {t} : tx'[u] = tx[u]
      /\ Line /\ Chain /\ Crest /\ Grounded /\ BookType /\ Markers
  BY StageEffect DEF UndoInv, TypeInv
<1>2. \A u, v : On(u, v) => tx'[u] = tx[u] /\ tx'[v] = tx[v]
  <2>1. t \notin begun
    BY <1>1 DEF Markers
  <2> QED BY <1>1, <2>1, StackFacts
<1>3. Line'
  BY <1>1, TopSame DEF Line
<1>4. Chain'
  <2>1. \A u, v : Under(u, v) => On(u, v)
    BY DEF Under
  <2> QED BY <1>1, <1>2, <2>1, TopSame DEF Chain
<1>5. Crest'
  <2>1. \A u : Top(u) => On(u, u)
    BY DEF Top
  <2> QED BY <1>1, <1>2, <2>1, TopSame DEF Crest, Known
<1>6. Grounded'
  <2>1. \A u : Bottom(u) => On(u, u)
    BY DEF Bottom
  <2> QED BY <1>1, <1>2, <2>1, TopSame DEF Grounded
<1> QED BY <1>3, <1>4, <1>5, <1>6 DEF UndoInv

LEMMA EditUndo ==
  ASSUME TypeInv, UndoInv, NEW a \in Artifacts, Edit(a) PROVE UndoInv'
<1>1. UNCHANGED <<tx, begun>> /\ stack' = {} /\ orderly' = (orderly /\ begun = {}) /\ Grounded
  BY EditEffect DEF UndoInv
<1>2. PICK c \in Contents : /\ target' = [target EXCEPT ![a] = c]
                            /\ base' = IF begun = {} THEN [base EXCEPT ![a] = c] ELSE base
  BY EditEffect
<1>3. Stacked' = {} /\ \A u, v : ~On(u, v)'
  BY <1>1 DEF On, Stacked
<1>4. Line' /\ Chain' /\ Crest'
  BY <1>3 DEF Line, Chain, Crest, Under, Top
<1>5. Grounded'
  BY <1>1, <1>2, <1>3 DEF Grounded, Bottom
<1> QED BY <1>4, <1>5 DEF UndoInv

-----------------------------------------------------------------------------
(* Undoing: the steps *)

Undoing == UndoInv /\ Unwind /\ Excused

LEMMA UnwindIdle == pc' = "idle" => Unwind'
  BY DEF Unwind

LEMMA SilentExcused == report'[1] # "not undone" => Excused'
  BY DEF Excused

LEMMA FaultHits == Fault => hit'
  BY DEF Fault

LEMMA Busy ==
  ASSUME TypeInv, pc # "idle"
  PROVE  /\ job.tx \in Transactions /\ job.kind \in {"apply", "rollback"}
         /\ report' = report => Excused'
<1>1. job.tx \in Transactions /\ job.kind \in {"apply", "rollback"} /\ report[1] = "none"
  BY DEF TypeInv, Steady
<1> QED BY <1>1, SilentExcused

\* An apply goes on, with the stack and the edits as they were.
LEMMA UnwindApply ==
  ASSUME TypeInv, Unwind, pc # "idle", job.kind = "apply", job'.kind = job.kind, job'.tx = job.tx,
         UNCHANGED <<edited, stack, orderly>>
  PROVE  Unwind'
  BY TopSame DEF Unwind

LEMMA PutUndo == ASSUME TypeInv, Undoing, Put PROVE Undoing'
<1> DEFINE t == job.tx
<1>1. /\ pc = "put" /\ job.kind = "apply" /\ Mine \in Artifacts
      /\ UNCHANGED <<tx, report, edited, stack, begun, base, orderly>>
      /\ job'.kind = job.kind /\ job'.tx = job.tx
      /\ \/ target' = target
         \/ target' = [target EXCEPT ![Mine] = tx[t].payload[Mine]]
  BY PutEffect
<1>2. t \in Transactions /\ target \in [Artifacts -> Contents] /\ UndoInv /\ Unwind
  BY <1>1, Busy DEF TypeInv, DiskType, Undoing
<1>3. Unwind' /\ Excused'
  BY <1>1, <1>2, UnwindApply, Busy
<1>4. CASE target' = target
  BY <1>1, <1>2, <1>3, <1>4, StaysUndo DEF Stays, SameContents, Undoing
<1>5. CASE target' = [target EXCEPT ![Mine] = tx[t].payload[Mine]]
  <2>1. /\ \A b \in Artifacts \ {Mine} : target'[b] = target[b]
        /\ target'[Mine] = tx[t].payload[Mine]
    BY <1>1, <1>2, <1>5
  <2>2. (stack # {} => Top(t)) /\ (orderly => Top(t))
    BY <1>1, <1>2 DEF Unwind
  <2>3. Writes(t, Mine)
    BY <1>1, <2>1, <2>2 DEF Writes
  <2>4. PICK a \in Artifacts, u \in Transactions : a = Mine /\ u = t
    BY <1>1, <1>2
  <2>5. UndoInv'
    BY <1>2, <2>3, <2>4, WritesUndo
  <2> QED BY <1>3, <2>5 DEF Undoing
<1> QED BY <1>1, <1>4, <1>5

LEMMA InspectUndo == ASSUME TypeInv, Undoing, Inspect PROVE Undoing'
<1>1. /\ pc = "inspect" /\ job.kind = "apply"
      /\ UNCHANGED <<target, tx, report, edited, stack, begun, base, orderly>>
      /\ job'.kind = job.kind /\ job'.tx = job.tx
  BY InspectEffect
<1>2. Stays
  BY <1>1 DEF Stays, SameContents
<1> QED BY <1>1, <1>2, StaysUndo, UnwindApply, Busy DEF Undoing

LEMMA CheckUndo == ASSUME TypeInv, Undoing, Check PROVE Undoing'
<1>1. /\ pc = "check" /\ job.kind = "apply"
      /\ UNCHANGED <<target, tx, report, edited, stack, begun, base, orderly>>
      /\ job'.kind = job.kind /\ job'.tx = job.tx
  BY CheckEffect
<1>2. Stays
  BY <1>1 DEF Stays, SameContents
<1> QED BY <1>1, <1>2, StaysUndo, UnwindApply, Busy DEF Undoing

LEMMA MarkUndo == ASSUME TypeInv, Undoing, Mark PROVE Undoing'
<1>1. /\ pc = "mark" /\ job.kind = "apply"
      /\ UNCHANGED <<target, edited, stack, begun, base, orderly>> /\ SameContents
      /\ \/ pc' = "idle" /\ report' = <<"applied", job.tx>>
         \/ UNCHANGED <<job, report>>
  BY MarkEffect
<1>2. UndoInv'
  BY <1>1, StaysUndo DEF Stays, Undoing
<1>3. CASE pc' = "idle" /\ report' = <<"applied", job.tx>>
  <2>1. report'[1] = "applied"
    BY <1>3
  <2> QED BY <1>2, <1>3, <2>1, UnwindIdle, SilentExcused DEF Undoing
<1>4. CASE UNCHANGED <<job, report>>
  BY <1>1, <1>2, <1>4, UnwindApply, Busy DEF Undoing
<1> QED BY <1>1, <1>3, <1>4

LEMMA UnmarkUndo == ASSUME TypeInv, Undoing, Unmark PROVE Undoing'
<1>1. /\ pc = "unmark" /\ job.kind = "apply"
      /\ UNCHANGED <<target, report, edited, stack, begun, base, orderly>> /\ SameContents
      /\ job'.kind = job.kind /\ job'.tx = job.tx
  BY UnmarkEffect
<1>2. Stays
  BY <1>1 DEF Stays
<1> QED BY <1>1, <1>2, StaysUndo, UnwindApply, Busy DEF Undoing

LEMMA ConfirmUndo == ASSUME TypeInv, Phase, Undoing, Confirm PROVE Undoing'
<1> DEFINE t == job.tx
<1>1. /\ pc = "confirm" /\ job.kind = "apply" /\ pc' = "idle" /\ t \in Transactions
      /\ UNCHANGED <<target, tx, edited, base, orderly>>
      /\ \/ /\ report' = <<"restored", t>>
            /\ \A a \in Ran(job.done) : target[a] = tx[t].before[a]
            /\ \/ unseen = {} /\ Undone(t)
               \/ UNCHANGED <<stack, begun>>
         \/ report' = <<"incomplete", t>> /\ UNCHANGED <<stack, begun>>
  BY ConfirmEffect
<1>2. SameContents /\ UndoInv /\ Unwind
  BY <1>1 DEF SameContents, Undoing
<1>3. UndoInv'
  <2>1. CASE UNCHANGED <<stack, begun>>
    BY <1>1, <1>2, <2>1, StaysUndo DEF Stays
  <2>2. CASE /\ unseen = {} /\ Undone(t)
             /\ \A a \in Ran(job.done) : target[a] = tx[t].before[a]
    <3>1. \A a \in Artifacts \ edited : target[a] = tx[t].before[a]
      BY <1>1, <2>2 DEF Phase, Doubtful
    <3>2. stack # {} => Before(t) /\ Top(t)
      BY <1>1, <1>2, <3>1 DEF Unwind, Before
    <3>3. Leaves(t)
      BY <1>1, <1>2, <2>2, <3>2 DEF Leaves
    <3>4. PICK u \in Transactions : u = t
      BY <1>1
    <3> QED BY <1>2, <3>3, <3>4, LeavesUndo
  <2> QED BY <1>1, <2>1, <2>2
<1>4. report'[1] # "not undone"
  <2>1. CASE report' = <<"restored", t>>
    BY <2>1
  <2>2. CASE report' = <<"incomplete", t>>
    BY <2>2
  <2> QED BY <1>1, <2>1, <2>2
<1> QED BY <1>1, <1>3, <1>4, UnwindIdle, SilentExcused DEF Undoing

LEMMA TakeUndo == ASSUME TypeInv, Undoing, Take PROVE Undoing'
<1>1. /\ pc = "take" /\ job.kind = "rollback" /\ Mine \in Artifacts
      /\ UNCHANGED <<target, tx, edited, stack, begun, base, orderly>> /\ SameContents
  BY MineType DEF Take, disk, seen, nesting, SameContents, TypeInv, Steady
<1>2. UndoInv' /\ UndoInv /\ Unwind
  BY <1>1, StaysUndo DEF Stays, Undoing
<1>3. CASE target[Mine] = tx[job.tx].before[Mine] /\ Advance("take", "finish")
  <2>1. /\ job'.kind = job.kind /\ job'.tx = job.tx /\ report' = report
        /\ Ran(job.left) = Ran(job'.left) \cup {Mine} /\ pc' \in {"take", "finish"}
    BY <1>1, <1>3, AdvanceEffect, MineType
  <2>2. Unwind'
    BY <1>1, <1>2, <1>3, <2>1, TopSame DEF Unwind, Known
  <2> QED BY <1>1, <1>2, <2>1, <2>2, Busy DEF Undoing
<1>4. CASE target[Mine] # tx[job.tx].before[Mine] /\ Goto("restore")
  <2>1. pc' = "restore" /\ job' = job /\ report' = report /\ Mine' = Mine
    BY <1>4 DEF Goto, Mine
  <2>2. stack # {} => target[Mine] = tx[job.tx].payload[Mine]
    BY <1>1, <1>2, <1>4 DEF Unwind, Known
  <2>3. Unwind'
    BY <1>1, <1>2, <2>1, <2>2, TopSame DEF Unwind, Known
  <2> QED BY <1>1, <1>2, <2>1, <2>3, Busy DEF Undoing
<1>5. CASE Fault /\ End("not undone", job.tx)
  <2>1. pc' = "idle" /\ Excused'
    BY <1>5, FaultHits DEF End, Excused
  <2> QED BY <1>2, <2>1, UnwindIdle DEF Undoing
<1> QED BY <1>3, <1>4, <1>5 DEF Take, Skip

LEMMA RestoreUndo == ASSUME TypeInv, Undoing, Restore PROVE Undoing'
<1> DEFINE t == job.tx
<1>0. /\ pc = "restore" /\ Mine \in Artifacts /\ t \in Transactions
      /\ job.kind \in {"apply", "rollback"}
      /\ target \in [Artifacts -> Contents] /\ UndoInv /\ Unwind
  BY MineType, Busy DEF Restore, TypeInv, DiskType, Undoing
<1>1. /\ UNCHANGED <<tx, edited, stack, begun, base, orderly>> /\ SameContents
      /\ temp \subseteq temp'
      /\ \/ target' = target
         \/ /\ target[Mine] = tx[t].payload[Mine]
            /\ target' = [target EXCEPT ![Mine] = tx[t].before[Mine]]
      /\ \/ /\ pc' = "recheck" /\ job' = job /\ report' = report
            /\ target' = [target EXCEPT ![Mine] = tx[t].before[Mine]]
         \/ GiveUp /\ (\/ job.kind = "apply" \/ Fault
                       \/ target[Mine] # tx[t].payload[Mine]
                       \/ <<Mine, "rollback">> \in temp)
  BY RestoreEffect DEF SameContents
<1>2. \/ target' = target
      \/ /\ target[Mine] = tx[t].payload[Mine] /\ target'[Mine] = tx[t].before[Mine]
         /\ \A b \in Artifacts \ {Mine} : target'[b] = target[b]
  BY <1>0, <1>1
<1>3. UndoInv'
  <2>1. CASE target' = target
    BY <1>0, <1>1, <2>1, StaysUndo DEF Stays
  <2>2. CASE /\ target'[Mine] = tx[t].before[Mine]
             /\ \A b \in Artifacts \ {Mine} : target'[b] = target[b]
    <3>1. (stack # {} => Top(t)) /\ (orderly => Top(t))
      BY <1>0 DEF Unwind
    <3>2. Writes(t, Mine)
      BY <1>1, <2>2, <3>1 DEF Writes
    <3>3. PICK a \in Artifacts, u \in Transactions : a = Mine /\ u = t
      BY <1>0
    <3> QED BY <1>0, <3>2, <3>3, WritesUndo
  <2> QED BY <1>2, <2>1, <2>2
<1>4. CASE /\ pc' = "recheck" /\ job' = job /\ report' = report
           /\ target' = [target EXCEPT ![Mine] = tx[t].before[Mine]]
  <2>1. /\ target'[Mine] = tx[t].before[Mine] /\ Mine' = Mine
        /\ \A b \in Artifacts \ {Mine} : target'[b] = target[b]
    BY <1>0, <1>4 DEF Mine
  <2>2. Unwind'
    BY <1>0, <1>1, <1>4, <2>1, TopSame DEF Unwind, Known
  <2> QED BY <1>0, <1>3, <1>4, <2>2, Busy DEF Undoing
<1>5. CASE GiveUp /\ (\/ job.kind = "apply" \/ Fault
                      \/ target[Mine] # tx[t].payload[Mine]
                      \/ <<Mine, "rollback">> \in temp)
  <2>1. CASE job.kind = "apply"
    <3>1. report' = report /\ job'.kind = job.kind /\ job'.tx = job.tx
      BY <1>0, <1>5, <2>1, GiveUpEffect
    <3> QED BY <1>0, <1>1, <1>3, <2>1, <3>1, UnwindApply, Busy DEF Undoing
  <2>2. CASE job.kind = "rollback"
    <3>1. pc' = "idle" /\ report' = <<"not undone", t>>
      BY <1>0, <1>5, <2>2, GiveUpEffect
    <3>2. report'[2] = t
      BY <3>1
    <3>3. ASSUME Top(report[2])', ~hit' PROVE \E a \in Artifacts : <<a, "rollback">> \in temp'
      <4>1. stack # {}
        BY <1>1, <3>2, <3>3, TopSame, TopStack
      <4>2. target[Mine] = tx[t].payload[Mine] /\ ~Fault
        BY <1>0, <2>2, <3>3, <4>1, FaultHits DEF Unwind
      <4> QED BY <1>0, <1>1, <1>5, <2>2, <4>2
    <3>4. Excused'
      BY <3>3 DEF Excused
    <3> QED BY <1>3, <3>1, <3>4, UnwindIdle DEF Undoing
  <2> QED BY <1>0, <2>1, <2>2
<1> QED BY <1>1, <1>4, <1>5

LEMMA RecheckUndo == ASSUME TypeInv, Undoing, Recheck PROVE Undoing'
<1> DEFINE t == job.tx
<1>1. /\ pc = "recheck" /\ Mine \in Artifacts /\ job.kind \in {"apply", "rollback"}
      /\ UNCHANGED <<target, tx, edited, stack, begun, base, orderly>> /\ SameContents
      /\ UndoInv /\ Unwind
  BY MineType DEF Recheck, disk, seen, nesting, SameContents, TypeInv, Steady, Undoing
<1>2. UndoInv'
  BY <1>1, StaysUndo DEF Stays
<1>3. CASE (Fault \/ target[Mine] # tx[t].before[Mine]) /\ GiveUp
  <2>1. CASE job.kind = "apply"
    <3>1. report' = report /\ job'.kind = job.kind /\ job'.tx = job.tx
      BY <1>1, <1>3, <2>1, GiveUpEffect
    <3> QED BY <1>1, <1>2, <2>1, <3>1, UnwindApply, Busy DEF Undoing
  <2>2. CASE job.kind = "rollback"
    <3>1. pc' = "idle"
      BY <1>1, <1>3, <2>2, GiveUpEffect
    <3>2. Fault \/ stack = {}
      BY <1>1, <1>3, <2>2 DEF Unwind
    <3>3. Excused'
      BY <1>1, <3>2, TopSame, TopStack, FaultHits DEF Excused
    <3> QED BY <1>2, <3>1, <3>3, UnwindIdle DEF Undoing
  <2> QED BY <1>1, <2>1, <2>2
<1>4. CASE job.kind = "apply" /\ Advance("restore", "confirm")
  BY <1>1, <1>2, <1>4, AdvanceEffect, UnwindApply, Busy DEF Undoing
<1>5. CASE target[Mine] = tx[t].before[Mine] /\ job.kind = "rollback" /\ Advance("take", "finish")
  <2>1. /\ job'.kind = job.kind /\ job'.tx = job.tx /\ report' = report
        /\ Ran(job.left) = Ran(job'.left) \cup {Mine} /\ pc' \in {"take", "finish"}
    BY <1>1, <1>5, AdvanceEffect, MineType
  <2>2. Unwind'
    BY <1>1, <1>5, <2>1, TopSame DEF Unwind, Known
  <2> QED BY <1>1, <1>2, <2>1, <2>2, Busy DEF Undoing
<1> QED BY <1>1, <1>3, <1>4, <1>5 DEF Recheck

LEMMA FinishUndo == ASSUME TypeInv, Undoing, Finish PROVE Undoing'
<1> DEFINE t == job.tx
<1>1. /\ pc = "finish" /\ job.kind = "rollback" /\ pc' = "idle" /\ t \in Transactions
      /\ job.left = <<>>
      /\ UNCHANGED <<target, edited, base, orderly>> /\ SameContents
      /\ \/ report' = <<"not undone", t>> /\ ~Before(t) /\ UNCHANGED <<hit, stack, begun>>
         \/ report' = <<"undone", t>> /\ Before(t) /\ Undone(t)
         \/ /\ report' = <<"not undone", t>> /\ Before(t) /\ hit'
            /\ Undone(t) \/ UNCHANGED <<stack, begun>>
  BY FinishEffect
<1>2. UndoInv /\ Unwind
  BY DEF Undoing
<1>3. ASSUME Before(t), Undone(t) PROVE UndoInv'
  <2>1. Leaves(t)
    BY <1>1, <1>2, <1>3 DEF Leaves, Unwind
  <2>2. PICK u \in Transactions : u = t
    BY <1>1
  <2> QED BY <1>2, <2>1, <2>2, LeavesUndo
<1>4. ASSUME UNCHANGED <<stack, begun>> PROVE UndoInv'
  BY <1>1, <1>2, <1>4, StaysUndo DEF Stays
<1>5. UndoInv'
  BY <1>1, <1>3, <1>4
<1>6. CASE report' = <<"not undone", t>> /\ ~Before(t) /\ UNCHANGED <<hit, stack, begun>>
  <2>1. stack = {}
    BY <1>1, <1>2, <1>6, RanEmpty DEF Unwind, Before
  <2>2. Excused'
    BY <1>6, <2>1, TopSame, TopStack DEF Excused
  <2> QED BY <1>1, <1>5, <2>2, UnwindIdle DEF Undoing
<1>7. CASE report' = <<"undone", t>>
  <2>1. report'[1] # "not undone"
    BY <1>7
  <2> QED BY <1>1, <1>5, <2>1, UnwindIdle, SilentExcused DEF Undoing
<1>8. CASE hit'
  <2>1. Excused'
    BY <1>8 DEF Excused
  <2> QED BY <1>1, <1>5, <2>1, UnwindIdle DEF Undoing
<1> QED BY <1>1, <1>6, <1>7, <1>8

LEMMA ApplyUndo == ASSUME TypeInv, Undoing, NEW t \in Transactions, Apply(t) PROVE Undoing'
<1>1. /\ Starts(t) /\ job'.kind = "apply" /\ job'.tx = t
      /\ pc' = "put" /\ report' = <<"none", "none">> /\ edited' = {}
  BY ApplyEffect DEF Starts
<1>2. UndoInv'
  BY <1>1, StartsUndo DEF Undoing
<1>3. Top(t)'
  BY <1>1 DEF Starts, Top, On, Stacked, Without
<1>4. Unwind'
  BY <1>1, <1>3 DEF Unwind
<1>5. report'[1] # "not undone"
  BY <1>1
<1> QED BY <1>2, <1>4, <1>5, SilentExcused DEF Undoing

LEMMA RollbackUndo == ASSUME TypeInv, Undoing, NEW t \in Transactions, Rollback(t) PROVE Undoing'
<1>1. /\ pc = "idle" /\ UNCHANGED <<target, tx, begun, base>> /\ edited' = {} /\ UndoInv
      /\ \/ /\ \A a \in Artifacts : Known(t, a)
            /\ job'.kind = "rollback" /\ job'.tx = t /\ job'.left = Reverse(Plan)
            /\ pc' = "take" /\ report' = <<"none", "none">>
            /\ stack' = {p \in stack : On(p[2], t)} /\ orderly' = (orderly /\ Top(t))
         \/ /\ Fault \/ \E a \in Artifacts : ~Known(t, a)
            /\ report' = <<"not undone", t>> /\ UNCHANGED <<pc, job, stack, orderly>>
  BY RollbackEffect DEF Undoing
<1>2. CASE /\ \A a \in Artifacts : Known(t, a)
           /\ job'.kind = "rollback" /\ job'.tx = t /\ job'.left = Reverse(Plan)
           /\ pc' = "take" /\ report' = <<"none", "none">>
           /\ stack' = {p \in stack : On(p[2], t)} /\ orderly' = (orderly /\ Top(t))
  <2>1. Cuts(t)
    BY <1>1, <1>2 DEF Cuts
  <2>2. UndoInv'
    BY <1>1, <2>1, CutsUndo
  <2>3. ASSUME stack' # {} PROVE Top(t)'
    <3>1. PICK p \in stack : On(p[2], t)
      BY <1>2, <2>3
    <3>2. p[2] \in Transactions
      BY <3>1, StackFacts DEF TypeInv
    <3>3. On(t, t)
      BY <1>1, <3>1, <3>2 DEF UndoInv, Line
    <3>4. \A u : On(u, t)' <=> On(u, t)
      BY <1>2, <3>3 DEF On
    <3>5. \A u \in Stacked' : On(u, t)
      BY <1>2 DEF Stacked, On
    <3> QED BY <3>3, <3>4, <3>5 DEF Top
  <2>4. orderly' => Top(t)'
    <3>1. Top(t) => stack' # {}
      BY <1>2 DEF Top, On
    <3> QED BY <1>2, <2>3, <3>1
  <2>5. Unwind'
    BY <1>1, <1>2, <2>3, <2>4, PlanType DEF Unwind, Known
  <2>6. report'[1] # "not undone"
    BY <1>2
  <2> QED BY <2>2, <2>5, <2>6, SilentExcused DEF Undoing
<1>3. CASE /\ Fault \/ \E a \in Artifacts : ~Known(t, a)
           /\ report' = <<"not undone", t>> /\ UNCHANGED <<pc, job, stack, orderly>>
  <2>1. UndoInv'
    BY <1>1, <1>3, StaysUndo DEF Stays, SameContents
  <2>2. report'[2] = t /\ (hit' \/ ~Top(t))
    BY <1>1, <1>3, FaultHits DEF UndoInv, Crest
  <2>3. Excused'
    BY <1>3, <2>2, TopSame DEF Excused
  <2> QED BY <1>1, <1>3, <2>1, <2>3, UnwindIdle DEF Undoing
<1> QED BY <1>1, <1>2, <1>3

LEMMA StageStepUndo == ASSUME TypeInv, Undoing, NEW t \in Transactions, Stage(t) PROVE Undoing'
<1>1. pc' = "idle" /\ (report' = <<"staged", t>> \/ report' = <<"none", "none">>)
  BY StageEffect DEF TypeInv, Steady
<1>2. UndoInv'
  BY StageUndo DEF Undoing
<1>3. CASE report' = <<"staged", t>>
  <2>1. report'[1] # "not undone"
    BY <1>3
  <2> QED BY <1>1, <1>2, <2>1, UnwindIdle, SilentExcused DEF Undoing
<1>4. CASE report' = <<"none", "none">>
  <2>1. report'[1] # "not undone"
    BY <1>4
  <2> QED BY <1>1, <1>2, <2>1, UnwindIdle, SilentExcused DEF Undoing
<1> QED BY <1>1, <1>3, <1>4

LEMMA KillUndo == ASSUME TypeInv, Undoing, Kill PROVE Undoing'
<1>1. /\ pc' = "idle" /\ report' = <<"none", "none">>
      /\ UNCHANGED <<target, tx, stack, begun, base, orderly>>
  BY DEF Kill, nesting
<1>2. report'[1] # "not undone"
  BY <1>1
<1>3. UndoInv'
  BY <1>1, StaysUndo DEF Stays, SameContents, Undoing
<1> QED BY <1>1, <1>2, <1>3, UnwindIdle, SilentExcused DEF Undoing

LEMMA EditStepUndo ==
  ASSUME TypeInv, Undoing, NEW a \in Artifacts, Edit(a) PROVE Undoing'
<1>1. UNCHANGED <<pc, job>> /\ stack' = {} /\ orderly' = (orderly /\ begun = {})
  BY EditEffect
<1>2. pc # "idle" => ~orderly'
  <2>1. Top(job.tx) => begun # {}
    BY StackFacts, TopStack DEF TypeInv
  <2> QED BY <1>1, <2>1 DEF Undoing, Unwind
<1>3. Unwind' /\ Excused'
  BY <1>1, <1>2 DEF Unwind, Excused, Top, On
<1> QED BY <1>3, EditUndo DEF Undoing

LEMMA UndoingInit == Init => Undoing
<1> SUFFICES ASSUME Init PROVE Undoing
  OBVIOUS
<1>1. /\ base = target /\ stack = {} /\ begun = {} /\ pc = "idle"
      /\ report = <<"none", "none">>
  BY DEF Init
<1>2. Stacked = {} /\ \A u, v : ~On(u, v)
  BY <1>1 DEF Stacked, On
<1>3. UndoInv
  BY <1>1, <1>2 DEF UndoInv, Line, Chain, Crest, Grounded, Under, Top, Bottom
<1>4. report[1] # "not undone"
  BY <1>1
<1>5. Unwind /\ Excused
  BY <1>1, <1>4 DEF Unwind, Excused
<1> QED BY <1>3, <1>5 DEF Undoing

LEMMA UndoingStep == TypeInv /\ Phase /\ Undoing /\ [Next]_vars => Undoing'
<1> SUFFICES ASSUME TypeInv, Phase, Undoing, [Next]_vars PROVE Undoing'
  OBVIOUS
<1>1. CASE UNCHANGED vars
  <2>1. /\ UNCHANGED <<target, tx, temp, pc, job, report, hit, edited, stack, begun, base, orderly>>
    BY <1>1 DEF vars, disk, history, seen, nesting
  <2>2. UndoInv'
    BY <2>1, StaysUndo DEF Stays, SameContents, Undoing
  <2>3. Unwind' /\ Excused'
    BY <2>1, TopSame DEF Undoing, Unwind, Excused, Known, Mine
  <2> QED BY <2>2, <2>3 DEF Undoing
<1>2. CASE Next
  BY <1>2, StageStepUndo, ApplyUndo, RollbackUndo, PutUndo, InspectUndo, CheckUndo, MarkUndo,
     UnmarkUndo, ConfirmUndo, TakeUndo, RestoreUndo, RecheckUndo, FinishUndo, KillUndo, EditStepUndo
     DEF Next, Operation
<1> QED BY <1>1, <1>2

LEMMA UndoingSafe == ASSUME Undoing PROVE UpdatesCanBeUndone
  BY DEF Undoing, UndoInv, Grounded, Excused, UpdatesCanBeUndone

\* Updates can be undone, whatever versions they bring, downgrades included: while nobody
\* else writes a target, the last transaction begun can be rolled back, unless a fault hits
\* the attempt or an earlier one left a file in the way; and when all are undone, the last
\* one first each time, the targets hold what they held before the first of them.
THEOREM UpdatesCanBeUndoneHolds == Spec => []UpdatesCanBeUndone
<1>1. Spec => []Undoing
  BY PhaseAlways, UndoingInit, UndoingStep, PTL DEF Spec
<1> QED BY <1>1, UndoingSafe, PTL
=============================================================================

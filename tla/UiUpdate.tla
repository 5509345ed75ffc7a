-------------------------------- MODULE UiUpdate --------------------------------
(***************************************************************************)
(* scripts/pds005-ui-update-transaction.py: a transaction stages a set of  *)
(* files (a payload and, as backup, what the target holds), applies them   *)
(* one target at a time and can be rolled back.  Every operation runs      *)
(* under one flock, so at most one is in progress; other installers and    *)
(* the user write the same targets without that lock, a write or a read    *)
(* may fail and the program may be killed between any two steps.  What a   *)
(* dead or failed write leaves on the disk, a temporary file beside the    *)
(* target, stands in the way of the next one.  Contents are versions, and  *)
(* come back: a transaction may bring what another brought, or an older    *)
(* version, and so may other installers.                                   *)
(***************************************************************************)
EXTENDS Naturals, Sequences, FiniteSets

CONSTANTS
  Transactions,  \* names of transactions
  Versions,      \* versions of the contents of a file
  Installed,     \* the version of the targets that are there at first
  Plan,          \* the artifacts in the order of apply: those that need sudo come last
  New,           \* artifacts that have no target before the first transaction
  MaxFaults,     \* bound: failing writes, failing reads and kills
  MaxEdits       \* bound: targets written by somebody else

Artifacts == {Plan[i] : i \in DOMAIN Plan}
Contents  == Versions \cup {"absent"}
Tokens    == {"apply", "auto", "rollback"}

ASSUME UpdateConstants ==
  /\ Plan \in Seq(Artifacts) /\ Plan # <<>> /\ Cardinality(Artifacts) = Len(Plan)
  /\ New \subseteq Artifacts
  /\ Installed \in Versions /\ "absent" \notin Versions
  /\ MaxFaults \in Nat /\ MaxEdits \in Nat

VARIABLES
  target,    \* what each artifact's target holds
  tx,        \* the directory of each transaction
  temp,      \* temporary files left beside targets, by artifact and token
  pc,        \* where the operation in progress is; "idle": none is
  job,       \* [kind, tx, left, done, errors]: its locals
  report,    \* what the last operation said
  budget,    \* [faults, edits] used so far
  hit,       \* history: the operation met a fault
  edited,    \* history: targets written by somebody else since the operation began
  unseen,    \* history: targets that it replaced and could not read back
  stack,     \* history: pairs <<u, t>>, t being u or begun on top of it, of the transactions
             \* begun and not undone since somebody else wrote a target
  begun,     \* history: transactions begun and not undone
  base,      \* history: what the targets held when the first of these was begun
  orderly    \* history: since then nobody else wrote a target, and only the last
             \* transaction begun was applied again or rolled back

disk    == <<target, tx, temp>>
nesting == <<stack, begun, base, orderly>>
seen    == <<edited, unseen>>
history == <<hit, seen, nesting>>
vars    == <<disk, pc, job, report, budget, history>>

Directory ==
  [state : {"none", "partial", "staged"}, before : [Artifacts -> Contents],
   payload : [Artifacts -> Contents], applied : BOOLEAN, rolled : BOOLEAN]

NoJob == [kind |-> "none", tx |-> "none", left |-> <<>>, done |-> <<>>, errors |-> FALSE]

Original(a) == IF a \in New THEN "absent" ELSE Installed
Before(t)   == \A a \in Artifacts : target[a] = tx[t].before[a]
\* _known_target_phase: the target holds what the transaction found or what it brings.
Known(t, a) == target[a] \in {tx[t].before[a], tx[t].payload[a]}

TypeOK ==
  /\ target \in [Artifacts -> Contents] /\ base \in [Artifacts -> Contents]
  /\ tx \in [Transactions -> Directory]
  /\ temp \subseteq Artifacts \X Tokens
  /\ pc \in {"idle", "put", "check", "inspect", "mark", "unmark", "confirm", "take", "restore",
             "recheck", "finish"}
  /\ job.left \in Seq(Artifacts) /\ job.done \in Seq(Artifacts) /\ job.errors \in BOOLEAN
  /\ pc = "idle" <=> job = NoJob
  /\ report \in {"none", "staged", "applied", "restored", "incomplete", "undone", "not undone"}
                  \X (Transactions \cup {"none"})
  /\ budget \in [faults : Nat, edits : Nat] /\ hit \in BOOLEAN
  /\ edited \cup unseen \subseteq Artifacts /\ orderly \in BOOLEAN
  /\ stack \subseteq begun \X begun /\ begun \subseteq Transactions
  /\ pc \in {"mark", "finish"} => job.left = <<>>
  \* A marker "applied" stays only where there is something to roll back.
  /\ \A t \in Transactions : /\ tx[t].applied /\ ~tx[t].rolled => t \in begun
                             /\ tx[t].rolled => tx[t].state = "staged" /\ t \notin begun

Init ==
  /\ target = [a \in Artifacts |-> Original(a)] /\ base = target
  /\ tx = [t \in Transactions |-> [state |-> "none", before |-> target, payload |-> target,
                                   applied |-> FALSE, rolled |-> FALSE]]
  /\ temp = {} /\ pc = "idle" /\ job = NoJob /\ report = <<"none", "none">>
  /\ budget = [faults |-> 0, edits |-> 0]
  /\ hit = FALSE /\ edited = {} /\ unseen = {}
  /\ stack = {} /\ begun = {} /\ orderly = TRUE

-----------------------------------------------------------------------------
(* Building blocks *)

Spend(field, bound) == /\ budget[field] < bound
                       /\ budget' = [budget EXCEPT ![field] = @ + 1]
Fault == Spend("faults", MaxFaults) /\ hit' = TRUE
Fine  == UNCHANGED <<budget, hit>>

On(u, t)   == <<u, t>> \in stack
Stacked    == {u \in Transactions : On(u, u)}
Without(t) == {p \in stack : p[1] # t /\ p[2] # t}
Undone(t)  == stack' = Without(t) /\ begun' = begun \ {t} /\ UNCHANGED <<base, orderly>>
Top(t)     == On(t, t) /\ \A u \in Stacked : On(u, t)
Mine       == Head(job.left)
Reverse(s) == [i \in DOMAIN s |-> s[Len(s) + 1 - i]]

\* An operation takes the lock; a second one is refused at once, and changes nothing.
Begin(kind, t, left, next) ==
  /\ job' = [NoJob EXCEPT !.kind = kind, !.tx = t, !.left = left]
  /\ pc' = next /\ report' = <<"none", "none">> /\ edited' = {} /\ unseen' = {}
End(what, t)  == pc' = "idle" /\ job' = NoJob /\ report' = <<what, t>>
Goto(next)    == pc' = next /\ UNCHANGED <<job, report>>
\* The next artifact, or the step after the last one.
Advance(again, after) ==
  /\ job' = [job EXCEPT !.left = Tail(@)] /\ UNCHANGED report
  /\ pc' = IF Tail(job.left) = <<>> THEN after ELSE again

\* _replace and _remove: contents go to a temporary file that must not exist yet, then
\* over the target by rename.  "failed" leaves the target alone, perhaps with the file
\* half written beside it; "late" fails after the rename.
Written(a, c, token, outcome) ==
  LET file    == <<a, token>>
      blocked == c # "absent" /\ file \in temp
  IN CASE outcome = "ok"     -> /\ ~blocked /\ Fine /\ UNCHANGED temp
                                /\ target' = [target EXCEPT ![a] = c]
       [] outcome = "late"   -> /\ ~blocked /\ Fault /\ UNCHANGED temp
                                /\ target' = [target EXCEPT ![a] = c]
       [] outcome = "failed" -> /\ UNCHANGED target
                                /\ \/ blocked /\ Fine /\ UNCHANGED temp
                                   \/ ~blocked /\ Fault
                                      /\ temp' \in {temp, IF c = "absent" THEN temp
                                                          ELSE temp \cup {file}}

-----------------------------------------------------------------------------
(* Staging *)

\* stage_transaction: the payloads are whatever the repository holds.  The manifest
\* comes last; a failure before it leaves a directory nobody can apply, one after it,
\* like a revision that changed meanwhile, a directory anybody can.
Stage(t) ==
  /\ pc = "idle" /\ tx[t].state = "none"
  /\ \E files \in [Artifacts -> Versions], state \in {"partial", "staged"} :
       \* Nobody reads a directory without its manifest.
       /\ state = "partial" => \A a \in Artifacts : files[a] = Installed
       /\ tx' = [tx EXCEPT ![t] = [state |-> state, before |-> target, payload |-> files,
                                   applied |-> FALSE, rolled |-> FALSE]]
  /\ \/ tx'[t].state = "staged" /\ UNCHANGED budget /\ report' = <<"staged", t>>
     \/ Spend("faults", MaxFaults) /\ report' = <<"none", "none">>
  /\ hit' = FALSE /\ edited' = {} /\ unseen' = {}
  /\ UNCHANGED <<target, temp, pc, job, nesting>>

-----------------------------------------------------------------------------
(* Applying *)

\* apply_transaction: every target must hold what was staged as its backup; else it
\* refuses and nothing changes.
Apply(t) ==
  /\ pc = "idle" /\ tx[t].state = "staged" /\ ~tx[t].applied /\ ~tx[t].rolled /\ Before(t)
  /\ Begin("apply", t, Plan, "put") /\ hit' = FALSE
  /\ begun' = begun \cup {t}
  \* Applied again below others, it is the only one whose place is known.
  /\ stack' = IF On(t, t) /\ ~Top(t) THEN {<<t, t>>}
              ELSE Without(t) \cup {<<u, t>> : u \in Stacked \cup {t}}
  /\ base' = IF begun = {} THEN target ELSE base
  /\ orderly' = (begun = {} \/ (orderly /\ (t \in begun => Top(t))))
  /\ UNCHANGED <<disk, budget>>

\* One artifact.
Put ==
  /\ pc = "put"
  /\ \E outcome \in {"ok", "late", "failed"} :
       /\ Written(Mine, tx[job.tx].payload[Mine], "apply", outcome)
       /\ IF outcome = "ok"
            THEN pc' = "check" /\ job' = [job EXCEPT !.done = Append(@, Mine)]
            ELSE pc' = "inspect" /\ UNCHANGED job
  /\ UNCHANGED <<tx, report, seen, nesting>>

\* Deliberate bug: a replacement that failed is never part of the automatic rollback.
FailedPutForgotten(visible) == FALSE
\* A replacement that failed after its rename is.
FailedPut(visible) == visible

\* After a failure what was replaced is restored, the last one first; the one that failed
\* is looked at, and left as it is when it cannot be read.
Inspect ==
  /\ pc = "inspect" /\ pc' = "unmark"
  /\ \/ /\ Fine /\ UNCHANGED unseen
        /\ job' = [job EXCEPT !.done = IF FailedPut(target[Mine] = tx[job.tx].payload[Mine])
                                         THEN Append(@, Mine) ELSE @]
     \/ /\ Fault /\ UNCHANGED job
        /\ unseen' = unseen \cup {a \in {Mine} : target[a] = tx[job.tx].payload[a]}
  /\ UNCHANGED <<disk, report, edited, nesting>>

Check ==
  /\ pc = "check"
  /\ \/ Fine /\ target[Mine] = tx[job.tx].payload[Mine] /\ Advance("put", "mark")
     \/ Fine /\ target[Mine] # tx[job.tx].payload[Mine] /\ Goto("unmark")
     \/ Fault /\ Goto("unmark")
  /\ UNCHANGED <<disk, seen, nesting>>

\* _write_marker: a rename that never replaces, and may be followed by a failing fsync.
Mark ==
  /\ pc = "mark"
  /\ \/ Fine /\ End("applied", job.tx) /\ tx' = [tx EXCEPT ![job.tx].applied = TRUE]
     \/ Fault /\ Goto("unmark") /\ (UNCHANGED tx \/ tx' = [tx EXCEPT ![job.tx].applied = TRUE])
  /\ UNCHANGED <<target, temp, seen, nesting>>

\* Deliberate bug: a marker that cannot be removed does not count as a failed rollback.
UnmarkErrorLost == job.errors
UnmarkError == TRUE

\* The automatic rollback removes the marker first, then restores whatever it can.
Unmark ==
  /\ pc = "unmark"
  /\ \/ Fine /\ tx' = [tx EXCEPT ![job.tx].applied = FALSE]
        /\ job' = [job EXCEPT !.left = Reverse(job.done)]
     \/ Fault /\ (UNCHANGED tx \/ tx' = [tx EXCEPT ![job.tx].applied = FALSE])
        /\ job' = [job EXCEPT !.left = Reverse(job.done), !.errors = UnmarkError]
  /\ pc' = IF job.done = <<>> THEN "confirm" ELSE "restore"
  /\ UNCHANGED <<target, temp, report, seen, nesting>>

\* Whatever it replaced must hold its backup again.  The history does not take it for
\* undone while a target it could not read back holds the payload.
Confirm ==
  /\ pc = "confirm"
  /\ LET t     == job.tx
         exact == \A i \in DOMAIN job.done : target[job.done[i]] = tx[t].before[job.done[i]]
     IN \/ /\ exact /\ ~job.errors /\ Fine /\ End("restored", t)
           /\ IF unseen = {} THEN Undone(t) ELSE UNCHANGED nesting
        \/ /\ \/ ~(exact /\ ~job.errors) /\ Fine
              \/ job.done # <<>> /\ Fault
           /\ End("incomplete", t) /\ UNCHANGED nesting
  /\ UNCHANGED <<disk, seen>>

-----------------------------------------------------------------------------
(* Rolling back *)

\* rollback_transaction, also of a transaction that was never or only half applied: every
\* target must hold the payload or the backup.
Rollback(t) ==
  /\ pc = "idle" /\ tx[t].state = "staged" /\ ~tx[t].rolled
  /\ \/ /\ \A a \in Artifacts : Known(t, a)
        /\ Begin("rollback", t, Reverse(Plan), "take") /\ hit' = FALSE /\ UNCHANGED budget
        \* Transactions begun after this one lose the state they were begun in.
        /\ stack' = {p \in stack : On(p[2], t)} /\ orderly' = (orderly /\ Top(t))
     \/ /\ \/ Fault
           \/ hit' = FALSE /\ UNCHANGED budget /\ \E a \in Artifacts : ~Known(t, a)
        /\ report' = <<"not undone", t>> /\ edited' = {} /\ unseen' = {}
        /\ UNCHANGED <<pc, job, stack, orderly>>
  /\ UNCHANGED <<disk, begun, base>>

\* Deliberate bug: an artifact restored by an earlier attempt is in the way of the next.
SkipNothing(t, a) == FALSE
\* What an earlier attempt has restored is skipped.
Skip(t, a) == target[a] = tx[t].before[a]

Take ==
  /\ pc = "take"
  /\ \/ Fine /\ Skip(job.tx, Mine) /\ Advance("take", "finish")
     \/ Fine /\ ~Skip(job.tx, Mine) /\ Goto("restore")
     \/ Fault /\ End("not undone", job.tx)
  /\ UNCHANGED <<disk, seen, nesting>>

\* _restore_one, for both rollbacks: an error ends the operator's, and is only noted in
\* the automatic one.
GiveUp == IF job.kind = "rollback" THEN End("not undone", job.tx)
          ELSE /\ job' = [job EXCEPT !.left = Tail(@), !.errors = TRUE] /\ UNCHANGED report
               /\ pc' = IF Tail(job.left) = <<>> THEN "confirm" ELSE "restore"

Restore ==
  /\ pc = "restore"
  /\ LET t     == job.tx
         c     == tx[t].before[Mine]
         token == IF job.kind = "apply" THEN "auto" ELSE "rollback"
     IN \/ target[Mine] # tx[t].payload[Mine] /\ Fine /\ GiveUp /\ UNCHANGED <<target, temp>>
        \/ /\ target[Mine] = tx[t].payload[Mine]
           /\ \/ Written(Mine, c, token, "ok") /\ Goto("recheck")
              \/ Written(Mine, c, token, "late") /\ GiveUp
              \/ Written(Mine, c, token, "failed") /\ GiveUp
  /\ UNCHANGED <<tx, seen, nesting>>

Recheck ==
  /\ pc = "recheck"
  /\ \/ /\ Fine /\ target[Mine] = tx[job.tx].before[Mine]
        /\ IF job.kind = "apply" THEN Advance("restore", "confirm") ELSE Advance("take", "finish")
     \/ (Fault \/ (Fine /\ target[Mine] # tx[job.tx].before[Mine])) /\ GiveUp
  /\ UNCHANGED <<disk, seen, nesting>>

\* All preimages are there: the transaction is marked as rolled back.
Finish ==
  /\ pc = "finish"
  /\ LET t == job.tx
         rolled == tx' = [tx EXCEPT ![t].rolled = TRUE] /\ Undone(t)
     IN \/ ~Before(t) /\ Fine /\ End("not undone", t) /\ UNCHANGED <<tx, nesting>>
        \/ Before(t) /\ Fine /\ rolled /\ End("undone", t)
        \/ Before(t) /\ Fault /\ (rolled \/ UNCHANGED <<tx, nesting>>) /\ End("not undone", t)
  /\ UNCHANGED <<target, temp, seen>>

-----------------------------------------------------------------------------
(* The world *)

\* The program is killed, or interrupted from the keyboard; a file may be half written.
Kill ==
  /\ pc # "idle" /\ Fault /\ pc' = "idle" /\ job' = NoJob /\ report' = <<"none", "none">>
  /\ \/ UNCHANGED temp
     \/ pc = "put" /\ temp' = temp \cup {<<Mine, "apply">>}
     \/ /\ pc = "restore" /\ tx[job.tx].before[Mine] # "absent"
        /\ temp' = temp \cup {<<Mine, IF job.kind = "apply" THEN "auto" ELSE "rollback">>}
  /\ UNCHANGED <<target, tx, seen, nesting>>

\* Somebody else writes or removes a target.
Edit(a) ==
  /\ Spend("edits", MaxEdits) /\ UNCHANGED hit
  /\ \E c \in Contents \ {target[a]} :
       /\ target' = [target EXCEPT ![a] = c]
       /\ base' = IF begun = {} THEN [base EXCEPT ![a] = c] ELSE base
  /\ edited' = edited \cup {a} /\ stack' = {}
  /\ orderly' = (orderly /\ begun = {}) /\ UNCHANGED <<begun, unseen>>
  /\ UNCHANGED <<tx, temp, pc, job, report>>

Operation == \/ \E t \in Transactions : Stage(t) \/ Apply(t) \/ Rollback(t)
             \/ Put \/ Inspect \/ Check \/ Mark \/ Unmark \/ Confirm
             \/ Take \/ Restore \/ Recheck \/ Finish
Next == Operation \/ Kill \/ \E a \in Artifacts : Edit(a)
Spec == Init /\ [][Next]_vars

-----------------------------------------------------------------------------
(* Properties *)

\* A report holds of every target nobody else wrote since: after "applied" the payloads
\* are there, after "rolled back", by the operator or automatically after a failed
\* apply, the backups are, whatever else failed on the way; but for a target whose
\* replacement failed after its rename and could then not be read: the automatic rollback
\* leaves it out, and does not say so.
ReportIsTrue ==
  LET t == report[2]
  IN /\ report[1] = "applied" => \A a \in Artifacts \ edited : target[a] = tx[t].payload[a]
     /\ report[1] \in {"restored", "undone"}
          => \A a \in Artifacts \ (edited \cup unseen) : target[a] = tx[t].before[a]

\* Updates can be undone.  While nobody else writes a target, the last transaction begun
\* can always be rolled back, however often it or its rollback failed or was killed,
\* unless a fault hits this very attempt or a temporary file of an earlier one is in the
\* way.  And when the transactions begun are all undone, the last one first each time and
\* with nobody else writing meanwhile, the targets hold what they held before the first
\* of them, whatever versions they brought.
UpdatesCanBeUndone ==
  /\ report[1] = "not undone" /\ Top(report[2]) /\ ~hit
       => \E a \in Artifacts : <<a, "rollback">> \in temp
  /\ begun = {} /\ orderly => target = base
=============================================================================

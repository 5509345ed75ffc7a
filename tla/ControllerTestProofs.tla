-------------------------- MODULE ControllerTestProofs --------------------------
(***************************************************************************)
(* The controller test service keeps its promises for any number of pages, *)
(* requests, presses, kills, faults and InputPlumber restarts.             *)
(*                                                                         *)
(* The argument has two halves.  Place says of the process alone (where it *)
(* is, its session, its journal, the lock) what it must have done before   *)
(* it may stand there.  Reach adds InputPlumber: what it holds once the    *)
(* service has been at the capture and at the restore.                     *)
(***************************************************************************)
EXTENDS ControllerTest, TLAPS

IpType == /\ ip \in [owner : Nat, intercept : 0..2, config : Configs, by : {"test", "other"}]
          /\ held \in BOOLEAN /\ out \in BOOLEAN /\ pending \in BOOLEAN /\ shifted \in BOOLEAN
          /\ strayed \subseteq {"lend", "restore"} \X {"owner", "value"}
JournalType == journal \in [token : Pages \cup {NoPage}, blocked : BOOLEAN, saved : Leases]
PlaceType == /\ lock \in {"free", "test", "helper"}
             /\ role \in {"start", "serve", "post", "stop", "down"}
             /\ step \in {"idle", "prepare", "adopt", "capture", "wait", "restore", "reopen"}
BudgetType == budget \in [requests : Nat, presses : Nat, crashes : Nat, faults : Nat, upsets : Nat]

LEMMA TypeParts == TypeOK <=> IpType /\ JournalType /\ PlaceType /\ sess \in Sessions /\ BudgetType
  BY DEF TypeOK, IpType, JournalType, PlaceType, BudgetType

LEMMA TypePartsNext ==
  TypeOK' <=> IpType' /\ JournalType' /\ PlaceType' /\ (sess \in Sessions)' /\ BudgetType'
  BY DEF TypeOK, IpType, JournalType, PlaceType, BudgetType

-----------------------------------------------------------------------------
(* Sessions and leases *)

LEMMA NoSessionType == NoSession \in Sessions /\ NoLease \in Leases
  BY DEF NoSession, NoLease, Sessions, Leases, Statuses, Configs, Profiles, Passes

LEMMA WithStatus ==
  ASSUME NEW s \in Sessions, NEW t \in Statuses
  PROVE  [s EXCEPT !.status = t] \in Sessions
  BY DEF Sessions

LEMMA DrainedType == ASSUME NEW s \in Sessions PROVE Drained(s) \in Sessions
  BY DEF Sessions, Drained, Statuses

LEMMA OverdueType == ASSUME NEW s \in Sessions PROVE Overdue(s) \in Sessions
  BY DrainedType DEF Overdue

LEMMA WithQuiet ==
  ASSUME NEW s \in Sessions, NEW q \in {"no", "since", "long"}
  PROVE  [s EXCEPT !.quiet = q] \in Sessions
  BY DEF Sessions

LEMMA WithExpired ==
  ASSUME NEW s \in Sessions, NEW e \in BOOLEAN
  PROVE  [s EXCEPT !.expired = e] \in Sessions
  BY DEF Sessions

LEMMA WatchedType == ASSUME NEW s \in Sessions PROVE Watched(s) \in Sessions
  BY WithQuiet DEF Watched

LEMMA EntryType ==
  ASSUME NEW s \in Sessions
  PROVE  Entry(s) \in [token : Pages \cup {NoPage}, blocked : BOOLEAN, saved : Leases]
  BY DEF Sessions, Entry, Blocked

\* What a session carries that its decisions leave alone.
Keeps(s) == s.token = sess.token /\ s.saved = sess.saved

\* What the decisions change.
LEMMA Decided ==
  ASSUME NEW s \in Sessions, NEW t
  PROVE  /\ [s EXCEPT !.status = t].status = t
         /\ [s EXCEPT !.status = t].token = s.token
         /\ [s EXCEPT !.status = t].saved = s.saved
         /\ [s EXCEPT !.status = t].quiet = s.quiet
         /\ [s EXCEPT !.quiet = t].status = s.status
         /\ [s EXCEPT !.quiet = t].token = s.token
         /\ [s EXCEPT !.quiet = t].saved = s.saved
         /\ [s EXCEPT !.quiet = t].quiet = t
         /\ [s EXCEPT !.expired = t].status = s.status
         /\ [s EXCEPT !.expired = t].token = s.token
         /\ [s EXCEPT !.expired = t].saved = s.saved
         /\ [s EXCEPT !.expired = t].quiet = s.quiet
  BY DEF Sessions

LEMMA DrainedFields ==
  ASSUME NEW s \in Sessions
  PROVE  /\ Drained(s).status = "draining" /\ Drained(s).quiet = "no"
         /\ Drained(s).token = s.token /\ Drained(s).saved = s.saved
         /\ Drained(s).expired = s.expired
  BY DEF Sessions, Drained

LEMMA OverdueFields ==
  ASSUME NEW s \in Sessions
  PROVE  /\ Overdue(s).token = s.token /\ Overdue(s).saved = s.saved
         /\ Blocked(s) => Blocked(Overdue(s))
         /\ Overdue(s).status = s.status => Overdue(s) = s
         /\ Overdue(s).status # s.status => Overdue(s) = Drained(s)
         /\ s.status = "draining" \/ (s.expired /\ Blocked(s)) => Overdue(s).status = "draining"
  BY DrainedFields DEF Overdue, Blocked

LEMMA WatchedFields ==
  ASSUME NEW s \in Sessions
  PROVE  /\ Watched(s).token = s.token /\ Watched(s).saved = s.saved
         /\ Watched(s).status = s.status
  BY Decided DEF Watched

-----------------------------------------------------------------------------
(* What every decision of the service has in common *)

\* What is drained, or past its deadline when the service looks, is not lent again.
NotRevived(s) ==
  sess.status = "draining" \/ (sess.expired /\ Blocked(sess) /\ step = "idle") =>
    s.status \in {"idle", "error", "draining"} \/ s = sess

\* Only a lease that is drained counts how long its controls are quiet.
QuietDrains == sess.quiet # "no" => sess.status \notin {"starting", "active"}

\* The session becomes s: its lease stays what it is and is given up only once
\* InputPlumber is not the service's any more, or at the very end; the restore
\* begins with outputs that have let go.
Decides(s, next) ==
  /\ Saved(s, next) /\ Keeps(s) /\ s \in Sessions
  /\ next \in {"idle", "restore"}
  /\ next = "restore" => s.status = "draining" /\ ~out
  /\ NotRevived(s)
  /\ s.quiet # "no" => s.status \notin {"starting", "active"}
  /\ ~Blocked(s) => ~Owns(sess) \/ step = "reopen"

LEMMA BecomesDecides ==
  ASSUME NEW s \in Sessions, NEW next \in {"idle", "restore"}, Becomes(s, next), Keeps(s),
         next = "restore" => s.status = "draining" /\ ~out, NotRevived(s),
         s.quiet # "no" => s.status \notin {"starting", "active"},
         ~Blocked(s) => ~Owns(sess) \/ step = "reopen"
  PROVE  Dies \/ Decides(s, next)
  BY DEF Becomes, Decides

LEMMA DrainsDecides ==
  ASSUME NEW s \in Sessions, Keeps(s), Saved(Drained(s), "idle")
  PROVE  Decides(Drained(s), "idle")
<1>1. Drained(s) \in Sessions /\ Keeps(Drained(s))
  BY DrainedType, DrainedFields DEF Keeps
<1> QED BY <1>1, DrainedFields DEF Decides, NotRevived, Blocked

LEMMA TickDecides ==
  ASSUME TypeOK, QuietDrains, Tick
  PROVE  Dies \/ \E s \in Sessions, next \in {"idle", "restore"} : Decides(s, next)
<1> DEFINE s == Overdue(sess)
<1>0. /\ sess \in Sessions /\ s \in Sessions /\ step = "idle" /\ Blocked(sess)
  BY TypeParts, OverdueType DEF Tick
<1>1. /\ Keeps(s) /\ Blocked(s)
      /\ Owns(s) <=> Owns(sess)
      /\ s.quiet # "no" => s.status \notin {"starting", "active"}
  BY <1>0, OverdueFields, DrainedFields DEF Keeps, Owns, QuietDrains
<1>2. s.status # "draining" => s = sess /\ NotRevived(s)
  BY <1>0, OverdueFields, DrainedFields DEF NotRevived
<1>3. NotRevived(s)
  BY <1>2 DEF NotRevived
<1> HIDE DEF s
<1>4. CASE ~Owns(s) /\ Lost(s)
  <2> DEFINE e == [s EXCEPT !.status = "error"]
  <2>1. e \in Sessions
    BY <1>0, WithStatus DEF Statuses
  <2>2. e.status = "error" /\ Keeps(e)
    BY <1>0, <1>1, Decided DEF Keeps
  <2>3. Becomes(e, "idle")
    BY <1>4 DEF Lost
  <2> HIDE DEF e
  <2>4. Dies \/ Decides(e, "idle")
    BY <1>1, <1>4, <2>1, <2>2, <2>3, BecomesDecides DEF NotRevived
  <2> QED BY <2>1, <2>4
<1>5. CASE Becomes(Drained(s), "idle") \/ Saved(Drained(s), "idle")
  <2>1. Dies \/ Saved(Drained(s), "idle")
    BY <1>5 DEF Becomes
  <2> QED BY <1>0, <1>1, <2>1, DrainsDecides, DrainedType
<1>6. CASE s.status = "starting" /\ ~out /\ Becomes([s EXCEPT !.status = "active"], "idle")
  <2> DEFINE a == [s EXCEPT !.status = "active"]
  <2>1. a \in Sessions
    BY <1>0, WithStatus DEF Statuses
  <2>2. a.status = "active" /\ Keeps(a) /\ a.quiet = s.quiet
    BY <1>0, <1>1, Decided DEF Keeps
  <2>3. NotRevived(a)
    <3>1. s = sess /\ sess.status = "starting" /\ NotRevived(s)
      BY <1>2, <1>3, <1>6
    <3>2. ~(sess.expired /\ Blocked(sess))
      BY <1>0, <3>1, <1>6, OverdueFields DEF s
    <3> QED BY <3>1, <3>2 DEF NotRevived
  <2>4. Becomes(a, "idle")
    BY <1>6
  <2>5. a.quiet = "no" /\ Blocked(a)
    BY <1>1, <1>6, <2>2 DEF Blocked
  <2> HIDE DEF a
  <2>6. Dies \/ Decides(a, "idle")
    BY <2>1, <2>2, <2>3, <2>4, <2>5, BecomesDecides
  <2> QED BY <2>1, <2>6
<1>7. CASE Becomes(s, "idle")
  BY <1>0, <1>1, <1>3, <1>7, BecomesDecides
<1>8. CASE /\ s.status = "draining"
           /\ Becomes([s EXCEPT !.quiet = IF out THEN "no" ELSE @],
                      IF out THEN "idle" ELSE "restore")
  <2> DEFINE m == IF out THEN "no" ELSE s.quiet
             q == [s EXCEPT !.quiet = m]
             next == IF out THEN "idle" ELSE "restore"
  <2>1. q \in Sessions /\ q.status = "draining" /\ Keeps(q)
    <3>1. m \in {"no", "since", "long"}
      BY <1>0 DEF Sessions
    <3> HIDE DEF m
    <3> QED BY <1>0, <1>1, <1>8, <3>1, WithQuiet, Decided DEF Keeps
  <2>2. Becomes(q, next)
    BY <1>8
  <2>3. next \in {"idle", "restore"} /\ (next = "restore" => ~out)
    OBVIOUS
  <2> HIDE DEF q, next
  <2>4. Dies \/ Decides(q, next)
    BY <2>1, <2>2, <2>3, BecomesDecides DEF NotRevived, Blocked
  <2> QED BY <2>1, <2>3, <2>4
<1>9. CASE s.status = "draining" /\ Becomes(Watched(s), "idle")
  <2>1. Watched(s) \in Sessions /\ Watched(s).status = "draining" /\ Keeps(Watched(s))
    BY <1>0, <1>1, <1>9, WatchedType, WatchedFields DEF Keeps
  <2>2. Dies \/ Decides(Watched(s), "idle")
    BY <1>9, <2>1, BecomesDecides DEF NotRevived, Blocked
  <2> QED BY <2>1, <2>2
<1>10. \/ ~Owns(s) /\ Lost(s)
       \/ Becomes(Drained(s), "idle") \/ Saved(Drained(s), "idle")
       \/ CASE s.status = "starting" ->
                  \/ ~out /\ Becomes([s EXCEPT !.status = "active"], "idle")
                  \/ out /\ Becomes(s, "idle")
                  \/ out /\ Becomes(Drained(s), "idle")
            [] s.status = "active" -> Becomes(s, "idle")
            [] s.status = "draining" ->
                  IF s.quiet = "long" /\ ~held
                    THEN Becomes([s EXCEPT !.quiet = IF out THEN "no" ELSE @],
                                 IF out THEN "idle" ELSE "restore")
                    ELSE Becomes(Watched(s), "idle")
  BY DEF Tick, s
<1>11. s.status \in {"starting", "active", "draining"}
  BY <1>1 DEF Blocked
<1> QED BY <1>4, <1>5, <1>6, <1>7, <1>8, <1>9, <1>10, <1>11

\* Begin, prepare and capture come before the lease's first decision; every other
\* step of the service with a session decides or ends the process.
LEMMA RequestDecides ==
  ASSUME TypeOK, QuietDrains, NEW p \in Pages, Request(p)
  PROVE  Dies \/ \E s \in Sessions, next \in {"idle", "restore"} : Decides(s, next)
<1> DEFINE now == Overdue(sess)
           renewed == IF p = sess.token /\ now.status # "draining"
                        THEN [now EXCEPT !.expired = FALSE] ELSE now
           ended == IF p = sess.token /\ now.status # "draining" THEN Drained(now) ELSE now
<1>0. sess \in Sessions /\ now \in Sessions /\ step = "idle" /\ Blocked(sess)
  BY TypeParts, OverdueType DEF Request
<1>1. /\ Keeps(now) /\ Blocked(now)
      /\ now.quiet # "no" => now.status \notin {"starting", "active"}
      /\ now.status # "draining" => ~(sess.expired /\ Blocked(sess)) /\ sess.status # "draining"
      /\ sess.status # "draining" => now = sess \/ now = Drained(sess)
  BY <1>0, OverdueFields, DrainedFields DEF Keeps, QuietDrains
<1> HIDE DEF now
<1>2. renewed \in Sessions /\ Keeps(renewed) /\ Blocked(renewed) /\ NotRevived(renewed)
      /\ (renewed.quiet # "no" => renewed.status \notin {"starting", "active"})
  <2>1. CASE p = sess.token /\ now.status # "draining"
    <3>1. renewed = [now EXCEPT !.expired = FALSE]
      BY <2>1
    <3>2. /\ renewed \in Sessions /\ renewed.status = now.status /\ renewed.quiet = now.quiet
          /\ renewed.token = now.token /\ renewed.saved = now.saved
      BY <1>0, <3>1, WithExpired, Decided
    <3> HIDE DEF renewed
    <3> QED BY <1>0, <1>1, <2>1, <3>2 DEF Keeps, NotRevived, Blocked
  <2>2. CASE ~(p = sess.token /\ now.status # "draining")
    <3>1. renewed = now
      BY <2>2
    <3> HIDE DEF renewed
    <3> QED BY <1>0, <1>1, <3>1, DrainedFields DEF Keeps, NotRevived, Blocked
  <2> QED BY <2>1, <2>2
<1>3. ended \in Sessions /\ Keeps(ended) /\ Blocked(ended) /\ NotRevived(ended)
      /\ (ended.quiet # "no" => ended.status \notin {"starting", "active"})
  BY <1>0, <1>1, DrainedType, DrainedFields DEF Keeps, NotRevived, Blocked
<1>4. Dies \/ \E s \in {renewed, ended} : Saved(s, "idle")
  BY DEF Request, now
<1> HIDE DEF renewed, ended
<1>5. CASE \E s \in {renewed, ended} : Saved(s, "idle")
  <2>1. PICK s \in {renewed, ended} : Saved(s, "idle")
    BY <1>5
  <2>2. Decides(s, "idle") /\ s \in Sessions
    BY <1>2, <1>3, <2>1 DEF Decides
  <2> QED BY <2>2
<1> QED BY <1>4, <1>5

LEMMA ReopenDecides ==
  ASSUME TypeOK, Reopen
  PROVE  Dies \/ \E s \in Sessions, next \in {"idle", "restore"} : Decides(s, next)
<1> DEFINE s == [sess EXCEPT !.status = "idle"]
<1>1. s \in Sessions /\ s.status = "idle" /\ Keeps(s)
  BY TypeParts, WithStatus, Decided DEF Keeps, Statuses
<1>2. Becomes(s, "idle") /\ step = "reopen"
  BY DEF Reopen
<1> HIDE DEF s
<1>3. Dies \/ Decides(s, "idle")
  BY <1>1, <1>2, BecomesDecides DEF NotRevived
<1> QED BY <1>1, <1>3

\* The decisions of the service; begin, prepare and the two calls stand alone.
Deciding == (\E p \in Pages : Request(p)) \/ Tick \/ Reopen

LEMMA DecidingMoves ==
  ASSUME TypeOK, QuietDrains, Deciding
  PROVE  /\ role = "serve" /\ step \in {"idle", "reopen"} /\ UNCHANGED world
         /\ step = "idle" => Blocked(sess)
         /\ Dies \/ \E s \in Sessions, next \in {"idle", "restore"} : Decides(s, next)
<1>1. CASE \E p \in Pages : Request(p)
  BY <1>1, RequestDecides DEF Request
<1>2. CASE Tick
  BY <1>2, TickDecides DEF Tick
<1>3. CASE Reopen
  BY <1>3, ReopenDecides DEF Reopen
<1> QED BY <1>1, <1>2, <1>3 DEF Deciding

-----------------------------------------------------------------------------
(* Types *)

LEMMA InitType == Init => TypeOK
<1> SUFFICES ASSUME Init PROVE TypeOK
  OBVIOUS
<1>1. IpType
  <2>1. /\ ip = [owner |-> ip.owner, intercept |-> ip.intercept, config |-> ip.config,
                by |-> ip.by]
        /\ ip.owner \in Nat /\ ip.intercept \in 0..2 /\ ip.config \in Configs
        /\ ip.by \in {"test", "other"}
    BY DEF Init, Configs
  <2>2. ip \in [owner : Nat, intercept : 0..2, config : Configs, by : {"test", "other"}]
    BY <2>1
  <2> QED BY <2>2 DEF Init, IpType
<1>2. JournalType /\ PlaceType /\ sess \in Sessions /\ BudgetType
  BY NoSessionType DEF Init, JournalType, PlaceType, BudgetType
<1> QED BY <1>1, <1>2, TypeParts

LEMMA SpendType ==
  ASSUME BudgetType, NEW f \in {"requests", "presses", "crashes", "faults", "upsets"},
         NEW b, Spend(f, b)
  PROVE  BudgetType'
  BY DEF BudgetType, Spend

LEMMA PaysType == ASSUME BudgetType, Fault \/ Fine PROVE BudgetType'
  BY SpendType DEF Fault, Fine, BudgetType

LEMMA EndsType ==
  ASSUME PlaceType, NEW next \in {"start", "serve", "post", "stop", "down"}, Ends(next)
  PROVE  PlaceType' /\ (sess \in Sessions)'
  BY NoSessionType DEF PlaceType, Ends, FreeLock

\* Something runs: the service or a recovery.
Runs == role = "serve" \/ Recovering

LEMMA AfterRuns ==
  /\ Runs => After[role] \in {"start", "post", "down"}
  /\ Recovering /\ role # "start" => After[role] \in {"start", "down"}
  BY DEF Runs, Recovering, After

LEMMA DiesType ==
  ASSUME PlaceType, JournalType, Runs, Dies
  PROVE  PlaceType' /\ JournalType' /\ (sess \in Sessions)'
<1>1. After[role] \in {"start", "serve", "post", "stop", "down"}
  BY AfterRuns
<1> QED BY <1>1, EndsType DEF Dies, JournalType

LEMMA SucceedsType ==
  ASSUME PlaceType, Recovering, Succeeds
  PROVE  PlaceType' /\ (sess \in Sessions)'
<1> DEFINE next == IF role = "start" THEN "serve" ELSE After[role]
<1>1. next \in {"start", "serve", "post", "stop", "down"}
  BY AfterRuns
<1>2. Ends(next)
  BY DEF Succeeds
<1> HIDE DEF next
<1> QED BY <1>1, <1>2, EndsType

LEMMA UnblockedType == ASSUME JournalType, Unblocked PROVE JournalType'
  BY DEF JournalType, Unblocked

LEMMA SavedType ==
  ASSUME TypeOK, NEW s \in Sessions, NEW next \in {"idle", "capture", "restore"}, Saved(s, next)
  PROVE  PlaceType' /\ JournalType' /\ (sess \in Sessions)'
  BY TypeParts, EntryType DEF PlaceType, JournalType, Saved, FreeLock

LEMMA WorldKept == ASSUME IpType, UNCHANGED world PROVE IpType'
  BY DEF IpType, world

LEMMA DecidingType == ASSUME TypeOK, QuietDrains, Deciding PROVE TypeOK'
<1>1. BudgetType'
  <2>1. CASE \E p \in Pages : Request(p)
    <3>1. \/ budget' = [budget EXCEPT !.requests = @ + 1]
          \/ budget' = [budget EXCEPT !.requests = @ + 1, !.faults = @ + 1]
      BY <2>1 DEF Request
    <3> DEFINE b == [budget EXCEPT !.requests = budget.requests + 1]
    <3>2. b \in [requests : Nat, presses : Nat, crashes : Nat, faults : Nat, upsets : Nat]
      BY TypeParts DEF BudgetType
    <3>3. [budget EXCEPT !.requests = @ + 1, !.faults = @ + 1] = [b EXCEPT !.faults = @ + 1]
      OBVIOUS
    <3>4. budget' = b \/ budget' = [b EXCEPT !.faults = b.faults + 1]
      BY <3>1, <3>3
    <3> HIDE DEF b
    <3> QED BY <3>2, <3>4 DEF BudgetType
  <2>2. CASE Tick
    <3> DEFINE s == Overdue(sess)
    <3>1. s.status \in {"starting", "active", "draining"}
      BY <2>2, TypeParts, OverdueFields DEF Tick, Blocked
    <3>2. \/ Lost(s)
          \/ Becomes(Drained(s), "idle")
          \/ Fault
          \/ CASE s.status = "starting" ->
                     \/ ~out /\ Becomes([s EXCEPT !.status = "active"], "idle")
                     \/ out /\ Becomes(s, "idle")
                     \/ out /\ Becomes(Drained(s), "idle")
               [] s.status = "active" -> Becomes(s, "idle")
               [] s.status = "draining" ->
                     IF s.quiet = "long" /\ ~held
                       THEN Becomes([s EXCEPT !.quiet = IF out THEN "no" ELSE @],
                                    IF out THEN "idle" ELSE "restore")
                       ELSE Becomes(Watched(s), "idle")
      BY <2>2 DEF Tick
    <3> HIDE DEF s
    <3>3. \A r, l : Becomes(r, l) => Fault \/ Fine
      BY DEF Becomes
    <3> QED BY <3>1, <3>2, <3>3, TypeParts, PaysType DEF Lost
  <2>3. CASE Reopen
    BY <2>3, TypeParts, PaysType DEF Reopen, Becomes
  <2> QED BY <2>1, <2>2, <2>3 DEF Deciding
<1>2. PlaceType' /\ JournalType' /\ (sess \in Sessions)'
  BY TypeParts, DecidingMoves, DiesType, SavedType DEF Decides, Runs
<1> QED BY <1>1, <1>2, TypeParts, TypePartsNext, DecidingMoves, WorldKept

LEMMA AdoptedType ==
  ASSUME TypeOK
  PROVE  Adopted \in Sessions /\ [sess EXCEPT !.saved.config = ip.config] \in Sessions
<1>1. ip.owner \in Nat /\ ip.config \in Configs /\ sess \in Sessions
  BY TypeParts DEF IpType
<1> QED BY <1>1 DEF Sessions, Leases, Adopted, Statuses

LEMMA NewLeaseType == ASSUME TypeOK, NEW p \in Pages, Lendable PROVE NewLease(p) \in Sessions
<1>1. sess \in Sessions /\ ip.intercept \in Passes
  BY TypeParts DEF Lendable
<1> QED BY <1>1 DEF Sessions, Leases, NewLease

LEMMA BeginType == ASSUME TypeOK, NEW p \in Pages, Begin(p) PROVE TypeOK'
<1>1. [sess EXCEPT !.token = p, !.status = "error"] \in Sessions
  BY TypeParts DEF Sessions, Statuses
<1>2. (sess \in Sessions)'
  BY <1>1, NewLeaseType DEF Begin
<1>3. PlaceType' /\ JournalType' /\ BudgetType' /\ IpType'
  BY TypeParts, SpendType, WorldKept DEF Begin, PlaceType, JournalType
<1> QED BY <1>2, <1>3, TypePartsNext

LEMMA RefusesType ==
  ASSUME TypeOK, Refuses
  PROVE  PlaceType' /\ JournalType' /\ (sess \in Sessions)'
<1>1. (sess \in Sessions)'
  BY TypeParts, WithStatus DEF Refuses, Statuses
<1>2. PlaceType' /\ JournalType'
  BY TypeParts DEF Refuses, PlaceType, JournalType, FreeLock
<1> QED BY <1>1, <1>2

LEMMA PrepareType == ASSUME TypeOK, Prepare PROVE TypeOK'
<1>1. IpType'
  BY TypeParts DEF Prepare, IpType
<1>2. BudgetType'
  BY TypeParts, PaysType DEF Prepare
<1>3. PlaceType' /\ JournalType' /\ (sess \in Sessions)'
  <2>1. CASE /\ sess' = [sess EXCEPT !.saved.config = ip.config] /\ step' = "adopt"
             /\ UNCHANGED <<journal, role, lock>>
    BY <2>1, TypeParts, AdoptedType DEF PlaceType, JournalType
  <2> QED BY <2>1, RefusesType DEF Prepare
<1> QED BY <1>1, <1>2, <1>3, TypePartsNext

LEMMA AdoptType == ASSUME TypeOK, Adopt PROVE TypeOK'
<1>1. BudgetType'
  BY TypeParts, PaysType DEF Adopt, Becomes
<1>2. PlaceType' /\ JournalType' /\ (sess \in Sessions)'
  <2>1. CASE Saved(Adopted, "capture")
    BY <2>1, AdoptedType, SavedType
  <2>2. CASE Dies
    BY <2>2, TypeParts, DiesType DEF Adopt, Runs
  <2> QED BY <2>1, <2>2, RefusesType DEF Adopt, Becomes
<1> QED BY <1>1, <1>2, TypeParts, TypePartsNext, WorldKept DEF Adopt

\* A call to InputPlumber that sets intercept to v.
LEMMA SetType ==
  ASSUME IpType, NEW v \in 0..2, SetIntercept(v), NEW w \in {"lend", "restore"}, NEW still,
         Stray(w, still)
  PROVE  IpType'
<1>1. ip' = [ip EXCEPT !.intercept = v, !.by = "test"] /\ UNCHANGED <<held, out, pending, shifted>>
  BY DEF SetIntercept
<1>2. ip' \in [owner : Nat, intercept : 0..2, config : Configs, by : {"test", "other"}]
  BY <1>1 DEF IpType
<1>3. strayed' \subseteq {"lend", "restore"} \X {"owner", "value"}
  BY DEF IpType, Stray
<1> QED BY <1>1, <1>2, <1>3 DEF IpType

LEMMA CallsType ==
  ASSUME TypeOK, Lend \/ GiveBack \/ UNCHANGED world
  PROVE  IpType'
<1>1. sess.saved.previous \in 0..2 /\ Capture \in 0..2 /\ IpType
  BY TypeParts DEF Sessions, Leases, Passes, Capture
<1>2. CASE Lend
  BY <1>1, <1>2, SetType DEF Lend
<1>3. CASE GiveBack
  BY <1>1, <1>3, SetType DEF GiveBack
<1> QED BY <1>1, <1>2, <1>3, WorldKept

LEMMA InterceptType == ASSUME TypeOK, Intercept \/ Restore PROVE TypeOK'
<1>1. IpType'
  BY CallsType DEF Intercept, Restore
<1>2. Drained(sess) \in Sessions /\ [sess EXCEPT !.expired = FALSE] \in Sessions
  BY TypeParts, DrainedType, WithExpired
<1>3. PlaceType' /\ JournalType' /\ (sess \in Sessions)'
  <2>1. CASE Saved(Drained(sess), "idle")
    BY <1>2, <2>1, SavedType
  <2>2. CASE /\ sess' \in {sess, [sess EXCEPT !.expired = FALSE]}
             /\ step' \in {"idle", "reopen"} /\ UNCHANGED <<journal, role, lock>>
    BY <1>2, <2>2, TypeParts DEF PlaceType, JournalType
  <2> QED BY <2>1, <2>2 DEF Intercept, Restore
<1>4. BudgetType'
  BY TypeParts, PaysType DEF Intercept, Restore
<1> QED BY <1>1, <1>3, <1>4, TypePartsNext

\* The session of a recovery: what its journal says, drained.
Recovered == [NoSession EXCEPT !.token = journal.token, !.saved = journal.saved,
                               !.status = "draining"]

LEMMA RecoveredFields ==
  ASSUME JournalType
  PROVE  /\ Recovered \in Sessions /\ Recovered.saved = journal.saved
         /\ Recovered.quiet = "no" /\ Recovered.status = "draining"
  BY NoSessionType DEF Recovered, JournalType, Sessions, NoSession, Statuses

LEMMA RecoverType == ASSUME TypeOK, Recover PROVE TypeOK'
<1>1. BudgetType' /\ IpType'
  BY TypeParts, PaysType, WorldKept DEF Recover
<1>2. PlaceType' /\ JournalType' /\ (sess \in Sessions)'
  <2>0. Recovering
    BY DEF Recover
  <2>1. CASE Succeeds /\ (UNCHANGED journal \/ Unblocked)
    BY <2>0, <2>1, TypeParts, SucceedsType, UnblockedType DEF JournalType
  <2>2. CASE Dies
    BY <2>0, <2>2, TypeParts, DiesType DEF Runs
  <2>3. CASE /\ lock' = "test" /\ step' = "wait" /\ UNCHANGED <<role, journal>>
             /\ sess' = Recovered
    BY <2>3, TypeParts, RecoveredFields DEF PlaceType, JournalType
  <2> QED BY <2>1, <2>2, <2>3 DEF Recover, Recovered
<1> QED BY <1>1, <1>2, TypePartsNext

\* The turn of the waiting loop that goes on.
Waits == \/ sess' = [sess EXCEPT !.quiet = "no"] /\ step' = step
         \/ /\ sess.quiet = "long" /\ ~held /\ out /\ step' = "wait"
            /\ sess' = [sess EXCEPT !.quiet = "no"]
         \/ /\ sess.quiet = "long" /\ ~held /\ ~out /\ step' = "restore" /\ sess' = sess
         \/ step' = "wait" /\ sess' = Watched(sess)

LEMMA WaitingMoves ==
  ASSUME TypeOK, RecoverWaits
  PROVE  /\ Recovering /\ step = "wait" /\ UNCHANGED world
         /\ \/ ~Owns(sess) /\ Unblocked /\ Succeeds
            \/ Dies
            \/ Waits /\ UNCHANGED <<journal, role, lock>>
<1>1. [sess EXCEPT !.quiet = @] = sess
  BY TypeParts DEF Sessions
<1>2. ASSUME sess' = [sess EXCEPT !.quiet = IF out THEN "no" ELSE @],
             step' = (IF out THEN "wait" ELSE "restore")
      PROVE  \/ out /\ step' = "wait" /\ sess' = [sess EXCEPT !.quiet = "no"]
             \/ ~out /\ step' = "restore" /\ sess' = sess
  BY <1>1, <1>2
<1> QED BY <1>2 DEF RecoverWaits, Waits

LEMMA WaitsType == ASSUME TypeOK, RecoverWaits PROVE TypeOK'
<1>1. BudgetType' /\ IpType'
  BY TypeParts, PaysType, WorldKept DEF RecoverWaits
<1>2. PlaceType' /\ JournalType' /\ (sess \in Sessions)'
  <2>0. Recovering
    BY WaitingMoves
  <2>1. CASE Unblocked /\ Succeeds
    BY <2>0, <2>1, TypeParts, SucceedsType, UnblockedType
  <2>2. CASE Dies
    BY <2>0, <2>2, TypeParts, DiesType DEF Runs
  <2>3. CASE Waits /\ UNCHANGED <<journal, role, lock>>
    <3>1. (sess \in Sessions)'
      BY <2>3, TypeParts, WithQuiet, WatchedType DEF Waits
    <3> QED BY <2>3, <3>1, TypeParts DEF Waits, PlaceType, JournalType
  <2> QED BY <2>1, <2>2, <2>3, WaitingMoves
<1> QED BY <1>1, <1>2, TypePartsNext

LEMMA RecoveryEndsType == ASSUME TypeOK, RecoverRestores \/ RecoverReopens PROVE TypeOK'
<1>1. BudgetType' /\ IpType'
  BY TypeParts, PaysType, CallsType DEF RecoverRestores, RecoverReopens
<1>2. PlaceType' /\ JournalType' /\ (sess \in Sessions)'
  <2>0. Recovering
    BY DEF RecoverRestores, RecoverReopens
  <2>1. CASE Unblocked /\ Succeeds
    BY <2>0, <2>1, TypeParts, SucceedsType, UnblockedType
  <2>2. CASE Dies
    BY <2>0, <2>2, TypeParts, DiesType DEF Runs
  <2>3. CASE step' = "reopen" /\ UNCHANGED <<journal, role, lock, sess>>
    BY <2>3, TypeParts DEF PlaceType, JournalType
  <2> QED BY <2>1, <2>2, <2>3 DEF RecoverRestores, RecoverReopens
<1> QED BY <1>1, <1>2, TypePartsNext

\* The process is stopped, killed or started: it ends, or its role is another.
Ending == Stop \/ Crash \/ Started

LEMMA EndingMoves ==
  ASSUME TypeOK, Ending
  PROVE  /\ UNCHANGED journal /\ UNCHANGED world
         /\ \/ \E next \in {"start", "post", "stop", "down"} : Ends(next)
            \/ role = "post" /\ role' = "stop" /\ UNCHANGED <<step, sess, lock>>
            \/ role = "down" /\ role' = "start" /\ UNCHANGED <<step, sess, lock>>
<1>1. CASE Stop
  BY <1>1 DEF Stop
<1>2. CASE Crash
  <2>1. Runs
    BY <1>2, TypeParts DEF Crash, Runs, Recovering, PlaceType
  <2> QED BY <1>2, <2>1, AfterRuns DEF Crash, Dies
<1>3. CASE Started
  BY <1>3 DEF Started
<1> QED BY <1>1, <1>2, <1>3 DEF Ending

LEMMA EndingType == ASSUME TypeOK, Ending PROVE TypeOK'
<1>1. BudgetType'
  BY TypeParts, SpendType DEF Ending, Stop, Crash, Started, BudgetType
<1>2. PlaceType' /\ (sess \in Sessions)'
  <2>1. CASE \E next \in {"start", "post", "stop", "down"} : Ends(next)
    BY <2>1, TypeParts, EndsType
  <2>2. CASE role' \in {"stop", "start"} /\ UNCHANGED <<step, sess, lock>>
    BY <2>2, TypeParts DEF PlaceType
  <2> QED BY <2>1, <2>2, EndingMoves
<1>3. IpType' /\ JournalType'
  BY TypeParts, EndingMoves, WorldKept DEF JournalType
<1> QED BY <1>1, <1>2, <1>3, TypePartsNext

LEMMA ClockType == ASSUME TypeOK, Expire \/ QuietPasses PROVE TypeOK'
<1>1. (sess \in Sessions)'
  BY TypeParts, WithExpired, WithQuiet DEF Expire, QuietPasses
<1>2. BudgetType' /\ IpType' /\ PlaceType' /\ JournalType'
  BY TypeParts, WorldKept DEF Expire, QuietPasses, BudgetType, PlaceType, JournalType
<1> QED BY <1>1, <1>2, TypePartsNext

\* What happens to the controller and InputPlumber without the service.
Elsewhere == Press \/ LetGo \/ OutputsClear \/ Restart \/ Overlay \/ CallLands
Helper == HelperLocks \/ HelperSwitches

LEMMA ElsewhereType == ASSUME TypeOK, Elsewhere PROVE TypeOK'
<1>1. PlaceType' /\ JournalType' /\ (sess \in Sessions)'
  BY TypeParts DEF Elsewhere, Press, LetGo, OutputsClear, Restart, Overlay, CallLands, daemon,
                   PlaceType, JournalType
<1>2. BudgetType'
  BY TypeParts, SpendType DEF Elsewhere, Press, LetGo, OutputsClear, Restart, Overlay,
                              CallLands,
                              BudgetType
<1>3. IpType'
  <2>1. CASE Press \/ LetGo \/ OutputsClear
    BY <2>1, TypeParts DEF Press, LetGo, OutputsClear, IpType
  <2>2. CASE Restart
    <3>1. ip.owner + 1 \in Nat
      BY TypeParts DEF IpType
    <3>2. ip' = [owner |-> ip.owner + 1, intercept |-> 0, config |-> "default", by |-> "other"]
      BY <2>2 DEF Restart
    <3>3. ip' \in [owner : Nat, intercept : 0..2, config : Configs, by : {"test", "other"}]
      BY <3>1, <3>2 DEF Configs
    <3> QED BY <2>2, <3>3, TypeParts DEF Restart, IpType
  <2>3. CASE Overlay
    BY <2>3, TypeParts DEF Overlay, IpType
  <2>4. CASE CallLands
    BY <2>4, TypeParts DEF CallLands, IpType
  <2> QED BY <2>1, <2>2, <2>3, <2>4 DEF Elsewhere
<1> QED BY <1>1, <1>2, <1>3, TypePartsNext

LEMMA HelperType == ASSUME TypeOK, Helper PROVE TypeOK'
<1>1. PlaceType' /\ JournalType' /\ (sess \in Sessions)'
  BY TypeParts DEF Helper, HelperLocks, HelperSwitches, PlaceType, JournalType
<1>2. BudgetType'
  BY TypeParts, SpendType, PaysType DEF Helper, HelperLocks, HelperSwitches
<1>3. IpType'
  BY TypeParts DEF Helper, HelperLocks, HelperSwitches, IpType, world, Configs
<1> QED BY <1>1, <1>2, <1>3, TypePartsNext

\* Next, grouped the way the proofs go through it.
LEMMA NextParts ==
  Next <=> \/ \E p \in Pages : Begin(p)
           \/ Deciding \/ Prepare \/ Adopt \/ Intercept \/ Restore
           \/ Recover \/ RecoverWaits \/ RecoverRestores \/ RecoverReopens
           \/ Ending \/ Expire \/ QuietPasses \/ Elsewhere \/ Helper
  BY DEF Next, Deciding, Service, RecoverStep, Ending, Elsewhere, Helper

LEMMA NextType == TypeOK /\ QuietDrains /\ [Next]_vars => TypeOK'
<1> SUFFICES ASSUME TypeOK, QuietDrains, [Next]_vars PROVE TypeOK'
  OBVIOUS
<1>1. CASE UNCHANGED vars
  BY <1>1 DEF vars, daemon, world, TypeOK
<1> QED BY <1>1, NextParts, BeginType, DecidingType, PrepareType, AdoptType, InterceptType,
           RecoverType, WaitsType, RecoveryEndsType, EndingType, ClockType, ElsewhereType, HelperType

-----------------------------------------------------------------------------
(* Place: what the process has done before it stands where it is *)

\* The service holds the lock from before it reads the configuration to the restore,
\* and has no lease while it prepares one.
LeasePlace ==
  role = "serve" =>
    /\ step \in {"prepare", "adopt"} =>
         ~journal.blocked /\ ~Blocked(sess) /\ sess.quiet = "no"
    /\ step \in {"capture", "restore", "reopen"} => Blocked(sess)
    /\ step \in {"prepare", "adopt"} \/ Blocked(sess) => lock = "test"

\* A recovery works on the lease its journal names, and the gate stays shut.
RecoveryPlace ==
  Recovering /\ step # "idle" =>
    /\ step \notin {"prepare", "adopt"} /\ sess.status = "draining"
    /\ journal.blocked /\ sess.saved = journal.saved

\* What is started begins at the beginning.
DownPlace == role = "down" => step = "idle"

Place == GateIsCurrent /\ LeasePlace /\ RecoveryPlace /\ DownPlace /\ QuietDrains

LEMMA NotBlocked == ~Blocked(NoSession) /\ NoSession.quiet = "no"
  BY DEF NoSession, Blocked

LEMMA InitPlace == Init => Place
  BY NotBlocked DEF Init, Place, GateIsCurrent, LeasePlace, RecoveryPlace, DownPlace,
                    QuietDrains, Recovering

LEMMA EndsPlace ==
  ASSUME NEW next, Ends(next),
         \/ next \in {"start", "post", "stop", "down"}
         \/ next = "serve" /\ journal'.blocked = FALSE
  PROVE  Place'
<1>1. role' = next /\ step' = "idle" /\ sess' = NoSession
  BY DEF Ends
<1>2. ~Blocked(sess') /\ sess'.quiet = "no"
  BY <1>1, NotBlocked
<1>3. GateIsCurrent'
  <2>1. CASE next = "serve"
    <3>1. Blocked(sess') = FALSE /\ journal'.blocked = FALSE
      BY <1>2, <2>1 DEF Blocked
    <3> QED BY <3>1 DEF GateIsCurrent
  <2>2. CASE next # "serve"
    BY <1>1, <2>2 DEF GateIsCurrent
  <2> QED BY <2>1, <2>2
<1>4. LeasePlace' /\ RecoveryPlace' /\ DownPlace' /\ QuietDrains'
  BY <1>1, <1>2 DEF LeasePlace, RecoveryPlace, DownPlace, QuietDrains, Recovering, Blocked
<1> QED BY <1>3, <1>4 DEF Place

LEMMA DiesPlace == ASSUME Runs, Dies PROVE Place'
  BY EndsPlace, AfterRuns DEF Dies

LEMMA SucceedsPlace == ASSUME Recovering, Succeeds, journal'.blocked = FALSE PROVE Place'
  BY EndsPlace, AfterRuns DEF Succeeds

LEMMA UnblocksPlace == ASSUME JournalType, Recovering, Succeeds, Unblocked PROVE Place'
  BY SucceedsPlace DEF Unblocked, JournalType

LEMMA EntryFields ==
  ASSUME NEW s
  PROVE  /\ Entry(s).token = s.token /\ Entry(s).saved = s.saved
         /\ Entry(s).blocked = Blocked(s)
  BY DEF Entry

\* The service goes on to next with session s, whose lease is recorded.
LEMMA SavedPlace ==
  ASSUME Place, role = "serve", NEW s, NEW next \in {"idle", "capture", "restore"},
         Saved(s, next),
         s.status = sess.status => Keeps(s),
         Blocked(s) => step = "adopt" \/ Blocked(sess),
         next # "idle" => Blocked(s),
         s.quiet # "no" => s.status \notin {"starting", "active"}
  PROVE  Place'
<1>1. /\ role' = "serve" /\ sess' = s /\ step' = next
      /\ Blocked(s) => lock' = lock
  BY DEF Saved
<1>2. journal'.blocked = Blocked(s) /\ (Blocked(s) => journal' = Entry(s))
  <2>1. CASE s.status = sess.status
    <3>1. journal' = journal /\ Blocked(s) = Blocked(sess) /\ Entry(s) = Entry(sess)
      BY <2>1 DEF Saved, Keeps, Blocked, Entry
    <3> QED BY <2>1, <3>1 DEF Place, GateIsCurrent
  <2>2. CASE s.status # sess.status
    BY <2>2, EntryFields DEF Saved
  <2> QED BY <2>1, <2>2
<1>3. Blocked(s) => lock' = "test"
  BY <1>1 DEF Place, LeasePlace
<1>4. GateIsCurrent' /\ LeasePlace' /\ RecoveryPlace' /\ DownPlace' /\ QuietDrains'
  BY <1>1, <1>2, <1>3
     DEF GateIsCurrent, LeasePlace, RecoveryPlace, DownPlace, QuietDrains, Recovering, Blocked,
         Entry
<1> QED BY <1>4 DEF Place

LEMMA DecidingPlace == ASSUME TypeOK, Place, Deciding PROVE Place'
<1>1. QuietDrains /\ role = "serve" /\ Blocked(sess)
  BY DecidingMoves DEF Place, LeasePlace
<1>2. ASSUME NEW s \in Sessions, NEW next \in {"idle", "restore"}, Decides(s, next)
      PROVE  Place'
  <2>1. next # "idle" => Blocked(s)
    BY <1>2 DEF Decides, Blocked
  <2> QED BY <1>1, <1>2, <2>1, SavedPlace DEF Decides
<1> QED BY <1>1, <1>2, DecidingMoves, DiesPlace DEF Runs

LEMMA BeginPlace == ASSUME TypeOK, Place, NEW p \in Pages, Begin(p) PROVE Place'
<1>0. role = "serve" /\ role' = "serve" /\ journal' = journal /\ step = "idle" /\ ~Blocked(sess)
  BY DEF Begin
<1>1. sess \in Sessions /\ journal.blocked = FALSE
  <2>1. journal.blocked = Blocked(sess) /\ Blocked(sess) = FALSE
    BY <1>0 DEF Place, GateIsCurrent, Blocked
  <2> QED BY <2>1, TypeParts
<1>2. CASE lock' = "test" /\ step' = "prepare" /\ sess' = NewLease(p)
  <2>1. sess'.status = sess.status /\ sess'.quiet = "no"
    BY <1>1, <1>2 DEF NewLease, Sessions, Leases
  <2> QED BY <1>0, <1>1, <1>2, <2>1
             DEF Place, GateIsCurrent, LeasePlace, RecoveryPlace, DownPlace, QuietDrains,
                 Recovering, Blocked
<1>3. CASE step' = step /\ sess' = [sess EXCEPT !.token = p, !.status = "error"]
  <2>1. sess'.status = "error"
    BY <1>1, <1>3 DEF Sessions
  <2> QED BY <1>0, <1>1, <1>3, <2>1
             DEF Place, GateIsCurrent, LeasePlace, RecoveryPlace, DownPlace, QuietDrains,
                 Recovering, Blocked
<1> QED BY <1>2, <1>3 DEF Begin

\* A service without a lease leaves the gate open.
LEMMA NoLeasePlace ==
  ASSUME role' = "serve", step' = "idle", sess'.status = "error", journal'.blocked = FALSE
  PROVE  Place'
<1>1. Blocked(sess') = FALSE
  BY DEF Blocked
<1>2. GateIsCurrent'
  BY <1>1 DEF GateIsCurrent
<1>3. LeasePlace' /\ RecoveryPlace' /\ DownPlace' /\ QuietDrains'
  BY <1>1 DEF LeasePlace, RecoveryPlace, DownPlace, QuietDrains, Recovering
<1> QED BY <1>2, <1>3 DEF Place

LEMMA AdoptedFields ==
  ASSUME TypeOK
  PROVE  /\ Adopted.status = "starting" /\ Adopted.quiet = sess.quiet
         /\ Adopted.saved.owner = ip.owner /\ Adopted.saved.config = sess.saved.config
  BY TypeParts DEF Adopted, Sessions, Leases

LEMMA ReadFields ==
  ASSUME TypeOK, sess' = [sess EXCEPT !.saved.config = ip.config]
  PROVE  /\ sess'.status = sess.status /\ sess'.quiet = sess.quiet
         /\ sess'.saved.owner = sess.saved.owner /\ sess'.saved.config = ip.config
  BY TypeParts DEF Sessions, Leases

LEMMA RefusesPlace ==
  ASSUME TypeOK, role = "serve", journal.blocked = FALSE, Refuses
  PROVE  Place'
<1>1. sess'.status = "error"
  BY TypeParts, Decided DEF Refuses
<1> QED BY <1>1, NoLeasePlace DEF Refuses

LEMMA PreparePlace == ASSUME TypeOK, Place, Prepare PROVE Place'
<1>0. role = "serve" /\ step = "prepare" /\ ~Blocked(sess) /\ sess.quiet = "no" /\ lock = "test"
  BY DEF Prepare, Place, LeasePlace
<1>1. journal.blocked = FALSE
  BY <1>0, TypeParts DEF Place, LeasePlace, JournalType
<1>2. CASE /\ sess' = [sess EXCEPT !.saved.config = ip.config] /\ step' = "adopt"
           /\ UNCHANGED <<journal, role, lock>>
  <2>1. Blocked(sess') = FALSE /\ sess'.quiet = "no"
    BY <1>0, <1>2, ReadFields DEF Blocked
  <2> QED BY <1>0, <1>1, <1>2, <2>1
             DEF Place, GateIsCurrent, LeasePlace, RecoveryPlace, DownPlace, QuietDrains,
                 Recovering
<1> QED BY <1>0, <1>1, <1>2, RefusesPlace DEF Prepare

LEMMA AdoptPlace == ASSUME TypeOK, Place, Adopt PROVE Place'
<1>0. role = "serve" /\ step = "adopt" /\ ~Blocked(sess) /\ sess.quiet = "no"
  BY DEF Adopt, Place, LeasePlace
<1>1. journal.blocked = FALSE
  BY <1>0, TypeParts DEF Place, LeasePlace, JournalType
<1>2. CASE Dies
  BY <1>0, <1>2, DiesPlace DEF Runs
<1>3. CASE Saved(Adopted, "capture")
  <2>1. Adopted.status # sess.status /\ Blocked(Adopted) /\ Adopted.quiet = "no"
    BY <1>0, AdoptedFields DEF Blocked
  <2> QED BY <1>0, <1>3, <2>1, SavedPlace
<1> QED BY <1>0, <1>1, <1>2, <1>3, RefusesPlace DEF Adopt, Becomes

LEMMA InterceptPlace == ASSUME TypeOK, Place, Intercept \/ Restore PROVE Place'
<1>0. role = "serve" /\ step \in {"capture", "restore"} /\ Blocked(sess)
  BY DEF Intercept, Restore, Place, LeasePlace
<1>1. CASE Saved(Drained(sess), "idle")
  <2>1. /\ Drained(sess).status = "draining" /\ Drained(sess).quiet = "no"
        /\ Keeps(Drained(sess))
    BY TypeParts, DrainedFields DEF Keeps
  <2> QED BY <1>0, <1>1, <2>1, SavedPlace
<1>2. CASE /\ sess' \in {sess, [sess EXCEPT !.expired = FALSE]}
           /\ step' \in {"idle", "reopen"} /\ UNCHANGED <<journal, role, lock>>
  <2>1. /\ sess'.status = sess.status /\ sess'.token = sess.token /\ sess'.saved = sess.saved
        /\ sess'.quiet = sess.quiet
    <3>1. sess \in Sessions
      BY TypeParts
    <3>2. CASE sess' = sess
      BY <3>2
    <3>3. CASE sess' = [sess EXCEPT !.expired = FALSE]
      BY <3>1, <3>3, Decided
    <3> QED BY <1>2, <3>2, <3>3
  <2> QED BY <1>0, <1>2, <2>1
       DEF Place, GateIsCurrent, LeasePlace, RecoveryPlace, DownPlace, QuietDrains, Recovering,
           Blocked, Entry
<1> QED BY <1>1, <1>2 DEF Intercept, Restore

LEMMA RecoverPlace == ASSUME TypeOK, Place, Recover PROVE Place'
<1>0. Recovering
  BY DEF Recover
<1>1. CASE Succeeds /\ ~journal.blocked /\ UNCHANGED journal
  <2>1. journal'.blocked = FALSE
    BY <1>1, TypeParts DEF JournalType
  <2> QED BY <1>0, <1>1, <2>1, SucceedsPlace
<1>2. CASE Unblocked /\ Succeeds
  BY <1>0, <1>2, TypeParts, UnblocksPlace
<1>3. CASE Dies
  BY <1>0, <1>3, DiesPlace DEF Runs
<1>4. CASE /\ journal.blocked /\ step' = "wait" /\ UNCHANGED <<role, journal>>
           /\ sess' = Recovered
  <2>1. Recovering' /\ role' # "serve"
    BY <1>4 DEF Recover, Recovering
  <2> QED BY <1>4, <2>1, TypeParts, RecoveredFields
             DEF Place, GateIsCurrent, LeasePlace, RecoveryPlace, DownPlace, QuietDrains,
                 Recovering
<1> QED BY <1>1, <1>2, <1>3, <1>4 DEF Recover, Recovered

\* A recovery that goes on with the lease it has.
LEMMA GoesOnPlace ==
  ASSUME Place, Recovering, step # "idle", UNCHANGED <<journal, role>>,
         step' \notin {"prepare", "adopt"}, sess'.saved = sess.saved,
         sess'.status = sess.status
  PROVE  Place'
  BY DEF Place, GateIsCurrent, LeasePlace, RecoveryPlace, DownPlace, QuietDrains, Recovering

LEMMA WaitsPlace == ASSUME TypeOK, Place, RecoverWaits PROVE Place'
<1>0. Recovering /\ step = "wait"
  BY WaitingMoves
<1>1. CASE Unblocked /\ Succeeds
  BY <1>0, <1>1, TypeParts, UnblocksPlace
<1>2. CASE Dies
  BY <1>0, <1>2, DiesPlace DEF Runs
<1>3. CASE Waits /\ UNCHANGED <<journal, role, lock>>
  <2>1. sess'.saved = sess.saved /\ sess'.status = sess.status
    <3>1. sess \in Sessions
      BY TypeParts
    <3>2. CASE sess' = [sess EXCEPT !.quiet = "no"]
      BY <3>1, <3>2, Decided
    <3>3. CASE sess' = sess \/ sess' = Watched(sess)
      BY <3>1, <3>3, WatchedFields
    <3> QED BY <1>3, <3>2, <3>3 DEF Waits
  <2>2. step' \notin {"prepare", "adopt"}
    BY <1>0, <1>3 DEF Waits
  <2> QED BY <1>0, <1>3, <2>1, <2>2, GoesOnPlace
<1> QED BY <1>1, <1>2, <1>3, WaitingMoves

LEMMA RecoveryEndsPlace ==
  ASSUME TypeOK, Place, RecoverRestores \/ RecoverReopens
  PROVE  Place'
<1>0. Recovering
  BY DEF RecoverRestores, RecoverReopens
<1>1. CASE Unblocked /\ Succeeds
  BY <1>0, <1>1, TypeParts, UnblocksPlace
<1>2. CASE Dies
  BY <1>0, <1>2, DiesPlace DEF Runs
<1>3. CASE Recovering /\ step = "restore" /\ step' = "reopen" /\ UNCHANGED <<journal, role, lock, sess>>
  BY <1>3, GoesOnPlace
<1> QED BY <1>1, <1>2, <1>3 DEF RecoverRestores, RecoverReopens

LEMMA EndingPlace == ASSUME TypeOK, Place, Ending PROVE Place'
<1>1. CASE \E next \in {"start", "post", "stop", "down"} : Ends(next)
  BY <1>1, EndsPlace
<1>2. CASE role = "post" /\ role' = "stop" /\ UNCHANGED <<step, sess, lock>>
  BY <1>2, EndingMoves
     DEF Place, GateIsCurrent, LeasePlace, RecoveryPlace, DownPlace, QuietDrains, Recovering
<1>3. CASE role = "down" /\ role' = "start" /\ UNCHANGED <<step, sess, lock>>
  BY <1>3, EndingMoves
     DEF Place, GateIsCurrent, LeasePlace, RecoveryPlace, DownPlace, QuietDrains, Recovering
<1> QED BY <1>1, <1>2, <1>3, EndingMoves

\* Time passes.
LEMMA ClockFields ==
  ASSUME TypeOK, Expire \/ QuietPasses
  PROVE  /\ UNCHANGED <<lock, journal, role, step, world, budget>>
         /\ Keeps(sess') /\ sess'.status = sess.status
         /\ sess'.quiet = sess.quiet \/ sess.quiet # "no"
<1>1. sess \in Sessions
  BY TypeParts
<1>2. CASE Expire
  BY <1>1, <1>2, Decided DEF Expire, Keeps
<1>3. CASE QuietPasses
  BY <1>1, <1>3, Decided DEF QuietPasses, Keeps
<1> QED BY <1>2, <1>3

LEMMA ClockPlace == ASSUME TypeOK, Place, Expire \/ QuietPasses PROVE Place'
<1>1. Blocked(sess') = Blocked(sess) /\ Entry(sess') = Entry(sess)
  BY ClockFields DEF Blocked, Entry, Keeps
<1>2. GateIsCurrent'
  BY <1>1, ClockFields DEF Place, GateIsCurrent
<1>3. LeasePlace' /\ RecoveryPlace' /\ DownPlace' /\ QuietDrains'
  BY <1>1, ClockFields DEF Place, LeasePlace, RecoveryPlace, DownPlace, QuietDrains,
                           Recovering, Keeps
<1> QED BY <1>2, <1>3 DEF Place

LEMMA DaemonKept == ASSUME Place, UNCHANGED daemon PROVE Place'
  BY DEF Place, GateIsCurrent, LeasePlace, RecoveryPlace, DownPlace, QuietDrains, Recovering,
         daemon

LEMMA HelperPlace == ASSUME Place, Helper PROVE Place'
<1>1. lock # "test" /\ UNCHANGED <<journal, role, step, sess>>
  BY DEF Helper, HelperLocks, HelperSwitches
<1> QED BY <1>1 DEF Place, GateIsCurrent, LeasePlace, RecoveryPlace, DownPlace, QuietDrains,
                    Recovering

LEMMA NextPlace == TypeOK /\ Place /\ [Next]_vars => Place'
<1> SUFFICES ASSUME TypeOK, Place, [Next]_vars PROVE Place'
  OBVIOUS
<1>1. CASE UNCHANGED vars
  BY <1>1, DaemonKept DEF vars, daemon
<1>2. CASE Elsewhere
  BY <1>2, DaemonKept DEF Elsewhere, Press, LetGo, OutputsClear, Restart, Overlay, CallLands
<1> QED BY <1>1, <1>2, NextParts, BeginPlace, DecidingPlace, PreparePlace, AdoptPlace,
           InterceptPlace,
           RecoverPlace, WaitsPlace, RecoveryEndsPlace, EndingPlace, ClockPlace, HelperPlace

LEMMA PlaceHolds == Spec => [](TypeOK /\ Place)
<1>1. Init => TypeOK /\ Place
  BY InitType, InitPlace
<1>2. TypeOK /\ Place /\ [Next]_vars => TypeOK' /\ Place'
  BY NextType, NextPlace DEF Place
<1> QED BY <1>1, <1>2, PTL DEF Spec

\* Every reachable state of the service, its recovery and InputPlumber is well typed.
THEOREM TypeCorrect == Spec => []TypeOK
  BY PlaceHolds, PTL

\* The gate other processes read is the service's own state at all times, whatever
\* order requests, failures, kills and restarts come in.
THEOREM GateIsCurrentHolds == Spec => []GateIsCurrent
<1>1. Place => GateIsCurrent
  BY DEF Place
<1> QED BY <1>1, PlaceHolds, PTL

-----------------------------------------------------------------------------
(* A lease that is over is not lent again *)

LEMMA LateStep ==
  TypeOK /\ Place /\ [Next]_vars =>
    ((/\ role = "serve" /\ role' = "serve"
      /\ sess.status = "draining" \/ (sess.expired /\ Blocked(sess) /\ step = "idle"))
       => sess'.status \in {"idle", "error", "draining"} \/ sess' = sess)
<1> SUFFICES ASSUME TypeOK, Place, [Next]_vars, role = "serve", role' = "serve",
                    sess.status = "draining" \/ (sess.expired /\ Blocked(sess) /\ step = "idle")
             PROVE  sess'.status \in {"idle", "error", "draining"} \/ sess' = sess
  OBVIOUS
<1>0. sess \in Sessions /\ Blocked(sess)
  BY TypeParts DEF Blocked
<1>1. CASE Deciding
  <2>1. ~Dies
    BY AfterRuns DEF Dies, Ends, Runs
  <2>2. PICK s \in Sessions, next \in {"idle", "restore"} : Decides(s, next)
    BY <1>1, <2>1, DecidingMoves DEF Place
  <2> QED BY <2>2 DEF Decides, NotRevived, Saved
<1>2. CASE Intercept \/ Restore
  <2>1. sess.status = "draining"
    BY <1>2 DEF Intercept, Restore
  <2>2. \/ sess' = [sess EXCEPT !.expired = FALSE]
        \/ sess' = Drained(sess)
        \/ sess' = sess
    BY <1>2 DEF Intercept, Restore, Saved
  <2>3. sess' = [sess EXCEPT !.expired = FALSE] => sess'.status = "draining"
    BY <1>0, <2>1, Decided
  <2> QED BY <1>0, <2>1, <2>2, <2>3, DrainedFields
<1>3. CASE Expire \/ QuietPasses
  <2>1. sess.status = "draining"
    BY <1>0, <1>3 DEF Expire, QuietPasses, Place, QuietDrains, Blocked
  <2> QED BY <1>3, <2>1, ClockFields
<1>4. CASE Elsewhere \/ Helper \/ UNCHANGED vars
  BY <1>4 DEF Elsewhere, Helper, Press, LetGo, OutputsClear, Restart, Overlay, CallLands,
              HelperLocks, HelperSwitches, daemon, vars
<1>5. ~Prepare /\ ~Adopt /\ ~(\E p \in Pages : Begin(p))
  BY <1>0 DEF Prepare, Adopt, Begin, Place, LeasePlace
<1>6. ~Ending
  BY EndingMoves DEF Ends
<1>7. ~Recover /\ ~RecoverWaits /\ ~RecoverRestores /\ ~RecoverReopens
  BY DEF Recover, RecoverWaits, RecoverRestores, RecoverReopens, Recovering
<1> QED BY <1>1, <1>2, <1>3, <1>4, <1>5, <1>6, <1>7, NextParts

\* What is drained, or past its deadline when the service looks, ends in idle, error
\* or the recovery: no late heartbeat revives it.
THEOREM ExpiredIsNotRevivedHolds == Spec => ExpiredIsNotRevived
  BY LateStep, PlaceHolds, PTL DEF Spec, ExpiredIsNotRevived

-----------------------------------------------------------------------------
(* Reach: what the service has done to InputPlumber *)

Captured == ip.intercept = Capture /\ ip.by = "test"

\* An owner is replaced only by a later one.
OwnersAge == sess.saved.owner <= ip.owner /\ journal.saved.owner <= ip.owner

\* The restore starts with outputs that have let go, and its end is only reached by it.
HandsBack == /\ step = "restore" /\ Captured => ~out
             /\ step = "reopen" => ~Captured

\* The configuration is the one that prepare read, from then on.
ReadHolds ==
  role = "serve" =>
    /\ step = "adopt" => Unchanged(sess) \/ shifted
    /\ Blocked(sess) /\ ip.owner = sess.saved.owner => Unchanged(sess) \/ shifted

Reach == OwnersAge /\ HandsBack /\ GateCoversCapture /\ NoStuckOutput /\ ReadHolds

LEMMA ReachParts ==
  Reach <=> /\ OwnersAge /\ HandsBack /\ ReadHolds
            /\ Captured /\ strayed = {} => journal.blocked /\ journal.saved.owner = ip.owner
            /\ ip.intercept # Capture /\ ip.by = "test" /\ strayed = {} => (out => held)
  BY DEF Reach, GateCoversCapture, NoStuckOutput, Captured

LEMMA ReachPartsNext ==
  Reach' <=> /\ OwnersAge' /\ HandsBack' /\ ReadHolds'
             /\ Captured' /\ strayed' = {} => journal'.blocked /\ journal'.saved.owner = ip'.owner
             /\ ip'.intercept # Capture /\ ip'.by = "test" /\ strayed' = {} => (out' => held')
  BY DEF Reach, GateCoversCapture, NoStuckOutput, Captured

LEMMA NoSessionSaved == NoSession.saved.owner = 0 /\ NoSession.saved = NoLease
  BY DEF NoSession, NoLease

LEMMA InitReach == Init => Reach
<1> SUFFICES ASSUME Init PROVE Reach
  OBVIOUS
<1>1. /\ ip.owner = 1 /\ ip.by = "other"
      /\ journal.saved.owner = 0 /\ sess.saved.owner = 0 /\ ~Blocked(sess)
  BY NoSessionSaved, NotBlocked DEF Init
<1> QED BY <1>1, ReachParts DEF Init, OwnersAge, HandsBack, Captured, ReadHolds

LEMMA OwnerType == ASSUME TypeOK PROVE ip.owner \in Nat /\ sess.saved.owner \in Nat
                                       /\ journal.saved.owner \in Nat
  BY TypeParts DEF IpType, Sessions, JournalType, Leases

\* The process ends and InputPlumber is as it was.
LEMMA EndsReach ==
  ASSUME TypeOK, Reach, NEW next, Ends(next), UNCHANGED world,
         journal'.saved.owner <= ip.owner,
         Captured /\ strayed = {} => journal'.blocked /\ journal'.saved.owner = ip.owner
  PROVE  Reach'
<1>1. step' = "idle" /\ sess' = NoSession /\ ~Blocked(sess') /\ sess'.saved.owner = 0
  BY NoSessionSaved, NotBlocked DEF Ends
<1>2. OwnersAge'
  BY <1>1, OwnerType DEF OwnersAge, world
<1>3. HandsBack' /\ ReadHolds'
  BY <1>1 DEF HandsBack, ReadHolds
<1> QED BY <1>2, <1>3, ReachParts, ReachPartsNext DEF world, Captured

LEMMA DiesReach == ASSUME TypeOK, Reach, Dies, UNCHANGED world PROVE Reach'
<1>1. journal' = journal
  BY DEF Dies
<1> QED BY <1>1, EndsReach, ReachParts DEF Dies, OwnersAge

\* The gate opens: InputPlumber is not the service's.
LEMMA OpensReach ==
  ASSUME TypeOK, Reach, Succeeds, Unblocked, UNCHANGED world, ~(Captured /\ strayed = {})
  PROVE  Reach'
<1>1. journal'.saved = journal.saved
  BY TypeParts DEF Unblocked, JournalType
<1> QED BY <1>1, EndsReach, ReachParts DEF Succeeds, OwnersAge

LEMMA DecidingReach == ASSUME TypeOK, Place, Reach, Deciding PROVE Reach'
<1>0. /\ role = "serve" /\ step \in {"idle", "reopen"} /\ UNCHANGED world /\ Blocked(sess)
      /\ journal = Entry(sess)
  BY DecidingMoves DEF Place, LeasePlace, GateIsCurrent
<1>1. ASSUME NEW s \in Sessions, NEW next \in {"idle", "restore"}, Decides(s, next)
      PROVE  Reach'
  <2>1. /\ role' = role /\ sess' = s /\ step' = next /\ s.saved = sess.saved
        /\ next = "restore" => ~out
    BY <1>1 DEF Decides, Saved, Keeps
  <2>2. journal'.saved = sess.saved
    BY <1>0, <1>1, EntryFields DEF Decides, Saved, Keeps
  <2>3. OwnersAge'
    BY <1>0, <2>1, <2>2, ReachParts DEF OwnersAge, world
  <2>4. HandsBack'
    BY <1>0, <2>1 DEF HandsBack, world
  <2>5. ReadHolds'
    BY <1>0, <2>1, ReachParts DEF ReadHolds, Unchanged, world
  <2>6. ASSUME Captured, strayed = {} PROVE journal'.blocked /\ journal'.saved.owner = ip.owner
    <3>1. Owns(sess) /\ step # "reopen" /\ sess.saved.owner = ip.owner
      BY <1>0, <2>6, ReachParts, EntryFields DEF HandsBack, Owns, Captured
    <3>2. Blocked(s)
      BY <1>1, <3>1 DEF Decides
    <3>3. journal'.blocked
      BY <1>0, <1>1, <3>2, EntryFields DEF Decides, Saved
    <3> QED BY <2>2, <3>1, <3>3
  <2> QED BY <1>0, <2>3, <2>4, <2>5, <2>6, ReachParts, ReachPartsNext DEF world, Captured
<1> QED BY <1>0, <1>1, DecidingMoves, DiesReach DEF Place

\* InputPlumber, the gate and the lease's owner are as they were.
LEMMA QuietReach ==
  ASSUME TypeOK, Reach, UNCHANGED world, UNCHANGED journal,
         sess'.saved.owner = sess.saved.owner,
         step' \notin {"restore", "reopen"} \/ step' = step \/ (step' = "restore" /\ ~out),
         role' = "serve" /\ Blocked(sess') => role = "serve" /\ Blocked(sess) /\ Keeps(sess'),
         role' = "serve" /\ step' = "adopt" => role = "serve" /\ step = "adopt" /\ Keeps(sess')
  PROVE  Reach'
<1>1. OwnersAge' /\ HandsBack'
  BY ReachParts DEF OwnersAge, HandsBack, Captured, world
<1>2. ReadHolds'
  BY ReachParts DEF ReadHolds, Unchanged, Keeps, world
<1> QED BY <1>1, <1>2, ReachParts, ReachPartsNext DEF world, Captured

LEMMA BeginReach == ASSUME TypeOK, Place, Reach, NEW p \in Pages, Begin(p) PROVE Reach'
<1>0. UNCHANGED world /\ UNCHANGED journal /\ step = "idle" /\ ~Blocked(sess) /\ sess \in Sessions
  BY TypeParts DEF Begin
<1>1. CASE step' = "prepare" /\ sess' = NewLease(p)
  <2>1. sess'.saved.owner = sess.saved.owner /\ sess'.status = sess.status
    BY <1>0, <1>1 DEF NewLease, Sessions, Leases
  <2> QED BY <1>0, <1>1, <2>1, QuietReach DEF Blocked
<1>2. CASE step' = step /\ sess' = [sess EXCEPT !.token = p, !.status = "error"]
  <2>1. sess'.saved = sess.saved /\ sess'.status = "error"
    BY <1>0, <1>2 DEF Sessions
  <2> QED BY <1>0, <1>2, <2>1, QuietReach DEF Blocked
<1> QED BY <1>1, <1>2 DEF Begin

LEMMA RefusesReach ==
  ASSUME TypeOK, Reach, UNCHANGED <<ip, held, out, pending, shifted, strayed>>, Refuses
  PROVE  Reach'
<1>1. sess'.saved = sess.saved /\ sess'.status = "error"
  BY TypeParts, Decided DEF Refuses
<1> QED BY <1>1, QuietReach DEF Refuses, Blocked, world

\* The profile is read: from here on only a late call or a restart changes it.
LEMMA PrepareReach == ASSUME TypeOK, Place, Reach, Prepare PROVE Reach'
<1>0. /\ role = "serve" /\ step = "prepare" /\ ~Blocked(sess)
      /\ UNCHANGED <<ip, held, out, pending, strayed>>
  BY DEF Prepare, Place, LeasePlace
<1>1. CASE /\ sess' = [sess EXCEPT !.saved.config = ip.config] /\ step' = "adopt"
           /\ UNCHANGED <<journal, role, lock>>
  <2>1. /\ ~Blocked(sess') /\ sess'.saved.owner = sess.saved.owner
        /\ sess'.saved.config = ip.config
    BY <1>0, <1>1, ReadFields DEF Blocked
  <2>2. OwnersAge' /\ HandsBack' /\ ReadHolds'
    BY <1>0, <1>1, <2>1, ReachParts DEF OwnersAge, HandsBack, ReadHolds, Unchanged
  <2> QED BY <1>0, <1>1, <2>2, ReachParts, ReachPartsNext DEF Captured
<1> QED BY <1>0, <1>1, RefusesReach DEF Prepare

\* The lease is recorded for the owner of the moment: nothing is captured yet.
LEMMA AdoptReach == ASSUME TypeOK, Place, Reach, Adopt PROVE Reach'
<1>0. /\ role = "serve" /\ step = "adopt" /\ ~Blocked(sess) /\ UNCHANGED world
      /\ ~journal.blocked /\ ~(Captured /\ strayed = {})
  BY ReachParts DEF Adopt, Place, LeasePlace
<1>1. CASE Dies
  BY <1>0, <1>1, DiesReach
<1>2. CASE Saved(Adopted, "capture")
  <2>1. /\ sess'.saved.owner = ip.owner /\ sess'.saved.config = sess.saved.config
        /\ journal'.saved.owner = ip.owner /\ step' = "capture"
    <3>1. Adopted.status # sess.status
      BY <1>0, AdoptedFields DEF Blocked
    <3> QED BY <1>2, <3>1, AdoptedFields, EntryFields DEF Saved
  <2>2. OwnersAge' /\ HandsBack'
    BY <1>0, <2>1, OwnerType DEF OwnersAge, HandsBack, world
  <2>3. ReadHolds'
    BY <1>0, <2>1, ReachParts DEF ReadHolds, Unchanged, world
  <2> QED BY <1>0, <2>2, <2>3, ReachParts, ReachPartsNext DEF world, Captured
<1> QED BY <1>0, <1>1, <1>2, RefusesReach DEF Adopt, Becomes, world

\* What a call to InputPlumber changes, and what it shows if nothing strayed.
LEMMA CallFields ==
  ASSUME TypeOK, Lend \/ GiveBack
  PROVE  /\ ip'.owner = ip.owner /\ ip'.config = ip.config /\ ip'.by = "test"
         /\ held' = held /\ out' = out /\ shifted' = shifted
         /\ strayed' = {} => strayed = {} /\ ip.owner = sess.saved.owner
         /\ Lend => ip'.intercept = Capture
         /\ GiveBack => ip'.intercept # Capture /\ (strayed' = {} => Captured)
<1>1. ip \in [owner : Nat, intercept : 0..2, config : Configs, by : {"test", "other"}]
  BY TypeParts DEF IpType
<1>2. sess.saved.previous # Capture
  BY TypeParts DEF Sessions, Leases, Passes, Capture
<1>3. CASE Lend
  <2>1. ~GiveBack
    BY <1>1, <1>2, <1>3 DEF Lend, GiveBack, SetIntercept, Capture
  <2> QED BY <1>1, <1>3, <2>1 DEF Lend, SetIntercept, Stray
<1>4. CASE GiveBack
  <2>1. ~Lend
    BY <1>1, <1>2, <1>4 DEF Lend, GiveBack, SetIntercept, Capture
  <2> QED BY <1>1, <1>2, <1>4, <2>1 DEF GiveBack, SetIntercept, Stray, Captured
<1> QED BY <1>3, <1>4

\* The capture: the journal names the owner that is checked.
LEMMA LendReach ==
  ASSUME TypeOK, Reach, Lend, journal'.blocked, sess.saved = journal.saved,
         journal'.saved = journal.saved, step' = "idle", role' = role, Keeps(sess'),
         role = "serve" /\ Blocked(sess)
  PROVE  Reach'
<1>1. OwnersAge' /\ HandsBack'
  BY CallFields, ReachParts DEF OwnersAge, HandsBack, Keeps
<1>2. ReadHolds'
  BY CallFields, ReachParts DEF ReadHolds, Unchanged, Keeps
<1>3. Captured' /\ strayed' = {} => journal'.blocked /\ journal'.saved.owner = ip'.owner
  BY CallFields DEF Captured
<1>4. ip'.intercept = Capture
  BY CallFields
<1> QED BY <1>1, <1>2, <1>3, <1>4, ReachPartsNext

\* The restore: what was captured had let go of its outputs.
LEMMA GiveBackReach ==
  ASSUME TypeOK, Reach, GiveBack, step = "restore", journal'.saved.owner <= ip.owner,
         sess'.saved.owner <= ip.owner, step' \notin {"restore", "adopt"},
         role' = "serve" /\ Blocked(sess') => role = "serve" /\ Blocked(sess) /\ Keeps(sess')
  PROVE  Reach'
<1>1. OwnersAge' /\ HandsBack'
  BY CallFields DEF OwnersAge, HandsBack, Captured
<1>2. ReadHolds'
  BY CallFields, ReachParts DEF ReadHolds, Unchanged, Keeps
<1>3. ~Captured'
  BY CallFields DEF Captured
<1>4. strayed' = {} => ~out'
  BY CallFields, ReachParts DEF HandsBack
<1> QED BY <1>1, <1>2, <1>3, <1>4, ReachPartsNext

LEMMA InterceptReach == ASSUME TypeOK, Place, Reach, Intercept \/ Restore PROVE Reach'
<1>0. /\ role = "serve" /\ step \in {"capture", "restore"} /\ Blocked(sess) /\ sess \in Sessions
      /\ journal = Entry(sess) /\ journal.blocked /\ journal.saved = sess.saved
  BY TypeParts, EntryFields DEF Intercept, Restore, Place, LeasePlace, GateIsCurrent
<1>1. Keeps(Drained(sess)) /\ Blocked(Drained(sess)) /\ Keeps([sess EXCEPT !.expired = FALSE])
  BY <1>0, DrainedFields, Decided DEF Keeps, Blocked
<1>2. ASSUME Saved(Drained(sess), "idle")
      PROVE  /\ Keeps(sess') /\ journal'.saved = journal.saved /\ journal'.blocked
             /\ step' = "idle" /\ role' = role
  BY <1>0, <1>1, <1>2, EntryFields DEF Saved, Keeps
<1>3. ASSUME sess' = [sess EXCEPT !.expired = FALSE] \/ sess' = sess, UNCHANGED <<journal, role>>
      PROVE  /\ Keeps(sess') /\ journal'.saved = journal.saved /\ journal'.blocked /\ role' = role
  BY <1>0, <1>1, <1>3 DEF Keeps
<1>4. CASE Intercept /\ Lend
  <2>1. /\ Keeps(sess') /\ journal'.saved = journal.saved /\ journal'.blocked /\ role' = role
        /\ step' = "idle"
    BY <1>2, <1>3, <1>4 DEF Intercept
  <2> QED BY <1>0, <1>4, <2>1, LendReach
<1>5. CASE Restore /\ GiveBack
  <2>1. /\ Keeps(sess') /\ journal'.saved = journal.saved /\ role' = role
        /\ step' \notin {"restore", "adopt"} /\ step = "restore"
    BY <1>2, <1>3, <1>5 DEF Restore
  <2>2. sess'.saved.owner <= ip.owner /\ journal'.saved.owner <= ip.owner
    BY <2>1, ReachParts DEF OwnersAge, Keeps
  <2> QED BY <1>0, <1>5, <2>1, <2>2, GiveBackReach
<1>6. CASE UNCHANGED world /\ Saved(Drained(sess), "idle")
  <2>1. OwnersAge' /\ HandsBack' /\ ReadHolds'
    BY <1>0, <1>2, <1>6, ReachParts
       DEF OwnersAge, HandsBack, ReadHolds, Unchanged, Keeps, world
  <2>2. Captured /\ strayed = {} => journal'.blocked /\ journal'.saved.owner = ip.owner
    BY <1>2, <1>6, ReachParts
  <2> QED BY <1>6, <2>1, <2>2, ReachParts, ReachPartsNext DEF world, Captured
<1> QED BY <1>4, <1>5, <1>6 DEF Intercept, Restore

LEMMA RecoverReach == ASSUME TypeOK, Place, Reach, Recover PROVE Reach'
<1>0. UNCHANGED world
  BY DEF Recover
<1>1. CASE Succeeds /\ UNCHANGED journal
  BY <1>0, <1>1, EndsReach, ReachParts DEF Succeeds, OwnersAge
<1>2. CASE ~Owns(journal) /\ Unblocked /\ Succeeds
  <2>1. ~(Captured /\ strayed = {})
    BY <1>2, ReachParts DEF Owns, Captured
  <2> QED BY <1>0, <1>2, <2>1, OpensReach
<1>3. CASE Dies
  BY <1>0, <1>3, DiesReach
<1>4. CASE step' = "wait" /\ UNCHANGED <<role, journal>> /\ sess' = Recovered /\ Recovering
  <2>1. sess'.saved = journal.saved /\ role' # "serve"
    BY <1>4, TypeParts, RecoveredFields DEF Recovering
  <2>2. OwnersAge' /\ HandsBack' /\ ReadHolds'
    BY <1>0, <1>4, <2>1, ReachParts DEF OwnersAge, HandsBack, ReadHolds, world
  <2> QED BY <1>0, <1>4, <2>2, ReachParts, ReachPartsNext DEF world, Captured
<1> QED BY <1>1, <1>2, <1>3, <1>4 DEF Recover, Recovered

LEMMA WaitsReach == ASSUME TypeOK, Place, Reach, RecoverWaits PROVE Reach'
<1>0. Recovering /\ step = "wait" /\ UNCHANGED world
  BY WaitingMoves
<1>1. journal.blocked /\ sess.saved = journal.saved
  BY <1>0 DEF Place, RecoveryPlace
<1>2. CASE ~Owns(sess) /\ Unblocked /\ Succeeds
  <2>1. ~(Captured /\ strayed = {})
    BY <1>1, <1>2, ReachParts DEF Owns, Captured
  <2> QED BY <1>0, <1>2, <2>1, OpensReach
<1>3. CASE Dies
  BY <1>0, <1>3, DiesReach
<1>4. CASE Waits /\ UNCHANGED <<journal, role, lock>>
  <2>1. sess'.saved = sess.saved
    <3>1. sess \in Sessions
      BY TypeParts
    <3>2. CASE sess' = [sess EXCEPT !.quiet = "no"]
      BY <3>1, <3>2, Decided
    <3>3. CASE sess' = sess \/ sess' = Watched(sess)
      BY <3>1, <3>3, WatchedFields
    <3> QED BY <1>4, <3>2, <3>3 DEF Waits
  <2>2. step' = "wait" \/ (step' = "restore" /\ ~out)
    BY <1>0, <1>4 DEF Waits
  <2>3. role' # "serve"
    BY <1>0, <1>4 DEF Recovering
  <2> QED BY <1>0, <1>4, <2>1, <2>2, <2>3, QuietReach
<1> QED BY <1>2, <1>3, <1>4, WaitingMoves

LEMMA RecoveryEndsReach ==
  ASSUME TypeOK, Place, Reach, RecoverRestores \/ RecoverReopens
  PROVE  Reach'
<1>0. Recovering /\ role # "serve"
  BY DEF RecoverRestores, RecoverReopens, Recovering
<1>1. CASE RecoverReopens /\ Succeeds /\ Unblocked
  <2>1. ~Captured /\ UNCHANGED world
    BY <1>1, ReachParts DEF RecoverReopens, HandsBack
  <2> QED BY <1>1, <2>1, OpensReach
<1>2. CASE Dies /\ UNCHANGED world
  BY <1>2, DiesReach
<1>3. CASE RecoverRestores /\ GiveBack
  <2>1. /\ step = "restore" /\ step' \notin {"restore", "adopt"}
        /\ journal' = journal /\ (sess' = sess \/ sess' = NoSession)
    BY <1>3 DEF RecoverRestores, Dies, Ends
  <2>2. journal'.saved.owner <= ip.owner /\ sess'.saved.owner <= ip.owner
    BY <2>1, ReachParts, OwnerType, NoSessionSaved DEF OwnersAge
  <2>3. ~(role' = "serve" /\ Blocked(sess'))
    BY <1>0, <1>3, NotBlocked DEF RecoverRestores, Dies, Ends
  <2> QED BY <1>3, <2>1, <2>2, <2>3, GiveBackReach
<1> QED BY <1>1, <1>2, <1>3 DEF RecoverRestores, RecoverReopens

LEMMA EndingReach == ASSUME TypeOK, Place, Reach, Ending PROVE Reach'
<1>1. CASE \E next \in {"start", "post", "stop", "down"} : Ends(next)
  BY <1>1, EndingMoves, EndsReach, ReachParts DEF OwnersAge
<1>2. CASE role' \in {"stop", "start"} /\ UNCHANGED <<step, sess, lock>>
  BY <1>2, EndingMoves, QuietReach
<1> QED BY <1>1, <1>2, EndingMoves

LEMMA ClockReach == ASSUME TypeOK, Place, Reach, Expire \/ QuietPasses PROVE Reach'
<1>1. Keeps(sess') /\ (Blocked(sess') <=> Blocked(sess)) /\ UNCHANGED <<journal, role, step, world>>
  BY ClockFields DEF Blocked
<1> QED BY <1>1, QuietReach DEF Keeps

\* Only the service sets intercept in its own name: whoever else does ends what it set.
LEMMA ElsewhereReach == ASSUME TypeOK, Reach, Elsewhere PROVE Reach'
<1>0. UNCHANGED <<journal, role, step, sess, strayed>>
  BY DEF Elsewhere, Press, LetGo, OutputsClear, Restart, Overlay, CallLands, daemon
<1>1. CASE Press \/ LetGo \/ OutputsClear
  <2>1. /\ ip' = ip /\ shifted' = shifted
        /\ Captured => (out' => out)
        /\ ip.intercept # Capture => ((out => held) => (out' => held'))
    BY <1>1 DEF Press, LetGo, OutputsClear, Passing, Captured
  <2>2. OwnersAge' /\ HandsBack' /\ ReadHolds'
    BY <1>0, <2>1, ReachParts
       DEF OwnersAge, HandsBack, ReadHolds, Unchanged, Captured, Blocked
  <2> QED BY <1>0, <2>1, <2>2, ReachParts, ReachPartsNext DEF Captured
<1>2. CASE Restart
  <2>1. /\ ip'.owner = ip.owner + 1 /\ ip'.by = "other" /\ shifted' = TRUE
    BY <1>2 DEF Restart
  <2>2. OwnersAge'
    BY <1>0, <2>1, OwnerType, ReachParts DEF OwnersAge
  <2> QED BY <2>1, <2>2, ReachPartsNext DEF HandsBack, ReadHolds, Captured
<1>3. CASE Overlay
  <2>1. /\ ip'.owner = ip.owner /\ ip'.config = ip.config /\ ip'.by = "other"
        /\ shifted' = shifted
    BY <1>3, TypeParts DEF Overlay, IpType
  <2>2. OwnersAge' /\ HandsBack' /\ ReadHolds'
    BY <1>0, <2>1, ReachParts
       DEF OwnersAge, HandsBack, ReadHolds, Unchanged, Captured, Blocked
  <2> QED BY <2>1, <2>2, ReachPartsNext DEF Captured
<1>4. CASE CallLands
  <2>1. /\ ip'.owner = ip.owner /\ ip'.by = ip.by /\ ip'.intercept = ip.intercept
        /\ shifted' = TRUE /\ UNCHANGED <<held, out>>
    BY <1>4, TypeParts DEF CallLands, IpType
  <2>2. OwnersAge' /\ HandsBack' /\ ReadHolds'
    BY <1>0, <2>1, ReachParts DEF OwnersAge, HandsBack, ReadHolds, Captured
  <2> QED BY <1>0, <2>1, <2>2, ReachParts, ReachPartsNext DEF Captured
<1> QED BY <1>1, <1>2, <1>3, <1>4 DEF Elsewhere

\* The input helper changes the configuration under its own lock, so under no lease.
LEMMA HelperReach == ASSUME TypeOK, Place, Reach, Helper PROVE Reach'
<1>0. UNCHANGED <<journal, role, step, sess, held, out, shifted, strayed>>
  BY DEF Helper, HelperLocks, HelperSwitches, world
<1>1. ip'.owner = ip.owner /\ ip'.by = ip.by /\ ip'.intercept = ip.intercept
  BY TypeParts DEF Helper, HelperLocks, HelperSwitches, IpType, world
<1>2. role = "serve" /\ (step = "adopt" \/ Blocked(sess)) => ip' = ip
  BY DEF Helper, HelperLocks, HelperSwitches, Place, LeasePlace, world
<1>3. OwnersAge' /\ HandsBack' /\ ReadHolds'
  BY <1>0, <1>1, <1>2, ReachParts
     DEF OwnersAge, HandsBack, ReadHolds, Unchanged, Captured, Blocked
<1> QED BY <1>0, <1>1, <1>3, ReachParts, ReachPartsNext DEF Captured

LEMMA NextReach == TypeOK /\ Place /\ Reach /\ [Next]_vars => Reach'
<1> SUFFICES ASSUME TypeOK, Place, Reach, [Next]_vars PROVE Reach'
  OBVIOUS
<1>1. CASE UNCHANGED vars
  BY <1>1, QuietReach DEF vars, daemon, world, Keeps, Blocked
<1> QED BY <1>1, NextParts, BeginReach, DecidingReach, PrepareReach, AdoptReach,
           InterceptReach, RecoverReach,
           WaitsReach, RecoveryEndsReach, EndingReach, ClockReach, ElsewhereReach, HelperReach

LEMMA ReachHolds == Spec => [](TypeOK /\ Place /\ Reach)
<1>1. Init => TypeOK /\ Place /\ Reach
  BY InitType, InitPlace, InitReach
<1>2. TypeOK /\ Place /\ Reach /\ [Next]_vars => TypeOK' /\ Place' /\ Reach'
  BY NextType, NextPlace, NextReach DEF Place
<1> QED BY <1>1, <1>2, PTL DEF Spec

\* While the service intercepts, the gate is shut and the journal names the very
\* InputPlumber it intercepts, wherever the service is killed.
THEOREM GateCoversCaptureHolds == Spec => []GateCoversCapture
<1>1. Reach => GateCoversCapture
  BY DEF Reach
<1> QED BY <1>1, ReachHolds, PTL

\* A button let go during the lease is not left pressed when the controller is back.
THEOREM NoStuckOutputHolds == Spec => []NoStuckOutput
<1>1. Reach => NoStuckOutput
  BY DEF Reach
<1> QED BY <1>1, ReachHolds, PTL

\* No input helper works while the service has a lease, and the configuration is the one
\* read for it, however requests, failures and helpers interleave; unless a call that a
\* failed helper gave up came late, or InputPlumber was restarted between the reads.
THEOREM ConfigurationHoldsThroughout == Spec => []ConfigurationHolds
<1>1. Place /\ Reach => ConfigurationHolds
  BY DEF Place, LeasePlace, Reach, ReadHolds, ConfigurationHolds
<1> QED BY <1>1, ReachHolds, PTL
=============================================================================

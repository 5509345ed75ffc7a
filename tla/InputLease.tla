----------------------------- MODULE InputLease -----------------------------
(***************************************************************************)
(* What components/emulation/pocketds-input-mode promises whoever reads its *)
(* state file under the flock, without processes, locks or D-Bus calls: one *)
(* record that names a generation (a token) and what is known about it, and *)
(* the device that the record is about.                                     *)
(*                                                                         *)
(* InputMode implements it (InputMode!ImplementsLease).                     *)
(***************************************************************************)
EXTENDS Naturals

CONSTANTS
  Modes,     \* the managed modes a record may publish
  Devices    \* states of the device: <<loaded profile, attached targets>>

VARIABLES
  record,    \* the published record: [token, mode]
  device,    \* the state InputPlumber is in
  drawn,     \* the tokens that were drawn so far
  found,     \* the modes the device was in at some moment of the present turn
  wandered   \* the device left the published mode by itself

leaseVars == <<record, device, drawn, found, wandered>>

Is(m) == device = <<m, m>>

\* The modes that d is a state of.
In(d) == {m \in Modes : d = <<m, m>>}

LeaseInit ==
  /\ record = [token |-> 0, mode |-> "missing"]
  /\ device \in Devices
  /\ drawn = {0}
  /\ found = {}
  /\ wandered = FALSE

\* The next record says m, of the same generation or of a new one.  A new one
\* bears a token that was never drawn before.
Says(m) ==
  /\ record' = [token |-> record'.token, mode |-> m]
  /\ \/ record'.token = record.token /\ UNCHANGED drawn
     \/ record'.token \notin drawn /\ drawn' = drawn \cup {record'.token}

\* Someone takes a turn at the device: from now on it counts what it is in.
Turn ==
  /\ found' = In(device)
  /\ UNCHANGED <<record, device, drawn, wandered>>

\* Someone announces that the device will be rebuilt.
Announce == Says("transitioning") /\ UNCHANGED <<device, found, wandered>>

\* The device changes at a command's bidding, only while that is announced.
Rebuild ==
  /\ record.mode = "transitioning"
  /\ device' \in Devices
  /\ found' = In(device')
  /\ UNCHANGED <<record, drawn, wandered>>

\* A mode is published only when the device was in it after the last rebuilding
\* of this turn; it may have left it again by itself.
Settled ==
  /\ \E m \in found : Says(m) /\ wandered' = ~Is(m)
  /\ UNCHANGED <<device, found>>

\* Nobody knows what the device is in.
Doubt == Says("unknown") /\ UNCHANGED <<device, found, wandered>>

\* InputPlumber on its own: a restart, or a call its client had given up on.
Wander ==
  /\ device' \in Devices
  /\ found' = found \cup In(device')
  /\ wandered' = TRUE
  /\ UNCHANGED <<record, drawn>>

LeaseNext == Turn \/ Announce \/ Rebuild \/ Settled \/ Doubt \/ Wander

LeaseSpec == LeaseInit /\ [][LeaseNext]_leaseVars

\* A published mode is the one the device is in, unless it has left it by itself:
\* what every reader of the state file relies on.
RecordIsTrue == record.mode \in Modes /\ ~wandered => Is(record.mode)

=============================================================================

---------------------------- MODULE SerialStore ----------------------------
(***************************************************************************)
(* What the other modules take for granted of the store: a command is one  *)
(* step on the data as it stands, or nothing; the schema grows by whole    *)
(* migrations, in order.                                                   *)
(***************************************************************************)
EXTENDS Naturals, Sequences

CONSTANTS Commands, Migrations, Statements
VARIABLES
  log,      \* the writes that took effect: whose
  refused,  \* the commands that failed
  applied   \* the migrations applied

Effective == {log[i] : i \in DOMAIN log}

Init == log = <<>> /\ refused = {} /\ applied = {}

Execute(p) ==
  /\ p \notin Effective \cup refused
  /\ log' = log \o [i \in 1..Statements |-> p]
  /\ UNCHANGED <<refused, applied>>

(* An error, a timeout or a death: all its writes come to nothing. *)
Fail(p) ==
  /\ p \notin Effective \cup refused
  /\ refused' = refused \cup {p}
  /\ UNCHANGED <<log, applied>>

Upgrade(m) ==
  /\ applied = 1..(m - 1)
  /\ applied' = applied \cup {m}
  /\ UNCHANGED <<log, refused>>

Next == (\E p \in Commands : Execute(p) \/ Fail(p)) \/ (\E m \in Migrations : Upgrade(m))

SerialSpec == Init /\ [][Next]_<<log, refused, applied>>
=============================================================================

------------------------------- MODULE AuditLog -------------------------------
(***************************************************************************)
(* What the audit chain promises to the handlers that append to it, with   *)
(* no sequence numbers, races or uncommitted rows: the events of one       *)
(* database transaction enter the log once, in one step, in order and      *)
(* together, and what has entered stays where it is.  The module           *)
(* AuditChain is shown to implement it.                                    *)
(***************************************************************************)
EXTENDS Sequences

CONSTANTS
  Txs,          \* database transactions of handlers
  Appends       \* Appends[t]: the audit events t appends, in order

VARIABLES
  log,          \* the events of the log
  logged        \* the transactions that have entered theirs

logVars == <<log, logged>>

Init == log = <<>> /\ logged = {}

Enter(t) ==
  /\ t \notin logged
  /\ log' = log \o Appends[t]
  /\ logged' = logged \cup {t}

Next == \E t \in Txs : Enter(t)

Spec == Init /\ [][Next]_logVars
===============================================================================

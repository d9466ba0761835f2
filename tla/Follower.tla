------------------------------ MODULE Follower ------------------------------
(***************************************************************************)
(* What following a published value promises, whatever the order and loss  *)
(* of the messages: a copy shows something the server really had, and once *)
(* it has shown a state it shows no earlier one, until it starts over from *)
(* what it kept.                                                           *)
(***************************************************************************)
EXTENDS Naturals, Sequences

CONSTANT Any    \* the values

VARIABLES
  log,      \* the values the server has had, oldest first
  at,       \* how far into the log the copy is; 0 when it shows what it kept
  shown     \* what it shows

Had == {log[i] : i \in DOMAIN log}

Init == log \in {<<value>> : value \in Any} /\ at = 0 /\ shown \in Any

Change == \E value \in Any : log' = Append(log, value) /\ UNCHANGED <<at, shown>>
Follow == \E i \in DOMAIN log : at <= i /\ at' = i /\ shown' = log[i] /\ log' = log
StartOver == at' = 0 /\ shown' \in Had \cup {shown} /\ log' = log
\* A copy that starts over for want of anything kept shows the default.
Forget == at' = 0 /\ shown' \in Any /\ at > 0 /\ log' = log

Next == Change \/ Follow \/ StartOver \/ Forget
Spec == Init /\ [][Next]_<<log, at, shown>>
=============================================================================

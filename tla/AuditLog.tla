------------------------------ MODULE AuditLog ------------------------------
(***************************************************************************)
(* What an audit store promises: an append-only log of events, and a seal  *)
(* (the published checkpoint) that commits to a prefix of the log and only *)
(* ever moves forward.  The seal may be lost while it is replaced; the     *)
(* next one then covers the whole log, and so whatever was sealed before.  *)
(***************************************************************************)
EXTENDS Naturals, Sequences

CONSTANT Event

VARIABLES log,  \* the events, oldest first
          seal  \* the prefix the seal commits to, in a set; empty if it is lost

vars == << log, seal >>

Init == log = << >> /\ seal = {<< >>}

AppendEvent ==
  /\ \E e \in Event : log' = Append(log, e)
  /\ UNCHANGED seal

Seal ==
  /\ \E n \in 0 .. Len(log) :
        /\ \A s \in seal : Len(s) <= n
        /\ seal = {} => n = Len(log)
        /\ seal' = {SubSeq(log, 1, n)}
  /\ UNCHANGED log

Tear ==
  /\ seal' = {}
  /\ UNCHANGED log

Next == AppendEvent \/ Seal \/ Tear

Spec == Init /\ [][Next]_vars
=============================================================================

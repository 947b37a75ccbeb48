----------------------------- MODULE HashChain -----------------------------
(***************************************************************************)
(* The hash chain both audit stores keep: every row carries the hash of    *)
(* the row before it, and its own hash covers its content and that hash.   *)
(*                                                                         *)
(* SHA-256 is collision free for every purpose here, so the hash of a row  *)
(* is represented by what it commits to: the sequence of event contents    *)
(* from GENESIS up to and including that row.  Two hashes are equal iff    *)
(* they were computed from equal contents and equal previous hashes.       *)
(***************************************************************************)
EXTENDS Naturals, Sequences

CONSTANT Event   \* event contents: type, actor, payload and creation time

GENESIS == << >>

HashValue == Seq(Event)

\* sha256(event_type|actor|created_at|payload|prev_hash)
Hash(e, prev) == Append(prev, e)

\* A row of audit_events, also the form of a buffered event.
Row == [event : Event, prev : HashValue, hash : HashValue]

\* An event chained to a previous hash.
Chained(e, prev) == [event |-> e, prev |-> prev, hash |-> Hash(e, prev)]

\* The hash the next event has to be chained to.
HeadHash(rows) == IF rows = << >> THEN GENESIS ELSE rows[Len(rows)].hash

\* What row i of the table must name as its previous hash.
ExpectedPrev(rows, i) == IF i = 1 THEN GENESIS ELSE rows[i - 1].hash

\* The walk over the table that decides "valid" or "invalid".
ChainValid(rows) ==
  \A i \in 1 .. Len(rows) :
     /\ rows[i].prev = ExpectedPrev(rows, i)
     /\ rows[i].hash = Hash(rows[i].event, rows[i].prev)

\* The contents of the table, without the hashes.
Contents(rows) == [i \in 1 .. Len(rows) |-> rows[i].event]
=============================================================================

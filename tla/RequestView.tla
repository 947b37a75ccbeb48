----------------------------- MODULE RequestView -----------------------------
(***************************************************************************)
(* What a view with fetched data promises to whoever looks at it: any      *)
(* number of requests may be under way for it, and the answer to an older  *)
(* one may be shown for a while, but what was asked for last is under way  *)
(* until its answer is the last to come in.  How requests wait, are        *)
(* fetched, skipped and answered is left open.                             *)
(***************************************************************************)
CONSTANTS
  Subject,  \* what the view can be asked for
  Nothing   \* no data

VARIABLES
  asked,    \* what it was asked for last
  shown,    \* what it shows
  loading,  \* it says that it is loading
  failed,   \* it says that a fetch failed
  refused,  \* the last request was refused
  underway  \* what the requests under way are for

vars == << asked, shown, loading, failed, refused, underway >>

Init ==
  /\ asked \in Subject
  /\ shown = Nothing /\ underway = {}
  /\ loading = FALSE /\ failed = FALSE /\ refused = FALSE

\* What to ask for first is being chosen.
Choose ==
  /\ underway = {} /\ shown = Nothing /\ ~ loading /\ ~ refused
  /\ asked' \in Subject
  /\ UNCHANGED << shown, loading, failed, refused, underway >>

\* A request is sent or refused; an error message may stay.
Ask(x) ==
  /\ asked' = x
  /\ loading' = TRUE
  /\ failed' \in {failed, FALSE}
  /\ \/ refused' = FALSE /\ underway' = underway \cup {x}
     \/ refused' = TRUE  /\ underway' = underway
  /\ UNCHANGED shown

\* Nobody forgets the last request, unless it was refused.
Kept == refused \/ asked \in underway'

\* Requests are given up in favour of later ones.
Skip ==
  /\ underway' \subseteq underway
  /\ underway' # {} /\ Kept
  /\ UNCHANGED << asked, shown, loading, failed, refused >>

\* An answer, which is for the last request if no other is under way.
Answer(x) ==
  /\ x \in underway
  /\ \/ underway' \in {underway, underway \ {x}} /\ underway' # {} /\ Kept
     \/ underway' = {} /\ underway = {x} /\ (refused \/ x = asked)
  /\ loading' = FALSE
  /\ \/ failed' = TRUE  /\ shown' = shown
     \/ failed' = FALSE /\ shown' = x
  /\ UNCHANGED << asked, refused >>

Next ==
  \/ Choose
  \/ \E x \in Subject : Ask(x)
  \/ Skip
  \/ \E x \in Subject : Answer(x)

Spec == Init /\ [][Next]_vars
-----------------------------------------------------------------------------
\* What the user may rely on: once the answers are in, the view shows what was
\* asked for last, an error, or nothing yet; and it does not say "loading".
Settles ==
  underway = {} /\ ~ refused =>
     /\ ~ loading
     /\ failed \/ shown \in {asked, Nothing}

\* Until then the last request is among those under way.
Waits == underway # {} /\ ~ refused => asked \in underway
=============================================================================

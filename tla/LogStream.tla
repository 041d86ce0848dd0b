----------------------------- MODULE LogStream -----------------------------
(***************************************************************************)
(* What Client.Logs (internal/dokku/dokku.go) promises its caller, whoever *)
(* is behind it: lines handed to fn in the order they were written, none   *)
(* skipped or repeated, none after fn has refused one, and one answer that *)
(* tells the caller's own decisions from a failure of Dokku's.             *)
(***************************************************************************)
EXTENDS Naturals, Sequences

VARIABLES
    delivered,  \* the lines fn accepted, by their number
    refused,    \* whether fn has refused a line
    gone,       \* whether the caller's context is done
    result      \* "none", or how Logs returned

stream == <<delivered, refused, gone, result>>

Init ==
    /\ delivered = <<>>
    /\ refused = FALSE
    /\ gone = FALSE
    /\ result = "none"

Deliver ==
    /\ result = "none" /\ ~refused
    /\ delivered' = Append(delivered, Len(delivered) + 1)
    /\ UNCHANGED <<refused, gone, result>>

\* The callback says no; an implementation may return in the same step.
Decline ==
    /\ result = "none" /\ ~refused
    /\ refused' = TRUE
    /\ result' \in {"none", "refused"}
    /\ UNCHANGED <<delivered, gone>>

Leave ==
    /\ result = "none"
    /\ gone' = TRUE
    /\ UNCHANGED <<delivered, refused, result>>

\* fn's own error comes back as it was given; a context error only when the
\* caller has gone; and what Dokku failed at is never said to a caller who
\* left, unless nothing had been delivered to it.
Return ==
    /\ result = "none"
    /\ \/ refused /\ result' = "refused"
       \/ ~refused /\ result' = "ok"
       \/ ~refused /\ gone /\ result' = "cancelled"
       \/ ~refused /\ (gone => delivered = <<>>) /\ result' = "command"
    /\ UNCHANGED <<delivered, refused, gone>>

Next == Deliver \/ Decline \/ Leave \/ Return
Spec == Init /\ [][Next]_stream
=============================================================================

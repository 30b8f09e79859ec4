------------------------------ MODULE Mirror ------------------------------
(***************************************************************************)
(* What a login promises about the local copy of the server's history: per *)
(* stream of entries there is a cursor from which the next login asks      *)
(* again; it never moves back, so nothing is downloaded for ever, and it   *)
(* never moves past an entry the copy lacks, so nothing is lost for good.  *)
(***************************************************************************)
EXTENDS Naturals, Sequences

CONSTANTS Streams,   \* the streams whose entries are to be copied
          Entries    \* all that may be logged

VARIABLES log,       \* the history
          held,      \* the indices of the entries copied so far
          resume     \* per stream, where the next login starts to ask

vars == <<log, held, resume>>

Wanted == {t \in DOMAIN log : log[t] \in Streams}

Recoverable == \A t \in Wanted \ held : t > resume[log[t]]

Init ==
    /\ log \in Seq(Entries)
    /\ held \subseteq DOMAIN log
    /\ resume \in [Streams -> Nat]
    /\ Recoverable

Log ==
    /\ Len(log') = Len(log) + 1
    /\ \A t \in DOMAIN log : log'[t] = log[t]
    /\ log'[Len(log) + 1] \in Entries
    /\ UNCHANGED <<held, resume>>

Copy ==
    /\ held \subseteq held' /\ held' \subseteq DOMAIN log
    /\ resume' \in [Streams -> Nat]
    /\ \A s \in Streams : resume'[s] >= resume[s]
    /\ Recoverable'
    /\ UNCHANGED log

Next == Log \/ Copy

Spec == Init /\ [][Next]_vars
=============================================================================

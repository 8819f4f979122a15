------------------------------ MODULE Audience ------------------------------
(***************************************************************************)
(* What a channel promises the writers that join it.  Publications follow  *)
(* one another.  A writer joins once, while there is one, and is taken out *)
(* before it ends; whoever took it out closes it.  Before that it may be   *)
(* fed frames: of this publication, none that was not published yet, and   *)
(* never one that it was fed before.                                       *)
(***************************************************************************)
EXTENDS Integers

CONSTANTS Publishers, Writers, Nobody

VARIABLES
    publisher,  \* who publishes, or Nobody
    sent,       \* number of the publication's newest frame, 0 at first
    status,     \* of each writer: "new", "member", "leaving" (taken out while it is
                \* fed), "out" or "closed"
    fed         \* number of the last frame each writer was fed, -1 at first

vars == <<publisher, sent, status, fed>>

Init ==
    /\ publisher = Nobody
    /\ sent = 0
    /\ status = [w \in Writers |-> "new"]
    /\ fed = [w \in Writers |-> -1]

Begin(p) ==
    /\ publisher = Nobody
    /\ publisher' = p
    /\ UNCHANGED <<sent, status, fed>>

Publish ==
    /\ publisher # Nobody
    /\ sent' = sent + 1
    /\ UNCHANGED <<publisher, status, fed>>

\* No writer of this publication is there for the next.
End ==
    /\ publisher # Nobody
    /\ \A w \in Writers : status[w] \notin {"member", "leaving"}
    /\ publisher' = Nobody
    /\ sent' = 0
    /\ UNCHANGED <<status, fed>>

Become(w, s) ==
    /\ status' = [status EXCEPT ![w] = s]
    /\ UNCHANGED <<publisher, sent, fed>>

Join(w) == publisher # Nobody /\ status[w] = "new" /\ Become(w, "member")

Remove(w) == status[w] = "member" /\ (Become(w, "leaving") \/ Become(w, "out"))

Leave(w) == status[w] = "leaving" /\ Become(w, "out")

\* Also one that was refused, by its own handler.
Close(w) == status[w] # "closed" /\ Become(w, "closed")

Feed(w, n) ==
    /\ publisher # Nobody
    /\ status[w] \in {"member", "leaving"}
    /\ fed[w] < n /\ n <= sent
    /\ fed' = [fed EXCEPT ![w] = n]
    /\ UNCHANGED <<publisher, sent, status>>

Next ==
    \/ \E p \in Publishers : Begin(p)
    \/ Publish
    \/ End
    \/ \E w \in Writers : Join(w) \/ Remove(w) \/ Leave(w) \/ Close(w)
    \/ \E w \in Writers, n \in 0..sent : Feed(w, n)

Spec == Init /\ [][Next]_vars
=============================================================================

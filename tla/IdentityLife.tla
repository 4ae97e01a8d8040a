---------------------------- MODULE IdentityLife ----------------------------
(***************************************************************************)
(* What MoltNet promises of its identities (molt_net_window.h,             *)
(* molt_net_routing.h): one is in use at a time, a window opens only in    *)
(* that one, an identity that has ended never comes back, and once its end *)
(* has reached its network it never sends again.  No profile, context,     *)
(* pipe, deadline or call appears here.                                    *)
(***************************************************************************)
EXTENDS Naturals

CONSTANT Ids

VARIABLES
  life,     \* unmade, open (in use), left (unused), ending, silent
  shown,    \* the identities with a window
  epoch,    \* the circuits Tor has now
  sent      \* the circuits each identity has sent on

lifeVars == <<life, shown, epoch, sent>>

Init ==
  /\ life = [i \in Ids |-> "unmade"]
  /\ shown = {}
  /\ epoch = 0
  /\ sent = [i \in Ids |-> {}]

\* A window is asked for and no identity is in use: a new one is.
Make(i) ==
  /\ life[i] = "unmade"
  /\ \A j \in Ids : life[j] # "open"
  /\ life' = [life EXCEPT ![i] = "open"]
  /\ UNCHANGED <<shown, epoch, sent>>

\* The first window of an identity opens, its last one closes.
Show(i) ==
  /\ life[i] = "open"
  /\ shown' = shown \cup {i}
  /\ UNCHANGED <<life, epoch, sent>>

Hide(i) ==
  /\ i \in shown
  /\ shown' = shown \ {i}
  /\ UNCHANGED <<life, epoch, sent>>

\* An identity without a window is given up.
Leave(i) ==
  /\ life[i] = "open" /\ i \notin shown
  /\ life' = [life EXCEPT ![i] = "left"]
  /\ UNCHANGED <<shown, epoch, sent>>

\* The identities of S end: at once where no network context runs.
End(S) ==
  /\ \A i \in S : life[i] \in {"open", "left"}
  /\ life' \in [Ids -> {"unmade", "open", "left", "ending", "silent"}]
  /\ \A i \in S : life'[i] \in {"ending", "silent"}
  /\ \A i \in Ids \ S : life'[i] = life[i]
  /\ UNCHANGED <<shown, epoch, sent>>

\* The last of its network contexts has the end.
Silence(i) ==
  /\ life[i] = "ending"
  /\ life' = [life EXCEPT ![i] = "silent"]
  /\ UNCHANGED <<shown, epoch, sent>>

Send(i) ==
  /\ life[i] \in {"open", "left", "ending"}
  /\ sent' = [sent EXCEPT ![i] = @ \cup {epoch}]
  /\ UNCHANGED <<life, shown, epoch>>

NewCircuits ==
  /\ epoch' = epoch + 1
  /\ UNCHANGED <<life, shown, sent>>

Next ==
  \/ \E i \in Ids : Make(i) \/ Show(i) \/ Hide(i) \/ Leave(i) \/ Silence(i) \/ Send(i)
  \/ \E S \in SUBSET Ids : End(S)
  \/ NewCircuits

Spec == Init /\ [][Next]_lifeVars
=============================================================================

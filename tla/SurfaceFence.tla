---------------------------- MODULE SurfaceFence ----------------------------
(***************************************************************************)
(* What the decode path promises to an application that syncs surfaces:    *)
(* each BeginPicture opens one verdict, the verdict is given once, and a   *)
(* decoded surface shows the picture that was asked for (or, for a picture *)
(* with nothing to show, no frame at all).  No fence counters, jobs,       *)
(* routes, tokens or worker appear here.                                   *)
(***************************************************************************)
EXTENDS Naturals

CONSTANT Surfaces

VARIABLES
  verdict,   \* "idle", "pending", "decoded" or "failed"
  asked,     \* the picture last begun on each surface
  shown      \* the picture in the surface's frame, 0 for none

vars == <<verdict, asked, shown>>

Init ==
  /\ verdict = [s \in Surfaces |-> "idle"]
  /\ asked = [s \in Surfaces |-> 0]
  /\ shown = [s \in Surfaces |-> 0]

Pending == {s \in Surfaces : verdict[s] = "pending"}

(* A new picture on s, whatever became of the one before.                  *)
Ask(s) ==
  /\ verdict' = [verdict EXCEPT ![s] = "pending"]
  /\ asked'[s] # asked[s]
  /\ asked' = [asked EXCEPT ![s] = asked'[s]]
  /\ shown' = [shown EXCEPT ![s] = 0]

Show(s, p) ==
  /\ s \in Pending
  /\ p \in {0, asked[s]}
  /\ verdict' = [verdict EXCEPT ![s] = "decoded"]
  /\ shown' = [shown EXCEPT ![s] = p]
  /\ UNCHANGED asked

GiveUp(dropped) ==
  /\ verdict' = [t \in Surfaces |-> IF t \in dropped THEN "failed"
                                                     ELSE verdict[t]]
  /\ UNCHANGED <<asked, shown>>

Next ==
  \/ \E s \in Surfaces : Ask(s)
  \/ \E s \in Pending : \E p \in {0, asked[s]} : Show(s, p)
  \/ \E dropped \in SUBSET Pending : GiveUp(dropped)

Spec == Init /\ [][Next]_vars
=============================================================================

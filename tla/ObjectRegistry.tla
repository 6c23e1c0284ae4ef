--------------------------- MODULE ObjectRegistry ---------------------------
(***************************************************************************)
(* What the object heap promises to the rest of the driver, with no slot,  *)
(* generation, free list or reference counter in sight: a handle names one *)
(* object for ever, a withdrawn handle names nothing, and an object is     *)
(* destroyed exactly when it is neither published nor used by anybody.     *)
(***************************************************************************)
CONSTANTS
  Objects,   \* driver objects (configs, contexts, surfaces, buffers, images)
  Holders,   \* whoever may keep a pointer: API calls, jobs, other objects
  Handles    \* the VA handles that can be given out

VARIABLES
  name,      \* the handle given to each object, 0 when it never had one
  published, \* the objects that can be looked up
  users,     \* the holders that use each object
  life       \* "unborn", "live" or "destroyed"

vars == <<name, published, users, life>>

Init ==
  /\ name = [o \in Objects |-> 0]
  /\ published = {}
  /\ users = [o \in Objects |-> {}]
  /\ life = [o \in Objects |-> "unborn"]

New(h, o) ==
  /\ life[o] = "unborn"
  /\ life' = [life EXCEPT ![o] = "live"]
  /\ users' = [users EXCEPT ![o] = {h}]
  /\ UNCHANGED <<name, published>>

(* The handle is one no object ever had; the registry takes over h's use.  *)
Publish(h, o, x) ==
  /\ h \in users[o]
  /\ name[o] = 0
  /\ \A p \in Objects : name[p] # x
  /\ name' = [name EXCEPT ![o] = x]
  /\ published' = published \cup {o}
  /\ users' = [users EXCEPT ![o] = @ \ {h}]
  /\ UNCHANGED life

Lookup(h, o) ==
  /\ o \in published
  /\ users' = [users EXCEPT ![o] = @ \cup {h}]
  /\ UNCHANGED <<name, published, life>>

Withdraw(h, o) ==
  /\ o \in published
  /\ published' = published \ {o}
  /\ users' = [users EXCEPT ![o] = @ \cup {h}]
  /\ UNCHANGED <<name, life>>

Share(h, g, o) ==
  /\ h \in users[o]
  /\ users' = [users EXCEPT ![o] = @ \cup {g}]
  /\ UNCHANGED <<name, published, life>>

Drop(h, o) ==
  /\ h \in users[o]
  /\ users' = [users EXCEPT ![o] = @ \ {h}]
  /\ life' = IF users'[o] = {} /\ o \notin published
               THEN [life EXCEPT ![o] = "destroyed"] ELSE life
  /\ UNCHANGED <<name, published>>

Shutdown ==
  /\ published' = {}
  /\ life' = [o \in Objects |->
                IF o \in published /\ users[o] = {} THEN "destroyed"
                                                    ELSE life[o]]
  /\ UNCHANGED <<name, users>>

Next ==
  \/ \E h \in Holders, o \in Objects :
       \/ New(h, o)
       \/ \E x \in Handles : Publish(h, o, x)
       \/ Lookup(h, o)
       \/ Withdraw(h, o)
       \/ \E g \in Holders : Share(h, g, o)
       \/ Drop(h, o)
  \/ Shutdown

Spec == Init /\ [][Next]_vars
=============================================================================

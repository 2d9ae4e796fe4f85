---------------------------- MODULE ReactionBook ----------------------------
(***************************************************************************)
(* What the reaction mutations promise, without transactions, connections  *)
(* or row identifiers: every user has at most one reaction to a target,    *)
(* and every call takes effect at most once, between its submission and    *)
(* its answer.  ReactionStore is shown to implement this module.           *)
(***************************************************************************)

CONSTANTS Users, Targets, Reactions, Calls, None

VARIABLES
  book,     \* the set of <<user, target, reaction>> in force
  request,  \* request[c]: what call c asks for, None when c is not in flight
  applied,  \* applied[c]: call c, not yet answered, has taken effect
  outcome   \* outcome[c]: the answer given, None before it is given

vars == <<book, request, applied, outcome>>

Request ==
  [kind : {"set"}, user : Users, target : Targets, reaction : Reactions]
    \union [kind : {"unset"}, user : Users, target : Targets]

Besides(user, target) == {e \in book : e[1] # user \/ e[2] # target}

Init ==
  /\ book = {}
  /\ request = [c \in Calls |-> None]
  /\ applied = [c \in Calls |-> FALSE]
  /\ outcome = [c \in Calls |-> None]

Submit(c) ==
  /\ request[c] = None
  /\ \E r \in Request : request' = [request EXCEPT ![c] = r]
  /\ UNCHANGED <<book, applied, outcome>>

ApplySet(c) ==
  LET r == request[c] IN
  /\ r # None
  /\ r.kind = "set"
  /\ ~applied[c]
  /\ outcome[c] = None
  /\ book' = Besides(r.user, r.target) \union {<<r.user, r.target, r.reaction>>}
  /\ applied' = [applied EXCEPT ![c] = TRUE]
  /\ UNCHANGED <<request, outcome>>

\* Calls that ask to clear the same reaction may be served by one deletion.
ApplyUnset(user, target, served) ==
  /\ \A c \in served :
       /\ ~applied[c]
       /\ outcome[c] = None
       /\ request[c] = [kind |-> "unset", user |-> user, target |-> target]
  /\ book' = Besides(user, target)
  /\ applied' = [c \in Calls |-> c \in served \/ applied[c]]
  /\ UNCHANGED <<request, outcome>>

\* Success is answered only by a call that took effect; failure at any time.
Answer(c) ==
  /\ request[c] # None
  /\ outcome[c] = None
  /\ \E success \in BOOLEAN :
       /\ success => applied[c]
       /\ outcome' = [outcome EXCEPT ![c] = success]
  /\ applied' = [applied EXCEPT ![c] = FALSE]
  /\ UNCHANGED <<book, request>>

\* The caller has read the answer and may call again.
Forget(c) ==
  /\ outcome[c] # None
  /\ request' = [request EXCEPT ![c] = None]
  /\ outcome' = [outcome EXCEPT ![c] = None]
  /\ UNCHANGED <<book, applied>>

Next ==
  \/ \E c \in Calls : Submit(c) \/ ApplySet(c) \/ Answer(c) \/ Forget(c)
  \/ \E u \in Users, t \in Targets, served \in SUBSET Calls :
       served # {} /\ ApplyUnset(u, t, served)

Spec == Init /\ [][Next]_vars

TypeOK ==
  /\ book \subseteq Users \X Targets \X Reactions
  /\ request \in [Calls -> Request \union {None}]
  /\ applied \in [Calls -> BOOLEAN]
  /\ outcome \in [Calls -> BOOLEAN \union {None}]
=============================================================================

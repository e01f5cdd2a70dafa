---------------------------- MODULE SessionTable ----------------------------
(***************************************************************************)
(* What the session manager promises to the requests that share its        *)
(* sessions.  A session that one request at a time has in hand loses       *)
(* nothing: each write adds the effect of its request to what the session  *)
(* shows, a request is told that its effect is there only if it is, and a  *)
(* restart takes nothing back.  Of a session that two requests have in     *)
(* hand at once, or whose writer was dropped in the middle of a write, it  *)
(* promises only that it is still there.                                   *)
(***************************************************************************)
CONSTANTS Sessions, Requests

VARIABLES
    shows,        \* the effects each session shows; none before it is created
    users,        \* the requests that have it in hand
    lost,         \* the sessions for which nothing is promised any more
    told          \* the effects that finished requests were told are there

tableVars == <<shows, users, lost, told>>

Created == <<"new">>

\* What a request can do to a session that is there: count its tokens,
\* archive it, record a model.
Effects(r) == {<<"tokens", r>>, <<"archive">>, <<"model">>}
AllEffects == {Created} \union UNION {Effects(r) : r \in Requests}

Init ==
    /\ shows = [s \in Sessions |-> {}]
    /\ users = [s \in Sessions |-> {}]
    /\ lost = {}
    /\ told = {}

Take(r, s) ==
    /\ users' = [users EXCEPT ![s] = @ \union {r}]
    /\ lost' = IF users[s] \subseteq {r} THEN lost ELSE lost \union {s}
    /\ UNCHANGED <<shows, told>>

Create(r, s) ==
    /\ r \in users[s] /\ shows[s] = {}
    /\ shows' = [shows EXCEPT ![s] = {Created}]
    /\ UNCHANGED <<users, lost, told>>

Write(r, s) ==
    /\ r \in users[s] /\ Created \in shows[s]
    /\ \/ \E e \in Effects(r) : shows' = [shows EXCEPT ![s] = @ \union {e}]
       \/ /\ s \in lost
          /\ \E E \in SUBSET AllEffects :
                Created \in E /\ shows' = [shows EXCEPT ![s] = E]
    /\ UNCHANGED <<users, lost, told>>

\* The request lets go of the session, and may be told that it is done.
Release(r, s) ==
    /\ users' = [users EXCEPT ![s] = @ \ {r}]
    /\ \/ UNCHANGED told
       \/ \E e \in Effects(r) \union {Created} :
             (e \in shows[s] \/ s \in lost) /\ told' = told \union {<<s, e>>}
    /\ UNCHANGED <<shows, lost>>

\* It is dropped in the middle of a write.
Abandon(r, s) ==
    /\ r \in users[s]
    /\ users' = [users EXCEPT ![s] = @ \ {r}]
    /\ lost' = lost \union {s}
    /\ UNCHANGED <<shows, told>>

Restart ==
    /\ users' = [s \in Sessions |-> {}]
    /\ UNCHANGED <<shows, lost, told>>

Next ==
    \/ \E r \in Requests, s \in Sessions :
          Take(r, s) \/ Create(r, s) \/ Write(r, s) \/ Release(r, s) \/ Abandon(r, s)
    \/ Restart

Spec == Init /\ [][Next]_tableVars
=============================================================================

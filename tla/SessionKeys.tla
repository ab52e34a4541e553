------------------------------ MODULE SessionKeys ------------------------------
(***************************************************************************)
(* What rekeying promises the two ends of a session, with no wire between   *)
(* them and no clock: a key is made only for a peer that asks, by an end    *)
(* that shares its present one, and the asker takes exactly that key.  When *)
(* both ask, the leader's request is the one that is answered.              *)
(***************************************************************************)
EXTENDS Naturals

CONSTANTS Leader, Follower

VARIABLES
  state,   \* ACTIVE, REKEYING or CLOSED
  epoch,   \* how often an end has changed its key
  key,     \* the key an end sends under
  made     \* keys made so far

keyVars == <<state, epoch, key, made>>

Side == {Leader, Follower}
Peer(s) == IF s = Leader THEN Follower ELSE Leader

Init ==
  /\ state = [s \in Side |-> "ACTIVE"]
  /\ epoch = [s \in Side |-> 0]
  /\ key = [s \in Side |-> 0]
  /\ made = 0

Enter(s, k) ==
  /\ state' = [state EXCEPT ![s] = "ACTIVE"]
  /\ epoch' = [epoch EXCEPT ![s] = @ + 1]
  /\ key' = [key EXCEPT ![s] = k]

Ask(s) ==
  /\ state[s] = "ACTIVE"
  /\ state' = [state EXCEPT ![s] = "REKEYING"]
  /\ UNCHANGED <<epoch, key, made>>

\* s answers: its peer has asked (and may be gone since), and s itself has not,
\* unless it is the one to give way.
Lead(s) ==
  /\ state[s] = "ACTIVE" \/ (state[s] = "REKEYING" /\ s = Follower)
  /\ state[Peer(s)] # "ACTIVE"
  /\ epoch[s] = epoch[Peer(s)] /\ key[s] = key[Peer(s)]
  /\ made' = made + 1
  /\ Enter(s, made + 1)

\* s has its answer.
Follow(s) ==
  /\ state[s] = "REKEYING"
  /\ epoch[Peer(s)] = epoch[s] + 1
  /\ Enter(s, key[Peer(s)])
  /\ UNCHANGED made

Close(s) ==
  /\ state[s] # "CLOSED"
  /\ state' = [state EXCEPT ![s] = "CLOSED"]
  /\ UNCHANGED <<epoch, key, made>>

Next == \E s \in Side : Ask(s) \/ Lead(s) \/ Follow(s) \/ Close(s)

Spec == Init /\ [][Next]_keyVars
================================================================================

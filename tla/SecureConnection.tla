---------------------------- MODULE SecureConnection ----------------------------
(***************************************************************************)
(* The two ends of one session of the secure transport: what each end does  *)
(* to send, to change the channel key, and to close.                        *)
(*   conn[s]  state     ACTIVE, REKEYING or CLOSED (closed, authed, state)   *)
(*            scp       SessionControlPlane.state; SWITCHING lasts no longer *)
(*                      than the handler that enters it                      *)
(*            epoch, active, previous   the keys and their epoch             *)
(*            eph       the ephemeral key of the own request, 0 for none     *)
(*            streak    rekeyFailureStreak                                   *)
(*            sends     calls of send past maybeAutoRekey, not yet resumed   *)
(*            auto      autoRekeyInFlight: a send waits for the rekey it began *)
(*            prevAge, pendingAge, cool   the time since the last switch,    *)
(*                      the own request, the last rekey of one's own         *)
(*   wire[s]  the frames on their way to s, in order                         *)
(* The frame sink is a parameter.  The server joins the two ends by calls,  *)
(* which is a wire without delay; a socket keeps the order and takes time.   *)
(* Time passes in ticks; a frame arrives within MaxDelay of them.            *)
(* A key is a number: the responder draws it (symmetric), or both derive it *)
(* from the ephemeral keys of request and response (PFS).  The closes that   *)
(* rate limit, trust, idleness and age cause are closes at any time.         *)
(***************************************************************************)
EXTENDS Integers, Sequences

CONSTANTS
  Leader, Follower,  \* the end with the smaller node id, and the other one
  Pfs,               \* rekeyMode
  AllowTraffic,      \* trafficDuringRekey
  MaxDelay,          \* bound on the time a frame takes
  PrevTtl,           \* previousKeyTtlMs
  Cooldown,          \* rekeyCooldownMs
  PendingTimeout,    \* rekeyPendingTimeoutMs
  MaxRequests,       \* bound: rekey requests
  MaxData,           \* bound: calls of send
  MaxCloses          \* bound: ends that close for reasons of their own

Side == {Leader, Follower}
Other(s) == IF s = Leader THEN Follower ELSE Leader

\* The previous key outlives whatever was sent before the peer switched.
ASSUME TransportAssumption ==
  /\ Leader # Follower
  /\ Pfs \in BOOLEAN /\ AllowTraffic \in BOOLEAN
  /\ MaxDelay \in Nat /\ PrevTtl \in Nat /\ Cooldown \in Nat /\ PendingTimeout \in Nat
  /\ 2 * MaxDelay < PrevTtl
  /\ 2 * MaxDelay <= PendingTimeout
  /\ MaxRequests \in Nat /\ MaxData \in Nat /\ MaxCloses \in Nat

VARIABLES
  conn, wire,
  made,    \* history: keys made so far
  asked,   \* history: rekey requests so far
  sent,    \* history: calls of send
  closes   \* history: ends that closed on their own

vars == <<conn, wire, made, asked, sent, closes>>

NoKey == -1

\* key is what a frame is encrypted (and a response signed) with.
Frame == [type : {"DATA", "REKEY_REQUEST", "REKEY_RESPONSE"}, key : Nat, epoch : Nat,
          eph : Nat, fresh : Nat, age : Nat]

Conn == [state : {"ACTIVE", "REKEYING", "CLOSED"}, scp : {"STABLE", "REKEYING", "TERMINATED"},
         epoch : Nat, active : Nat, previous : Nat \cup {NoKey}, eph : Nat, streak : Nat,
         sends : Nat, auto : BOOLEAN, prevAge : Nat, pendingAge : Nat, cool : Nat]

\* The types; a session has an ephemeral key only while its own request is pending,
\* and a request is out only in the state REKEYING.
TransportTypeOK ==
  /\ conn \in [Side -> Conn]
  /\ wire \in [Side -> Seq(Frame)]
  /\ made \in Nat /\ asked \in Nat /\ sent \in Nat /\ closes \in Nat
  /\ \A s \in Side :
       /\ conn[s].eph # 0 /\ conn[s].state # "CLOSED" => conn[s].state = "REKEYING"
       /\ conn[s].state = "ACTIVE" => conn[s].scp = "STABLE"
       /\ conn[s].state = "REKEYING" => conn[s].scp = "REKEYING"

NewConn ==
  [state |-> "ACTIVE", scp |-> "STABLE", epoch |-> 0, active |-> 0, previous |-> NoKey,
   eph |-> 0, streak |-> 0, sends |-> 0, auto |-> FALSE, prevAge |-> 0, pendingAge |-> 0, cool |-> Cooldown]

Init ==
  /\ conn = [s \in Side |-> NewConn]
  /\ wire = [s \in Side |-> <<>>]
  /\ made = 0 /\ asked = 0 /\ sent = 0 /\ closes = 0

-------------------------------------------------------------------------------
(* What the handlers do to one end *)

Open(s) == conn[s].state # "CLOSED"

\* sendControl
FrameOf(type, c, eph, fresh) ==
  [type |-> type, key |-> c.active, epoch |-> c.epoch, eph |-> eph, fresh |-> fresh,
   age |-> 0]

\* argsPeerClose, and terminateSession, which also ends the control plane
Closed(c) == [c EXCEPT !.state = "CLOSED"]
Terminated(c) == [c EXCEPT !.state = "CLOSED", !.scp = "TERMINATED"]

\* decryptAes256Gcm with the active key, then with the previous one
Decrypts(c, f) == f.key = c.active \/ f.key = c.previous

\* The epoch binding of DATA
InEpochWindow(c, f) == f.epoch \in {c.epoch - 1, c.epoch}

Readable(c, f) == Decrypts(c, f) /\ (f.type = "DATA" => InEpochWindow(c, f))

\* Fault: only the rekey that a send began is watched.
OverdueIfAuto(c) == c.state = "REKEYING" /\ c.auto /\ c.pendingAge > PendingTimeout

\* rekeyPendingSince is over the timeout: enforceLifecycle, waitRekeySettled
Overdue(c) == c.state = "REKEYING" /\ c.pendingAge > PendingTimeout

\* Fault: the previous key is dropped with the switch.
SwitchedAtOnce(c, key) ==
  [c EXCEPT !.previous = NoKey, !.prevAge = 0, !.active = key, !.epoch = @ + 1,
            !.state = "ACTIVE", !.scp = "STABLE", !.streak = 0, !.pendingAge = 0]

\* The dual-key window, then completeRekeySuccess
Switched(c, key) ==
  [c EXCEPT !.previous = c.active, !.prevAge = 0, !.active = key, !.epoch = @ + 1,
            !.state = "ACTIVE", !.scp = "STABLE", !.streak = 0, !.pendingAge = 0]

\* resolveRekeyCollision: the request of the leader is the one that counts.
RekeyInProgress(c) == c.scp = "REKEYING" \/ c.state = "REKEYING"

\* Fault: a request that crosses the own one is answered like any other.
IgnoresIncomingNever(s) == FALSE

\* Fault: whoever has a request out ignores the other one.
IgnoresIncomingAlways(s) == RekeyInProgress(conn[s])

IgnoresIncoming(s) == RekeyInProgress(conn[s]) /\ s = Leader

\* Fault: the ephemeral key of the aborted request stays.
AbortLocalRekeyKeepingKey(c) ==
  IF RekeyInProgress(c)
  THEN [c EXCEPT !.pendingAge = 0, !.streak = @ + 1, !.state = "ACTIVE", !.scp = "STABLE"]
  ELSE c

\* abortLocalRekey
AbortLocalRekey(c) ==
  IF RekeyInProgress(c)
  THEN [c EXCEPT !.eph = 0, !.pendingAge = 0, !.streak = @ + 1,
                 !.state = "ACTIVE", !.scp = "STABLE"]
  ELSE c

\* A response that does not verify: the third in a row ends the session.
RekeyFailed(c) ==
  LET d == [c EXCEPT !.eph = 0, !.streak = @ + 1, !.state = "ACTIVE"]
  IN  IF d.streak >= 3 THEN Terminated(d) ELSE d

\* The signature covers the ephemeral key of the request, if there is one.
Verifies(c, f) == f.key = c.active /\ (Pfs => c.eph # 0 /\ f.eph = c.eph)

-------------------------------------------------------------------------------
(* Operations of one end *)

\* conn[s] becomes c, and s sends the frames out.
Step(s, c, out) ==
  /\ conn' = [conn EXCEPT ![s] = c]
  /\ wire' = [wire EXCEPT ![Other(s)] = @ \o out]

\* requestRekeyImpl past its gate: state, rekeyPendingSince, the ephemeral key.
Asked(c) == [c EXCEPT !.state = "REKEYING", !.scp = "REKEYING", !.pendingAge = 0,
                      !.eph = IF Pfs THEN asked + 1 ELSE 0]

\* canTriggerRekey, and the follower's way around it for a MANUAL request.
LeaderMayAsk(s) == s = Leader /\ conn[s].scp = "STABLE" /\ conn[s].cool >= Cooldown

StartRekey(s, auto) ==
  /\ conn[s].state = "ACTIVE" /\ asked < MaxRequests
  /\ Pfs => conn[s].eph = 0
  /\ asked' = asked + 1
  /\ LET c == Asked(conn[s])
     IN  Step(s, [c EXCEPT !.auto = @ \/ auto],
              <<FrameOf("REKEY_REQUEST", conn[s], IF Pfs THEN asked + 1 ELSE 0, 0)>>)

\* requestRekey('MANUAL')
RequestRekey(s) ==
  /\ LeaderMayAsk(s) \/ s = Follower
  /\ StartRekey(s, FALSE)
  /\ UNCHANGED <<made, sent, closes>>

\* send up to its await.  A rekey that is due begins here, at the leader.
BeginSend(s) ==
  /\ sent < MaxData
  /\ \/ conn[s].state = "ACTIVE"
     \/ conn[s].state = "REKEYING" /\ AllowTraffic
  /\ sent' = sent + 1
  /\ Step(s, [conn[s] EXCEPT !.sends = @ + 1], <<>>)
  /\ UNCHANGED <<made, asked, closes>>

BeginSendRekeying(s) ==
  /\ sent < MaxData /\ ~conn[s].auto /\ LeaderMayAsk(s)
  /\ StartRekey(s, TRUE)
  /\ sent' = sent + 1
  /\ UNCHANGED <<made, closes>>

\* The rest of send: under whatever key and epoch are active by then.
FinishSend(s) ==
  /\ conn[s].sends > 0
  /\ Step(s, [conn[s] EXCEPT !.sends = @ - 1],
          IF Open(s) THEN <<FrameOf("DATA", conn[s], 0, 0)>> ELSE <<>>)
  /\ UNCHANGED <<made, asked, sent, closes>>

FinishSendRekeying(s) ==
  /\ conn[s].auto /\ conn[s].state # "REKEYING"
  /\ Step(s, [conn[s] EXCEPT !.auto = FALSE],
          IF Open(s) THEN <<FrameOf("DATA", conn[s], 0, 0)>> ELSE <<>>)
  /\ UNCHANGED <<made, asked, sent, closes>>

\* The three ways a session ends: a timeout, a frame it cannot read (in Receive),
\* and anything else.  The peer is not told.
RekeyTimesOut(s) ==
  /\ Overdue(conn[s])
  /\ Step(s, Terminated(conn[s]), <<>>)
  /\ UNCHANGED <<made, asked, sent, closes>>

Close(s) ==
  /\ Open(s) /\ closes < MaxCloses
  /\ closes' = closes + 1
  /\ Step(s, Closed(conn[s]), <<>>)
  /\ UNCHANGED <<made, asked, sent>>

-------------------------------------------------------------------------------
(* handleIncomingEncrypted, one action for each outcome *)

\* The next frame for s leaves the wire, conn[s] becomes c, s answers with out.
Take(s, c, out) ==
  /\ conn' = [conn EXCEPT ![s] = c]
  /\ wire' = [wire EXCEPT ![s] = Tail(@), ![Other(s)] = @ \o out]
  /\ UNCHANGED <<asked, sent, closes>>

Arrives(s, type) ==
  /\ wire[s] # <<>> /\ Head(wire[s]).type = type
  /\ Open(s) /\ ~Overdue(conn[s])
  /\ Readable(conn[s], Head(wire[s]))

\* A closed end ignores frames; one whose rekey is overdue or whose keys do not fit
\* the frame closes.
ReceiveNothing(s) ==
  /\ wire[s] # <<>>
  /\ ~(Open(s) /\ ~Overdue(conn[s]) /\ Readable(conn[s], Head(wire[s])))
  /\ Take(s, CASE ~Open(s) -> conn[s]
               [] Open(s) /\ Overdue(conn[s]) -> Terminated(conn[s])
               [] OTHER -> Closed(conn[s]), <<>>)
  /\ UNCHANGED made

ReceiveData(s) ==
  /\ Arrives(s, "DATA")
  /\ Take(s, conn[s], <<>>)
  /\ UNCHANGED made

\* Fault: the request that wins is dropped together with the one it aborts.
ReceiveRequestAbortOnly(s) ==
  /\ Arrives(s, "REKEY_REQUEST")
  /\ IF RekeyInProgress(conn[s])
     THEN Take(s, IF s = Leader THEN conn[s] ELSE AbortLocalRekey(conn[s]), <<>>)
          /\ UNCHANGED made
     ELSE /\ Take(s, Switched(conn[s], made + 1),
                  <<FrameOf("REKEY_RESPONSE", conn[s], Head(wire[s]).eph, made + 1)>>)
          /\ made' = made + 1

\* The responder answers under the old key, then switches to the new one.
ReceiveRequest(s) ==
  /\ Arrives(s, "REKEY_REQUEST")
  /\ IF IgnoresIncoming(s)
     THEN Take(s, conn[s], <<>>) /\ UNCHANGED made
     ELSE /\ Take(s, Switched(AbortLocalRekey(conn[s]), made + 1),
                  <<FrameOf("REKEY_RESPONSE", conn[s], Head(wire[s]).eph, made + 1)>>)
          /\ made' = made + 1

ReceiveResponse(s) ==
  /\ Arrives(s, "REKEY_RESPONSE")
  /\ Take(s, IF Verifies(conn[s], Head(wire[s]))
             THEN [Switched(conn[s], Head(wire[s]).fresh) EXCEPT !.eph = 0, !.cool = 0]
             ELSE RekeyFailed(conn[s]), <<>>)
  /\ UNCHANGED made

Receive(s) ==
  ReceiveNothing(s) \/ ReceiveData(s) \/ ReceiveRequest(s) \/ ReceiveResponse(s)

-------------------------------------------------------------------------------
(* Time *)

CapAt(n, bound) == IF n < bound THEN n + 1 ELSE bound

\* A clock that nothing reads any more stands still.
Aged(c) ==
  [c EXCEPT !.previous = IF c.prevAge + 1 >= PrevTtl THEN NoKey ELSE @,
            !.prevAge = IF c.previous = NoKey THEN 0 ELSE @ + 1,
            !.pendingAge = IF c.state = "REKEYING" THEN CapAt(@, PendingTimeout + 1) ELSE @,
            !.cool = CapAt(@, Cooldown)]

\* A frame due is delivered and an overdue rekey ended before time goes on.
Tick ==
  /\ \A s \in Side : ~Overdue(conn[s])
  /\ \A s \in Side : wire[s] # <<>> => Head(wire[s]).age < MaxDelay
  /\ conn' = [s \in Side |-> IF Open(s) THEN Aged(conn[s]) ELSE conn[s]]
  /\ wire' = [s \in Side |-> [i \in DOMAIN wire[s] |-> [wire[s][i] EXCEPT !.age = @ + 1]]]
  /\ UNCHANGED <<made, asked, sent, closes>>

Next ==
  \/ Tick
  \/ \E s \in Side :
       \/ RequestRekey(s) \/ BeginSend(s) \/ BeginSendRekeying(s)
       \/ FinishSend(s) \/ FinishSendRekeying(s)
       \/ RekeyTimesOut(s) \/ Close(s) \/ Receive(s)

Spec == Init /\ [][Next]_vars

\* The wire delivers, the clock runs, and the loop of waitRekeySettled is scheduled.
TransportFairness ==
  /\ WF_vars(Tick)
  /\ \A s \in Side : WF_vars(Receive(s)) /\ WF_vars(RekeyTimesOut(s))

FairSpec == Spec /\ TransportFairness

-------------------------------------------------------------------------------
(* Properties *)

BothOpen == Open(Leader) /\ Open(Follower)

\* The RESPONSE that brings o the key of s is still on its way to o.
KeyOnItsWay(s, o) ==
  \E i \in DOMAIN wire[o] :
    /\ wire[o][i].type = "REKEY_RESPONSE"
    /\ wire[o][i].fresh = conn[s].active /\ wire[o][i].key = conn[o].active

\* The two ends never drift apart, whoever asks and however requests cross: they are
\* in the same epoch with the same key, or one is a switch ahead and the answer that
\* makes the other follow is on the wire (resolveRekeyCollision, the dual-key window).
KeysAgree ==
  BothOpen =>
    \/ /\ conn[Leader].epoch = conn[Follower].epoch
       /\ conn[Leader].active = conn[Follower].active
    \/ \E s \in Side :
         /\ conn[s].epoch = conn[Other(s)].epoch + 1
         /\ KeyOnItsWay(s, Other(s))

\* No session dies of its own rekeying: a frame that reaches an open end is under a key
\* and of an epoch that this end still accepts (previousKeyTtlMs, the epoch binding).
FramesReadable ==
  BothOpen =>
    \A s \in Side : wire[s] # <<>> => Readable(conn[s], Head(wire[s]))

\* A request is settled after one way there and one back, a crossed one too: the
\* timeout of the pending rekey only ever ends a session whose peer has gone.
AnsweredInTime ==
  \A s \in Side :
    BothOpen /\ conn[s].state = "REKEYING" => conn[s].pendingAge <= 2 * MaxDelay

\* An end leaves the state REKEYING with a new epoch or closed, never with the key it
\* began with: a response that does not verify does not occur on a wire in order.
RekeyMakesProgress ==
  [][\A s \in Side :
       conn[s].state = "REKEYING" /\ conn'[s].state = "ACTIVE" =>
         conn'[s].epoch = conn[s].epoch + 1 /\ conn'[s].active # conn[s].active]_vars

\* The two ends refine SessionKeys: through crossing requests, delays, data under old
\* keys and closes, an end changes its key only by making the one its peer asked for or
\* by taking the one its peer made (handleRekeyRequest, handleRekeyResponse).
Keys == INSTANCE SessionKeys WITH
          state <- [s \in Side |-> conn[s].state],
          epoch <- [s \in Side |-> conn[s].epoch],
          key <- [s \in Side |-> conn[s].active]

ImplementsSessionKeys == Keys!Spec

\* Every rekey ends, in a new key or with the session (waitRekeySettled).
RekeyEnds == \A s \in Side : conn[s].state = "REKEYING" ~> conn[s].state # "REKEYING"
===============================================================================

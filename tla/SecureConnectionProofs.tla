------------------------ MODULE SecureConnectionProofs ------------------------
(***************************************************************************)
(* Proofs about SecureConnection, for any bounds and clocks.  The invariant *)
(* KeyInv reads a wire from the point of view of its receiver c and sender   *)
(* d: an epoch tells the key of a frame, epochs never fall along the wire,   *)
(* at most one request of the sender's epoch is out, and when the sender is  *)
(* a switch ahead, the response that makes the receiver follow is out.       *)
(* TimeInv bounds the ages: of the previous key by the frames that still     *)
(* need it, of a pending rekey by the frame that will settle it.             *)
(***************************************************************************)
EXTENDS SecureConnection, SequenceTheorems, TLAPS

Request == "REKEY_REQUEST"
Response == "REKEY_RESPONSE"

Behind(c, d) == d.epoch = c.epoch + 1
Ahead(c, d) == c.epoch = d.epoch + 1

EpochsOK(c, d) ==
  /\ c.epoch = d.epoch \/ Behind(c, d) \/ Ahead(c, d)
  /\ c.epoch = d.epoch => c.active = d.active
  /\ Behind(c, d) => c.state = "REKEYING" /\ d.active # c.active

\* A frame f on the wire to s; only the leader is sent requests it will ignore.
FrameOK(s, c, d, f) ==
  /\ f.epoch \in {c.epoch - 1, c.epoch, d.epoch}
  /\ f.epoch = c.epoch - 1 => f.type = "DATA"
  /\ f.epoch = c.epoch => f.key = c.active
  /\ f.epoch = d.epoch => f.key = d.active
  /\ Ahead(c, d) => f.epoch = d.epoch
  /\ f.type = Request =>
       IF f.epoch = d.epoch THEN d.state # "ACTIVE" /\ f.eph = d.eph ELSE s = Leader
  /\ f.type = Response =>
       Behind(c, d) /\ f.epoch = c.epoch /\ f.eph = c.eph /\ f.fresh = d.active

OrderOK(d, w) ==
  \A i, j \in DOMAIN w : i < j =>
    /\ w[i].epoch <= w[j].epoch
    /\ w[i].type = Response => w[j].epoch = d.epoch
    /\ ~(w[i].type = Request /\ w[j].type = Request /\ w[i].epoch = d.epoch)

ChannelOK(s, c, d, w) ==
  /\ EpochsOK(c, d)
  /\ \A i \in DOMAIN w : FrameOK(s, c, d, w[i])
  /\ OrderOK(d, w)
  /\ Behind(c, d) => \E i \in DOMAIN w : w[i].type = Response

\* Keys are numbered as they are made; a pending PFS request has its ephemeral key.
EndOK(c, m) ==
  /\ c.active <= m
  /\ c.state = "REKEYING" => (Pfs <=> c.eph # 0)
  /\ ~Pfs => c.eph = 0

KeyInv ==
  /\ TransportTypeOK
  /\ \A s \in Side : EndOK(conn[s], made)
  /\ \A s \in Side : Open(s) => ChannelOK(s, conn[s], conn[Other(s)], wire[s])

-------------------------------------------------------------------------------
(* Types and sequences *)

LEMMA OtherFacts ==
  \A s \in Side : Other(s) \in Side /\ Other(s) # s /\ Other(Other(s)) = s
BY TransportAssumption DEF Side, Other

LEMMA ConnFields ==
  ASSUME NEW c \in Conn
  PROVE  /\ c.state \in {"ACTIVE", "REKEYING", "CLOSED"}
         /\ c.epoch \in Nat /\ c.active \in Nat /\ c.previous \in Nat \cup {NoKey}
         /\ c.eph \in Nat /\ c.sends \in Nat /\ c.streak \in Nat /\ c.auto \in BOOLEAN
         /\ c.prevAge \in Nat /\ c.pendingAge \in Nat /\ c.cool \in Nat
BY DEF Conn

LEMMA FrameFields ==
  ASSUME NEW f \in Frame
  PROVE  /\ f.type \in {"DATA", Request, Response}
         /\ f.key \in Nat /\ f.epoch \in Nat /\ f.eph \in Nat /\ f.fresh \in Nat
         /\ f.age \in Nat
BY DEF Frame, Request, Response

LEMMA FramesOf ==
  ASSUME NEW w \in Seq(Frame)
  PROVE  /\ Len(w) \in Nat /\ DOMAIN w = 1..Len(w)
         /\ \A i \in DOMAIN w : w[i] \in Frame /\ i \in Nat
OBVIOUS

LEMMA TailFacts ==
  ASSUME NEW w \in Seq(Frame), w # <<>>
  PROVE  /\ Tail(w) \in Seq(Frame)
         /\ \A i \in DOMAIN Tail(w) : i \in Nat /\ i + 1 \in DOMAIN w /\ Tail(w)[i] = w[i + 1]
         /\ \A i \in DOMAIN w : i # 1 => i - 1 \in DOMAIN Tail(w) /\ Tail(w)[i - 1] = w[i]
         /\ 1 \in DOMAIN w /\ Head(w) = w[1] /\ Head(w) \in Frame
         /\ \A i \in DOMAIN Tail(w) : 1 < i + 1
<1>1. Tail(w) \in Seq(Frame) /\ Len(Tail(w)) = Len(w) - 1 /\ Len(w) \in Nat /\ Len(w) > 0
  BY HeadTailProperties, EmptySeq, LenProperties
<1>2. DOMAIN w = 1..Len(w) /\ DOMAIN Tail(w) = 1..(Len(w) - 1)
  BY <1>1
<1>3. \A i \in 1..(Len(w) - 1) : Tail(w)[i] = w[i + 1]
  BY <1>1
<1>4. Head(w) = w[1] /\ w[1] \in Frame
  BY <1>1
<1>. QED BY <1>1, <1>2, <1>3, <1>4

LEMMA OneMore ==
  ASSUME NEW w \in Seq(Frame), NEW f \in Frame
  PROVE  /\ w \o <<f>> \in Seq(Frame)
         /\ \A i \in DOMAIN w : i \in DOMAIN (w \o <<f>>) /\ (w \o <<f>>)[i] = w[i]
         /\ Len(w) + 1 \in DOMAIN (w \o <<f>>) /\ (w \o <<f>>)[Len(w) + 1] = f
         /\ \A i \in DOMAIN (w \o <<f>>) : i \in DOMAIN w \/ i = Len(w) + 1
         /\ \A i \in DOMAIN w : i < Len(w) + 1
<1>. DEFINE p == w \o <<f>>
<1>1. p \in Seq(Frame) /\ Len(p) = Len(w) + 1 /\ Len(w) \in Nat
  OBVIOUS
<1>2. DOMAIN w = 1..Len(w) /\ DOMAIN p = 1..(Len(w) + 1)
  BY <1>1
<1>3. (\A i \in 1..Len(w) : p[i] = w[i]) /\ p[Len(w) + 1] = f
  OBVIOUS
<1>. QED BY <1>1, <1>2, <1>3

LEMMA NoneMore == \A w \in Seq(Frame) : w \o <<>> = w
OBVIOUS

-------------------------------------------------------------------------------
(* One wire, seen by its receiver s with the ends c and d *)

\* What the receiver reads leaves the wire in order.
LEMMA ChannelTail ==
  ASSUME NEW s \in Side, NEW c \in Conn, NEW d \in Conn, NEW w \in Seq(Frame),
         w # <<>>, Head(w).type # Response, ChannelOK(s, c, d, w)
  PROVE  ChannelOK(s, c, d, Tail(w))
<1>1. \A i \in DOMAIN Tail(w) : FrameOK(s, c, d, Tail(w)[i])
  BY TailFacts DEF ChannelOK
<1>2. OrderOK(d, Tail(w))
  <2>. SUFFICES ASSUME NEW i \in DOMAIN Tail(w), NEW j \in DOMAIN Tail(w), i < j
                PROVE  /\ Tail(w)[i].epoch <= Tail(w)[j].epoch
                       /\ Tail(w)[i].type = Response => Tail(w)[j].epoch = d.epoch
                       /\ ~(/\ Tail(w)[i].type = Request /\ Tail(w)[j].type = Request
                            /\ Tail(w)[i].epoch = d.epoch)
    BY DEF OrderOK
  <2>1. i + 1 \in DOMAIN w /\ j + 1 \in DOMAIN w /\ i + 1 < j + 1
        /\ Tail(w)[i] = w[i + 1] /\ Tail(w)[j] = w[j + 1]
    BY TailFacts
  <2>. QED BY <2>1 DEF ChannelOK, OrderOK
<1>3. ASSUME Behind(c, d) PROVE \E i \in DOMAIN Tail(w) : Tail(w)[i].type = Response
  <2>1. PICK i \in DOMAIN w : w[i].type = Response
    BY <1>3 DEF ChannelOK
  <2>. QED BY <2>1, TailFacts
<1>. QED BY <1>1, <1>2, <1>3 DEF ChannelOK

\* What else the ends do does not disturb the wire: the receiver may give up nothing
\* it waits for, the sender may not withdraw what it has out.
LEMMA ChannelSame ==
  ASSUME NEW s \in Side, NEW c \in Conn, NEW d \in Conn, NEW w \in Seq(Frame),
         NEW c2 \in Conn, NEW d2 \in Conn, ChannelOK(s, c, d, w),
         c2.epoch = c.epoch, c2.active = c.active,
         c.state = "REKEYING" => c2.state = "REKEYING" /\ c2.eph = c.eph,
         d2.epoch = d.epoch, d2.active = d.active,
         d.state # "ACTIVE" => d2.state # "ACTIVE" /\ d2.eph = d.eph
  PROVE  ChannelOK(s, c2, d2, w)
<1>1. EpochsOK(c2, d2) /\ (Behind(c2, d2) <=> Behind(c, d)) /\ (Ahead(c2, d2) <=> Ahead(c, d))
  BY DEF ChannelOK, EpochsOK, Behind, Ahead
<1>2. ASSUME NEW i \in DOMAIN w PROVE FrameOK(s, c2, d2, w[i])
  <2>1. FrameOK(s, c, d, w[i])
    BY DEF ChannelOK
  <2>2. w[i].type = Response => c.state = "REKEYING"
    BY <2>1 DEF ChannelOK, EpochsOK, FrameOK
  <2>. QED BY <1>1, <2>1, <2>2 DEF FrameOK
<1>3. OrderOK(d2, w)
  BY DEF ChannelOK, OrderOK
<1>. QED BY <1>1, <1>2, <1>3 DEF ChannelOK

\* Whatever is sent next is under the key and the epoch of the sender.
LEMMA EpochsUpToSender ==
  ASSUME NEW s \in Side, NEW c \in Conn, NEW d \in Conn, NEW w \in Seq(Frame),
         ChannelOK(s, c, d, w), NEW i \in DOMAIN w
  PROVE  w[i].epoch <= d.epoch
<1>. /\ c.epoch \in Nat /\ d.epoch \in Nat
  BY ConnFields
<1>1. FrameOK(s, c, d, w[i]) /\ EpochsOK(c, d)
  BY DEF ChannelOK
<1>. QED BY <1>1 DEF FrameOK, EpochsOK, Behind, Ahead

LEMMA ChannelData ==
  ASSUME NEW s \in Side, NEW c \in Conn, NEW d \in Conn, NEW w \in Seq(Frame),
         NEW f \in Frame, ChannelOK(s, c, d, w),
         f.type = "DATA", f.key = d.active, f.epoch = d.epoch
  PROVE  ChannelOK(s, c, d, w \o <<f>>)
<1>. DEFINE p == w \o <<f>>
<1>. /\ c.epoch \in Nat /\ d.epoch \in Nat
  BY ConnFields
<1>0. f.type # Request /\ f.type # Response
  BY DEF Request, Response
<1>1. FrameOK(s, c, d, f)
  BY <1>0 DEF ChannelOK, EpochsOK, FrameOK, Behind, Ahead
<1>2. \A i \in DOMAIN p : FrameOK(s, c, d, p[i])
  BY <1>1, OneMore DEF ChannelOK
<1>3. OrderOK(d, p)
  <2>. SUFFICES ASSUME NEW i \in DOMAIN p, NEW j \in DOMAIN p, i < j
                PROVE  /\ p[i].epoch <= p[j].epoch
                       /\ p[i].type = Response => p[j].epoch = d.epoch
                       /\ ~(p[i].type = Request /\ p[j].type = Request /\ p[i].epoch = d.epoch)
    BY DEF OrderOK
  <2>0. i \in DOMAIN w /\ p[i] = w[i]
    <3>1. Len(w) \in Nat /\ i \in Nat /\ j \in Nat /\ (j \in DOMAIN w => j < Len(w) + 1)
      BY OneMore, FramesOf
    <3>. QED BY <3>1, OneMore
  <2>1. CASE j \in DOMAIN w
    BY <2>0, <2>1, OneMore DEF ChannelOK, OrderOK
  <2>2. CASE j = Len(w) + 1
    BY <1>0, <2>0, <2>2, OneMore, EpochsUpToSender
  <2>. QED BY <2>1, <2>2, OneMore
<1>4. ASSUME Behind(c, d) PROVE \E i \in DOMAIN p : p[i].type = Response
  <2>1. PICK i \in DOMAIN w : w[i].type = Response
    BY <1>4 DEF ChannelOK
  <2>. QED BY <2>1, OneMore
<1>. HIDE DEF p
<1>5. ChannelOK(s, c, d, p)
  BY <1>2, <1>3, <1>4 DEF ChannelOK
<1>. QED BY <1>5 DEF p

\* A request: its sender d, in no rekey so far, is d2 from then on.
LEMMA ChannelAsk ==
  ASSUME NEW s \in Side, NEW c \in Conn, NEW d \in Conn, NEW w \in Seq(Frame),
         NEW f \in Frame, NEW d2 \in Conn, ChannelOK(s, c, d, w), ~Ahead(c, d),
         f.type = Request, f.key = d.active, f.epoch = d.epoch, f.eph = d2.eph,
         d.state = "ACTIVE", d2.state # "ACTIVE", d2.epoch = d.epoch, d2.active = d.active
  PROVE  ChannelOK(s, c, d2, w \o <<f>>)
<1>. DEFINE p == w \o <<f>>
<1>. /\ c.epoch \in Nat /\ d.epoch \in Nat
  BY ConnFields
<1>0. f.type # "DATA" /\ f.type # Response
  BY DEF Request, Response
<1>1. /\ EpochsOK(c, d2)
      /\ Behind(c, d2) <=> Behind(c, d)
      /\ ~Ahead(c, d2)
  BY DEF ChannelOK, EpochsOK, Behind, Ahead
<1>2. FrameOK(s, c, d2, f)
  BY <1>0, <1>1 DEF ChannelOK, EpochsOK, FrameOK, Behind, Ahead
<1>3. \A i \in DOMAIN w : FrameOK(s, c, d, w[i])
  BY DEF ChannelOK
<1>4. \A i \in DOMAIN w : w[i].type = Request => w[i].epoch # d.epoch
  BY <1>3 DEF FrameOK
<1>5. \A i \in DOMAIN w : FrameOK(s, c, d2, w[i])
  BY <1>1, <1>3, <1>4 DEF FrameOK
<1>6. \A i \in DOMAIN p : FrameOK(s, c, d2, p[i])
  BY <1>2, <1>5, OneMore
<1>7. OrderOK(d2, p)
  <2>. SUFFICES ASSUME NEW i \in DOMAIN p, NEW j \in DOMAIN p, i < j
                PROVE  /\ p[i].epoch <= p[j].epoch
                       /\ p[i].type = Response => p[j].epoch = d.epoch
                       /\ ~(p[i].type = Request /\ p[j].type = Request /\ p[i].epoch = d.epoch)
    BY DEF OrderOK
  <2>0. i \in DOMAIN w /\ p[i] = w[i]
    <3>1. Len(w) \in Nat /\ i \in Nat /\ j \in Nat /\ (j \in DOMAIN w => j < Len(w) + 1)
      BY OneMore, FramesOf
    <3>. QED BY <3>1, OneMore
  <2>1. CASE j \in DOMAIN w
    BY <2>0, <2>1, OneMore DEF ChannelOK, OrderOK
  <2>2. CASE j = Len(w) + 1
    BY <1>4, <2>0, <2>2, OneMore, EpochsUpToSender
  <2>. QED BY <2>1, <2>2, OneMore
<1>8. ASSUME Behind(c, d2) PROVE \E i \in DOMAIN p : p[i].type = Response
  <2>1. PICK i \in DOMAIN w : w[i].type = Response
    BY <1>1, <1>8 DEF ChannelOK
  <2>. QED BY <2>1, OneMore
<1>. HIDE DEF p
<1>9. ChannelOK(s, c, d2, p)
  BY <1>1, <1>6, <1>7, <1>8 DEF ChannelOK
<1>. QED BY <1>9 DEF p

\* The response at the head of the wire is for the request of its receiver c.
LEMMA ResponseVerifies ==
  ASSUME NEW s \in Side, NEW c \in Conn, NEW d \in Conn, NEW w \in Seq(Frame),
         NEW m, EndOK(c, m), w # <<>>, Head(w).type = Response, ChannelOK(s, c, d, w)
  PROVE  /\ Verifies(c, Head(w)) /\ Behind(c, d) /\ c.state = "REKEYING"
         /\ Head(w).fresh = d.active /\ d.active # c.active
<1>1. FrameOK(s, c, d, Head(w)) /\ EpochsOK(c, d)
  BY TailFacts DEF ChannelOK
<1>2. Behind(c, d) /\ Head(w).epoch = c.epoch /\ Head(w).eph = c.eph /\ Head(w).fresh = d.active
  BY <1>1 DEF FrameOK
<1>3. Head(w).key = c.active
  BY <1>1, <1>2 DEF FrameOK
<1>4. c.state = "REKEYING" /\ d.active # c.active
  BY <1>1, <1>2 DEF EpochsOK
<1>. QED BY <1>2, <1>3, <1>4 DEF Verifies, EndOK

\* The receiver c of that response becomes c2; the rest of its wire fits c2.
LEMMA ChannelFollow ==
  ASSUME NEW s \in Side, NEW c \in Conn, NEW d \in Conn, NEW w \in Seq(Frame),
         NEW c2 \in Conn, w # <<>>, Head(w).type = Response, ChannelOK(s, c, d, w),
         c2.epoch = c.epoch + 1, c2.active = d.active
  PROVE  ChannelOK(s, c2, d, Tail(w))
<1>. /\ c.epoch \in Nat /\ d.epoch \in Nat
  BY ConnFields
<1>1. FrameOK(s, c, d, Head(w))
  BY TailFacts DEF ChannelOK
<1>2. d.epoch = c.epoch + 1 /\ c2.epoch = d.epoch
  BY <1>1 DEF FrameOK, Behind
<1>3. EpochsOK(c2, d) /\ ~Behind(c2, d) /\ ~Ahead(c2, d)
  BY <1>2 DEF EpochsOK, Behind, Ahead
<1>4. ASSUME NEW i \in DOMAIN Tail(w) PROVE FrameOK(s, c2, d, Tail(w)[i])
  <2>1. i + 1 \in DOMAIN w /\ 1 < i + 1 /\ Tail(w)[i] = w[i + 1]
    BY TailFacts
  <2>2. w[i + 1].epoch = d.epoch
    BY <2>1, TailFacts DEF ChannelOK, OrderOK
  <2>3. FrameOK(s, c, d, w[i + 1])
    BY <2>1 DEF ChannelOK
  <2>. QED BY <1>2, <1>3, <2>1, <2>2, <2>3 DEF FrameOK
<1>5. OrderOK(d, Tail(w))
  <2>. SUFFICES ASSUME NEW i \in DOMAIN Tail(w), NEW j \in DOMAIN Tail(w), i < j
                PROVE  /\ Tail(w)[i].epoch <= Tail(w)[j].epoch
                       /\ Tail(w)[i].type = Response => Tail(w)[j].epoch = d.epoch
                       /\ ~(/\ Tail(w)[i].type = Request /\ Tail(w)[j].type = Request
                            /\ Tail(w)[i].epoch = d.epoch)
    BY DEF OrderOK
  <2>1. i + 1 \in DOMAIN w /\ j + 1 \in DOMAIN w /\ i + 1 < j + 1
        /\ Tail(w)[i] = w[i + 1] /\ Tail(w)[j] = w[j + 1]
    BY TailFacts
  <2>. QED BY <2>1 DEF ChannelOK, OrderOK
<1>. QED BY <1>3, <1>4, <1>5 DEF ChannelOK

\* The sender c of d's wire follows d; what is on that wire is from before.
LEMMA ChannelFollowed ==
  ASSUME NEW o \in Side, NEW c \in Conn, NEW d \in Conn, NEW v \in Seq(Frame),
         NEW c2 \in Conn, ChannelOK(o, d, c, v), Behind(c, d),
         c2.epoch = d.epoch, c2.active = d.active
  PROVE  ChannelOK(o, d, c2, v)
<1>. /\ c.epoch \in Nat /\ d.epoch \in Nat
  BY ConnFields
<1>1. d.epoch = c.epoch + 1 /\ Ahead(d, c)
  BY DEF Behind, Ahead
<1>2. EpochsOK(d, c2) /\ ~Behind(d, c2) /\ ~Ahead(d, c2)
  BY <1>1 DEF EpochsOK, Behind, Ahead
<1>3. \A i \in DOMAIN v : v[i].epoch = d.epoch - 1 /\ v[i].type = "DATA"
  BY <1>1 DEF ChannelOK, FrameOK
<1>4. \A i \in DOMAIN v : FrameOK(o, d, c2, v[i])
  BY <1>2, <1>3 DEF FrameOK, Request, Response
<1>5. OrderOK(c2, v)
  BY <1>3 DEF ChannelOK, OrderOK, Request, Response
<1>. QED BY <1>2, <1>4, <1>5 DEF ChannelOK

\* A request that is not ignored is of the epoch both ends are in, the sender waits
\* for the answer, and nothing but data of this epoch is behind it.
LEMMA RequestCounts ==
  ASSUME NEW s \in Side, NEW c \in Conn, NEW d \in Conn, NEW w \in Seq(Frame),
         w # <<>>, Head(w).type = Request, ChannelOK(s, c, d, w),
         ~(c.state = "REKEYING" /\ s = Leader)
  PROVE  /\ c.epoch = d.epoch /\ c.active = d.active
         /\ Head(w).epoch = d.epoch /\ Head(w).eph = d.eph /\ d.state # "ACTIVE"
         /\ \A i \in DOMAIN Tail(w) :
              /\ Tail(w)[i].epoch = d.epoch /\ Tail(w)[i].key = d.active
              /\ Tail(w)[i].type = "DATA"
<1>. /\ c.epoch \in Nat /\ d.epoch \in Nat
  BY ConnFields
<1>0. Head(w) = w[1] /\ 1 \in DOMAIN w /\ w[1] \in Frame /\ Request # "DATA" /\ Request # Response
  BY TailFacts DEF Request, Response
<1>1. FrameOK(s, c, d, w[1]) /\ EpochsOK(c, d) /\ OrderOK(d, w)
  BY <1>0 DEF ChannelOK
<1>2. w[1].epoch # c.epoch - 1 /\ ~Ahead(c, d)
  BY <1>0, <1>1 DEF FrameOK, Ahead
<1>3. ~Behind(c, d)
  <2>. SUFFICES ASSUME Behind(c, d) PROVE FALSE
    OBVIOUS
  <2>1. PICK r \in DOMAIN w : w[r].type = Response
    BY DEF ChannelOK
  <2>2. 1 < r /\ r \in Nat
    BY <1>0, <2>1, FramesOf
  <2>3. w[1].epoch <= w[r].epoch /\ w[r].epoch = c.epoch
    BY <1>0, <1>1, <2>1, <2>2 DEF ChannelOK, FrameOK, OrderOK
  <2>4. w[1].epoch = c.epoch /\ w[1].epoch # d.epoch
    BY <1>0, <1>1, <1>2, <2>3, FrameFields DEF FrameOK, Behind
  <2>. QED BY <1>0, <1>1, <2>4 DEF FrameOK, EpochsOK
<1>4. c.epoch = d.epoch /\ c.active = d.active /\ w[1].epoch = d.epoch
  BY <1>1, <1>2, <1>3 DEF EpochsOK, FrameOK
<1>5. w[1].eph = d.eph /\ d.state # "ACTIVE"
  BY <1>0, <1>1, <1>4 DEF FrameOK
<1>6. ASSUME NEW i \in DOMAIN Tail(w)
      PROVE  /\ Tail(w)[i].epoch = d.epoch /\ Tail(w)[i].key = d.active
             /\ Tail(w)[i].type = "DATA"
  <2>1. i + 1 \in DOMAIN w /\ 1 < i + 1 /\ Tail(w)[i] = w[i + 1]
    BY TailFacts
  <2>2. /\ w[i + 1].epoch <= d.epoch /\ w[1].epoch <= w[i + 1].epoch
        /\ w[i + 1].type # Request /\ w[i + 1] \in Frame
    BY <1>0, <1>1, <1>4, <2>1, EpochsUpToSender DEF OrderOK
  <2>3. w[i + 1].epoch = d.epoch /\ FrameOK(s, c, d, w[i + 1])
    BY <1>4, <2>1, <2>2, FrameFields DEF ChannelOK
  <2>. QED BY <1>3, <2>1, <2>2, <2>3, FrameFields DEF FrameOK
<1>. QED BY <1>0, <1>4, <1>5, <1>6

\* The receiver c of such a request becomes c2.
LEMMA ChannelLead ==
  ASSUME NEW s \in Side, NEW c \in Conn, NEW d \in Conn, NEW w \in Seq(Frame),
         NEW c2 \in Conn, w # <<>>, Head(w).type = Request, ChannelOK(s, c, d, w),
         ~(c.state = "REKEYING" /\ s = Leader), c2.epoch = c.epoch + 1
  PROVE  ChannelOK(s, c2, d, Tail(w))
<1>. /\ c.epoch \in Nat /\ d.epoch \in Nat
  BY ConnFields
<1>1. c2.epoch = d.epoch + 1 /\ Ahead(c2, d) /\ ~Behind(c2, d) /\ EpochsOK(c2, d)
  BY RequestCounts DEF Ahead, Behind, EpochsOK
<1>2. \A i \in DOMAIN Tail(w) : FrameOK(s, c2, d, Tail(w)[i])
  BY <1>1, RequestCounts DEF FrameOK, Request, Response
<1>3. OrderOK(d, Tail(w))
  BY RequestCounts DEF OrderOK, Request, Response
<1>. QED BY <1>1, <1>2, <1>3 DEF ChannelOK

\* Its answer f makes the end d that asked the one behind.
LEMMA ChannelLed ==
  ASSUME NEW o \in Side, NEW c \in Conn, NEW d \in Conn, NEW v \in Seq(Frame),
         NEW c2 \in Conn, NEW f \in Frame, ChannelOK(o, d, c, v), c.epoch = d.epoch,
         c.state # "ACTIVE" => o = Leader, d.state = "REKEYING",
         c2.epoch = c.epoch + 1, c2.active # d.active,
         f.type = Response, f.key = c.active, f.epoch = c.epoch, f.eph = d.eph,
         f.fresh = c2.active
  PROVE  ChannelOK(o, d, c2, v \o <<f>>)
<1>. DEFINE p == v \o <<f>>
<1>. /\ c.epoch \in Nat /\ d.epoch \in Nat
  BY ConnFields
<1>0. f.type # "DATA" /\ f.type # Request
  BY DEF Request, Response
<1>1. /\ EpochsOK(d, c2) /\ Behind(d, c2) /\ ~Ahead(d, c2) /\ ~Behind(d, c)
      /\ d.active = c.active
  BY DEF ChannelOK, EpochsOK, Behind, Ahead
<1>2. FrameOK(o, d, c2, f)
  BY <1>0, <1>1 DEF FrameOK
<1>3. \A i \in DOMAIN v : FrameOK(o, d, c, v[i]) /\ v[i].type # Response
                          /\ v[i].epoch <= c.epoch /\ v[i].epoch # c2.epoch
  BY <1>1, EpochsUpToSender DEF ChannelOK, FrameOK
<1>4. \A i \in DOMAIN v : FrameOK(o, d, c2, v[i])
  BY <1>1, <1>3 DEF FrameOK
<1>5. \A i \in DOMAIN p : FrameOK(o, d, c2, p[i])
  BY <1>2, <1>4, OneMore
<1>6. OrderOK(c2, p)
  <2>. SUFFICES ASSUME NEW i \in DOMAIN p, NEW j \in DOMAIN p, i < j
                PROVE  /\ p[i].epoch <= p[j].epoch
                       /\ p[i].type = Response => p[j].epoch = c2.epoch
                       /\ ~(p[i].type = Request /\ p[j].type = Request /\ p[i].epoch = c2.epoch)
    BY DEF OrderOK
  <2>0. i \in DOMAIN v /\ p[i] = v[i]
    <3>1. Len(v) \in Nat /\ i \in Nat /\ j \in Nat /\ (j \in DOMAIN v => j < Len(v) + 1)
      BY OneMore, FramesOf
    <3>. QED BY <3>1, OneMore
  <2>1. CASE j \in DOMAIN v
    BY <1>3, <2>0, <2>1, OneMore DEF ChannelOK, OrderOK
  <2>2. CASE j = Len(v) + 1
    BY <1>3, <2>0, <2>2, OneMore
  <2>. QED BY <2>1, <2>2, OneMore
<1>7. \E i \in DOMAIN p : p[i].type = Response
  BY OneMore
<1>. HIDE DEF p
<1>8. ChannelOK(o, d, c2, p)
  BY <1>1, <1>5, <1>6, <1>7 DEF ChannelOK
<1>. QED BY <1>8 DEF p

-------------------------------------------------------------------------------
(* KeyInv: one end steps *)

\* What TransportTypeOK says of one end beside its type
EndType(c) ==
  /\ c.eph # 0 /\ c.state # "CLOSED" => c.state = "REKEYING"
  /\ c.state = "ACTIVE" => c.scp = "STABLE"
  /\ c.state = "REKEYING" => c.scp = "REKEYING"

LEMMA KeyFacts ==
  ASSUME KeyInv, NEW s \in Side
  PROVE  /\ conn[s] \in Conn /\ EndType(conn[s]) /\ EndOK(conn[s], made)
         /\ wire[s] \in Seq(Frame)
         /\ conn \in [Side -> Conn] /\ wire \in [Side -> Seq(Frame)]
         /\ made \in Nat /\ asked \in Nat /\ sent \in Nat /\ closes \in Nat
         /\ Open(s) => ChannelOK(s, conn[s], conn[Other(s)], wire[s])
BY DEF KeyInv, TransportTypeOK, EndType

\* s becomes c, the wires become w and v: what is left to show of a step.
LEMMA OneEnd ==
  ASSUME KeyInv, NEW s \in Side, NEW c \in Conn, NEW w \in Seq(Frame), NEW v \in Seq(Frame),
         conn' = [conn EXCEPT ![s] = c],
         wire' \in [Side -> Seq(Frame)], wire'[s] = w, wire'[Other(s)] = v,
         made' \in Nat, asked' \in Nat, sent' \in Nat, closes' \in Nat, made <= made',
         EndType(c), EndOK(c, made'),
         c.state # "CLOSED" => ChannelOK(s, c, conn[Other(s)], w),
         Open(Other(s)) => ChannelOK(Other(s), conn[Other(s)], c, v)
  PROVE  KeyInv'
<1>. DEFINE o == Other(s)
<1>0. o \in Side /\ o # s /\ Other(o) = s /\ \A t \in Side : t = s \/ t = o
  BY OtherFacts DEF Side, Other
<1>1. conn \in [Side -> Conn] /\ conn'[s] = c /\ conn'[o] = conn[o] /\ conn' \in [Side -> Conn]
  BY <1>0, KeyFacts
<1>2. EndType(conn[o]) /\ EndOK(conn[o], made')
  <2>1. EndType(conn[o]) /\ EndOK(conn[o], made) /\ conn[o].active \in Nat /\ made \in Nat
    BY <1>0, KeyFacts, ConnFields
  <2>. QED BY <2>1 DEF EndOK
<1>3. TransportTypeOK'
  BY <1>0, <1>1, <1>2 DEF TransportTypeOK, EndType
<1>4. \A t \in Side : EndOK(conn'[t], made')
  BY <1>0, <1>1, <1>2
<1>5. ASSUME NEW t \in Side, conn'[t].state # "CLOSED"
      PROVE  ChannelOK(t, conn'[t], conn'[Other(t)], wire'[t])
  <2>1. CASE t = s
    BY <1>1, <1>5, <2>1
  <2>2. CASE t = o
    BY <1>0, <1>1, <1>5, <2>2 DEF Open
  <2>. QED BY <1>0, <2>1, <2>2
<1>. QED BY <1>3, <1>4, <1>5 DEF KeyInv, Open

LEMMA StepWires ==
  ASSUME KeyInv, NEW s \in Side, NEW c, NEW out, Step(s, c, out),
         wire[Other(s)] \o out \in Seq(Frame)
  PROVE  /\ conn' = [conn EXCEPT ![s] = c] /\ wire' \in [Side -> Seq(Frame)]
         /\ wire'[s] = wire[s] /\ wire'[Other(s)] = wire[Other(s)] \o out
BY KeyFacts, OtherFacts DEF Step

LEMMA TakeWires ==
  ASSUME KeyInv, NEW s \in Side, NEW c, NEW out, Take(s, c, out),
         wire[Other(s)] \o out \in Seq(Frame), wire[s] # <<>>
  PROVE  /\ conn' = [conn EXCEPT ![s] = c] /\ wire' \in [Side -> Seq(Frame)]
         /\ wire'[s] = Tail(wire[s]) /\ wire'[Other(s)] = wire[Other(s)] \o out
         /\ UNCHANGED <<asked, sent, closes>>
<1>1. Tail(wire[s]) \in Seq(Frame) /\ wire \in [Side -> Seq(Frame)] /\ Other(s) # s
      /\ Other(s) \in Side
  BY KeyFacts, TailFacts, OtherFacts
<1>. QED BY <1>1 DEF Take

\* A step that only sends nothing, or closes, leaves the wires and what is on them.
LEMMA QuietStep ==
  ASSUME KeyInv, NEW s \in Side, NEW c \in Conn, Step(s, c, <<>>), made' = made,
         asked' \in Nat, sent' \in Nat, closes' \in Nat, EndType(c), EndOK(c, made),
         c.epoch = conn[s].epoch, c.active = conn[s].active, c.eph = conn[s].eph,
         c.state = conn[s].state \/ c.state = "CLOSED"
  PROVE  KeyInv'
<1>. DEFINE o == Other(s)
<1>0. o \in Side /\ Other(o) = s
  BY OtherFacts
<1>1. /\ conn[s] \in Conn /\ conn[o] \in Conn /\ wire[s] \in Seq(Frame) /\ wire[o] \in Seq(Frame)
      /\ made \in Nat
  BY <1>0, KeyFacts
<1>2. /\ conn' = [conn EXCEPT ![s] = c] /\ wire' \in [Side -> Seq(Frame)]
      /\ wire'[s] = wire[s] /\ wire'[o] = wire[o]
  <2>1. wire[Other(s)] \o <<>> = wire[o] /\ wire[Other(s)] \o <<>> \in Seq(Frame)
    BY <1>1, NoneMore
  <2>2. /\ conn' = [conn EXCEPT ![s] = c] /\ wire' \in [Side -> Seq(Frame)]
        /\ wire'[s] = wire[s] /\ wire'[Other(s)] = wire[Other(s)] \o <<>>
    BY <2>1, StepWires
  <2>. QED BY <2>1, <2>2
<1>3. ASSUME c.state # "CLOSED" PROVE ChannelOK(s, c, conn[o], wire[s])
  BY <1>0, <1>1, <1>3, KeyFacts, ChannelSame DEF Open
<1>4. ASSUME Open(o) PROVE ChannelOK(o, conn[o], c, wire[o])
  <2>1. ChannelOK(o, conn[o], conn[s], wire[o])
    BY <1>0, <1>4, KeyFacts
  <2>. QED BY <1>0, <1>1, <2>1, ChannelSame
<1>5. made' \in Nat /\ made <= made' /\ EndOK(c, made')
  BY <1>1
<1>. QED BY <1>1, <1>2, <1>3, <1>4, <1>5, OneEnd

-------------------------------------------------------------------------------
(* KeyInv: the actions *)

LEMMA SwitchedFacts ==
  ASSUME NEW c \in Conn, NEW k \in Nat
  PROVE  /\ Switched(c, k) \in Conn
         /\ Switched(c, k).epoch = c.epoch + 1 /\ Switched(c, k).active = k
         /\ Switched(c, k).state = "ACTIVE" /\ Switched(c, k).scp = "STABLE"
         /\ Switched(c, k).eph = c.eph
         /\ Switched(c, k).previous = c.active /\ Switched(c, k).prevAge = 0
<1>. DEFINE b == [c EXCEPT !.previous = c.active, !.prevAge = 0, !.active = k, !.epoch = @ + 1]
            t == [b EXCEPT !.state = "ACTIVE", !.scp = "STABLE", !.streak = 0, !.pendingAge = 0]
<1>1. /\ b \in Conn /\ b.epoch = c.epoch + 1 /\ b.active = k /\ b.eph = c.eph
      /\ b.previous = c.active /\ b.prevAge = 0
  <2>1. c.epoch + 1 \in Nat /\ k \in Nat /\ c.active \in Nat \cup {NoKey}
    BY ConnFields
  <2>2. b \in Conn
    BY <2>1 DEF Conn
  <2>3. /\ b.epoch = c.epoch + 1 /\ b.active = k /\ b.eph = c.eph
        /\ b.previous = c.active /\ b.prevAge = 0
    BY DEF Conn
  <2>. QED BY <2>2, <2>3
<1>2. Switched(c, k) = t
  BY DEF Switched
<1>. HIDE DEF b
<1>3. /\ t \in Conn /\ t.epoch = b.epoch /\ t.active = b.active /\ t.eph = b.eph
      /\ t.previous = b.previous /\ t.prevAge = b.prevAge
      /\ t.state = "ACTIVE" /\ t.scp = "STABLE"
  BY <1>1 DEF Conn
<1>. HIDE DEF t
<1>. QED BY <1>1, <1>2, <1>3

LEMMA AbortFacts ==
  ASSUME NEW c \in Conn, EndType(c), c.state # "CLOSED"
  PROVE  /\ AbortLocalRekey(c) \in Conn
         /\ AbortLocalRekey(c).epoch = c.epoch /\ AbortLocalRekey(c).active = c.active
         /\ AbortLocalRekey(c).state = "ACTIVE" /\ AbortLocalRekey(c).eph = 0
         /\ RekeyInProgress(c) <=> c.state = "REKEYING"
<1>1. CASE RekeyInProgress(c)
  <2>. DEFINE b == [c EXCEPT !.eph = 0, !.pendingAge = 0, !.streak = @ + 1]
              t == [b EXCEPT !.state = "ACTIVE", !.scp = "STABLE"]
  <2>1. /\ b \in Conn /\ b.epoch = c.epoch /\ b.active = c.active /\ b.eph = 0
        /\ b.previous = c.previous /\ b.prevAge = c.prevAge
    <3>1. c.streak + 1 \in Nat
      BY ConnFields
    <3>2. b \in Conn
      BY <3>1 DEF Conn
    <3>3. /\ b.epoch = c.epoch /\ b.active = c.active /\ b.eph = 0
          /\ b.previous = c.previous /\ b.prevAge = c.prevAge
      BY DEF Conn
    <3>. QED BY <3>2, <3>3
  <2>2. AbortLocalRekey(c) = t
    BY <1>1 DEF AbortLocalRekey
  <2>. HIDE DEF b
  <2>3. /\ t \in Conn /\ t.epoch = b.epoch /\ t.active = b.active /\ t.eph = b.eph
        /\ t.previous = b.previous /\ t.prevAge = b.prevAge /\ t.state = "ACTIVE"
    BY <2>1 DEF Conn
  <2>4. RekeyInProgress(c) <=> c.state = "REKEYING"
    BY ConnFields DEF RekeyInProgress, EndType
  <2>. HIDE DEF t
  <2>. QED BY <2>1, <2>2, <2>3, <2>4
<1>2. CASE ~RekeyInProgress(c)
  BY <1>2, ConnFields DEF AbortLocalRekey, RekeyInProgress, EndType
<1>. QED BY <1>1, <1>2

\* The end that starts a rekey, and what it sends.
LEMMA AskFacts ==
  ASSUME KeyInv, NEW s \in Side, NEW auto \in BOOLEAN, conn[s].state = "ACTIVE"
  PROVE  LET c == [Asked(conn[s]) EXCEPT !.auto = @ \/ auto]
             f == FrameOf("REKEY_REQUEST", conn[s], IF Pfs THEN asked + 1 ELSE 0, 0)
         IN  /\ c \in Conn /\ EndType(c) /\ EndOK(c, made)
             /\ c.state = "REKEYING" /\ c.epoch = conn[s].epoch /\ c.active = conn[s].active
             /\ c.pendingAge = 0 /\ c.previous = conn[s].previous
             /\ c.prevAge = conn[s].prevAge
             /\ f \in Frame /\ f.type = Request /\ f.key = c.active /\ f.epoch = c.epoch
             /\ f.eph = c.eph /\ f.age = 0
<1>. DEFINE e == IF Pfs THEN asked + 1 ELSE 0
            c == [Asked(conn[s]) EXCEPT !.auto = @ \/ auto]
            f == FrameOf("REKEY_REQUEST", conn[s], e, 0)
<1>1. conn[s] \in Conn /\ asked \in Nat /\ EndOK(conn[s], made)
  BY KeyFacts
<1>2. e \in Nat /\ (Pfs <=> e # 0)
  BY <1>1, TransportAssumption
<1>3. /\ c \in Conn /\ c.state = "REKEYING" /\ c.scp = "REKEYING" /\ c.eph = e
      /\ c.epoch = conn[s].epoch /\ c.active = conn[s].active
      /\ c.pendingAge = 0 /\ c.previous = conn[s].previous /\ c.prevAge = conn[s].prevAge
  BY <1>1, <1>2 DEF Asked, Conn
<1>4. /\ f \in Frame /\ f.type = Request /\ f.key = conn[s].active /\ f.epoch = conn[s].epoch
      /\ f.eph = e /\ f.age = 0
  BY <1>1, <1>2 DEF FrameOf, Frame, Request, Conn
<1>5. EndType(c) /\ EndOK(c, made)
  <2>. HIDE DEF c, e
  <2>. QED BY <1>1, <1>2, <1>3 DEF EndType, EndOK
<1>. QED BY <1>3, <1>4, <1>5

LEMMA StartRekeyKeys ==
  ASSUME KeyInv, NEW s \in Side, NEW auto \in BOOLEAN, StartRekey(s, auto),
         made' = made, sent' \in Nat, closes' = closes
  PROVE  KeyInv'
<1>. DEFINE o == Other(s)
            c == [Asked(conn[s]) EXCEPT !.auto = @ \/ auto]
            f == FrameOf("REKEY_REQUEST", conn[s], IF Pfs THEN asked + 1 ELSE 0, 0)
<1>0. o \in Side /\ Other(o) = s
  BY OtherFacts
<1>1. /\ conn[s] \in Conn /\ conn[o] \in Conn /\ wire[s] \in Seq(Frame) /\ wire[o] \in Seq(Frame)
      /\ made \in Nat /\ asked \in Nat /\ closes \in Nat
  BY <1>0, KeyFacts
<1>2. conn[s].state = "ACTIVE" /\ Step(s, c, <<f>>) /\ asked' = asked + 1
  BY DEF StartRekey
<1>3. /\ c \in Conn /\ EndType(c) /\ EndOK(c, made)
      /\ c.state = "REKEYING" /\ c.epoch = conn[s].epoch /\ c.active = conn[s].active
      /\ f \in Frame /\ f.type = Request /\ f.key = c.active /\ f.epoch = c.epoch
      /\ f.eph = c.eph
  BY <1>2, AskFacts
<1>. HIDE DEF c, f
<1>4. wire[o] \o <<f>> \in Seq(Frame)
  BY <1>1, <1>3, OneMore
<1>5. /\ conn' = [conn EXCEPT ![s] = c] /\ wire' \in [Side -> Seq(Frame)]
      /\ wire'[s] = wire[s] /\ wire'[o] = wire[o] \o <<f>>
  BY <1>2, <1>4, StepWires
<1>6. ChannelOK(s, conn[s], conn[o], wire[s])
  BY <1>2, KeyFacts DEF Open
<1>7. ChannelOK(s, c, conn[o], wire[s])
  <2>. QED BY <1>0, <1>1, <1>2, <1>3, <1>6, ChannelSame
<1>8. ASSUME Open(o) PROVE ChannelOK(o, conn[o], c, wire[o] \o <<f>>)
  <2>1. ChannelOK(o, conn[o], conn[s], wire[o])
    BY <1>0, <1>8, KeyFacts
  <2>2. ~Ahead(conn[o], conn[s])
    BY <1>2, <1>6 DEF ChannelOK, EpochsOK, Ahead, Behind
  <2>. QED BY <1>0, <1>1, <1>2, <1>3, <2>1, <2>2, ChannelAsk
<1>9. /\ made' \in Nat /\ made <= made' /\ EndOK(c, made')
      /\ asked' \in Nat /\ closes' \in Nat
  BY <1>1, <1>2, <1>3
<1>. QED BY <1>1, <1>3, <1>4, <1>5, <1>7, <1>8, <1>9, OneEnd

LEMMA DataStep ==
  ASSUME KeyInv, NEW s \in Side, NEW c \in Conn, NEW f \in Frame, Open(s), Step(s, c, <<f>>),
         f.type = "DATA", f.key = c.active, f.epoch = c.epoch,
         made' = made, asked' = asked, sent' = sent, closes' = closes,
         EndType(c), EndOK(c, made), c.state = conn[s].state,
         c.epoch = conn[s].epoch, c.active = conn[s].active, c.eph = conn[s].eph
  PROVE  KeyInv'
<1>. DEFINE o == Other(s)
<1>0. o \in Side /\ Other(o) = s
  BY OtherFacts
<1>1. /\ conn[s] \in Conn /\ conn[o] \in Conn /\ wire[s] \in Seq(Frame) /\ wire[o] \in Seq(Frame)
      /\ made \in Nat /\ asked \in Nat /\ sent \in Nat /\ closes \in Nat
  BY <1>0, KeyFacts
<1>2. wire[o] \o <<f>> \in Seq(Frame)
  BY <1>1, OneMore
<1>3. /\ conn' = [conn EXCEPT ![s] = c] /\ wire' \in [Side -> Seq(Frame)]
      /\ wire'[s] = wire[s] /\ wire'[o] = wire[o] \o <<f>>
  BY <1>2, StepWires
<1>4. ChannelOK(s, c, conn[o], wire[s])
  <2>1. ChannelOK(s, conn[s], conn[o], wire[s])
    BY KeyFacts
  <2>. QED BY <1>0, <1>1, <2>1, ChannelSame
<1>5. ASSUME Open(o) PROVE ChannelOK(o, conn[o], c, wire[o] \o <<f>>)
  <2>1. ChannelOK(o, conn[o], conn[s], wire[o])
    BY <1>0, <1>5, KeyFacts
  <2>2. ChannelOK(o, conn[o], c, wire[o])
    BY <1>0, <1>1, <2>1, ChannelSame
  <2>. QED BY <1>0, <1>1, <2>2, ChannelData
<1>6. /\ made' \in Nat /\ made <= made' /\ EndOK(c, made')
      /\ asked' \in Nat /\ sent' \in Nat /\ closes' \in Nat
  BY <1>1
<1>. QED BY <1>1, <1>2, <1>3, <1>4, <1>5, <1>6, OneEnd


LEMMA TakeStep ==
  ASSUME KeyInv, NEW s \in Side, NEW c \in Conn, Take(s, c, <<>>), made' = made,
         wire[s] # <<>>, EndType(c), EndOK(c, made),
         c.epoch = conn[s].epoch, c.active = conn[s].active, c.eph = conn[s].eph,
         \/ c.state = "CLOSED"
         \/ c.state = conn[s].state /\ Head(wire[s]).type # Response
  PROVE  KeyInv'
<1>. DEFINE o == Other(s)
<1>0. o \in Side /\ Other(o) = s
  BY OtherFacts
<1>1. /\ conn[s] \in Conn /\ conn[o] \in Conn /\ wire[s] \in Seq(Frame) /\ wire[o] \in Seq(Frame)
      /\ made \in Nat /\ asked \in Nat /\ sent \in Nat /\ closes \in Nat
  BY <1>0, KeyFacts
<1>2. wire[o] \o <<>> = wire[o] /\ Tail(wire[s]) \in Seq(Frame)
  BY <1>1, NoneMore, TailFacts
<1>3. /\ conn' = [conn EXCEPT ![s] = c] /\ wire' \in [Side -> Seq(Frame)]
      /\ wire'[s] = Tail(wire[s]) /\ wire'[o] = wire[o] /\ UNCHANGED <<asked, sent, closes>>
  <2>1. wire[Other(s)] \o <<>> = wire[o] /\ wire[Other(s)] \o <<>> \in Seq(Frame)
    BY <1>1, <1>2
  <2>2. /\ conn' = [conn EXCEPT ![s] = c] /\ wire' \in [Side -> Seq(Frame)]
        /\ wire'[s] = Tail(wire[s]) /\ wire'[Other(s)] = wire[Other(s)] \o <<>>
        /\ UNCHANGED <<asked, sent, closes>>
    BY <2>1, TakeWires
  <2>. QED BY <2>1, <2>2
<1>4. ASSUME c.state # "CLOSED" PROVE ChannelOK(s, c, conn[o], Tail(wire[s]))
  <2>1. ChannelOK(s, conn[s], conn[o], wire[s]) /\ Head(wire[s]).type # Response
    BY <1>4, KeyFacts DEF Open
  <2>2. ChannelOK(s, conn[s], conn[o], Tail(wire[s]))
    BY <1>0, <1>1, <2>1, ChannelTail
  <2>. QED BY <1>0, <1>1, <1>2, <1>4, <2>2, ChannelSame
<1>5. ASSUME Open(o) PROVE ChannelOK(o, conn[o], c, wire[o])
  <2>1. ChannelOK(o, conn[o], conn[s], wire[o])
    BY <1>0, <1>5, KeyFacts
  <2>. QED BY <1>0, <1>1, <2>1, ChannelSame
<1>6. /\ made' \in Nat /\ made <= made' /\ EndOK(c, made')
      /\ asked' \in Nat /\ sent' \in Nat /\ closes' \in Nat
  BY <1>1, <1>3
<1>. QED BY <1>1, <1>2, <1>3, <1>4, <1>5, <1>6, OneEnd

\* The closed ends
LEMMA ClosedFacts ==
  ASSUME NEW c \in Conn, NEW m, EndOK(c, m)
  PROVE  /\ Closed(c) \in Conn /\ Closed(c).state = "CLOSED"
         /\ Closed(c).epoch = c.epoch /\ Closed(c).active = c.active /\ Closed(c).eph = c.eph
         /\ EndType(Closed(c)) /\ EndOK(Closed(c), m)
         /\ Terminated(c) \in Conn /\ Terminated(c).state = "CLOSED"
         /\ Terminated(c).epoch = c.epoch /\ Terminated(c).active = c.active
         /\ Terminated(c).eph = c.eph
         /\ EndType(Terminated(c)) /\ EndOK(Terminated(c), m)
<1>1. /\ Closed(c) \in Conn /\ Closed(c).state = "CLOSED"
      /\ Closed(c).epoch = c.epoch /\ Closed(c).active = c.active /\ Closed(c).eph = c.eph
  BY DEF Closed, Conn
<1>2. /\ Terminated(c) \in Conn /\ Terminated(c).state = "CLOSED"
      /\ Terminated(c).epoch = c.epoch /\ Terminated(c).active = c.active
      /\ Terminated(c).eph = c.eph
  BY DEF Terminated, Conn
<1>. QED BY <1>1, <1>2 DEF EndType, EndOK

LEMMA SendCounts ==
  ASSUME KeyInv, NEW s \in Side, NEW n \in Nat, NEW b \in BOOLEAN
  PROVE  LET c == [conn[s] EXCEPT !.sends = n]
             d == [conn[s] EXCEPT !.auto = b]
         IN  /\ c \in Conn /\ EndType(c) /\ EndOK(c, made) /\ c.state = conn[s].state
             /\ c.epoch = conn[s].epoch /\ c.active = conn[s].active /\ c.eph = conn[s].eph
             /\ d \in Conn /\ EndType(d) /\ EndOK(d, made) /\ d.state = conn[s].state
             /\ d.epoch = conn[s].epoch /\ d.active = conn[s].active /\ d.eph = conn[s].eph
<1>. DEFINE c == [conn[s] EXCEPT !.sends = n]
            d == [conn[s] EXCEPT !.auto = b]
<1>1. conn[s] \in Conn /\ EndType(conn[s]) /\ EndOK(conn[s], made)
  BY KeyFacts
<1>2. c \in Conn /\ d \in Conn
  BY <1>1 DEF Conn
<1>3. /\ c.state = conn[s].state /\ c.scp = conn[s].scp
      /\ c.epoch = conn[s].epoch /\ c.active = conn[s].active /\ c.eph = conn[s].eph
      /\ d.state = conn[s].state /\ d.scp = conn[s].scp
      /\ d.epoch = conn[s].epoch /\ d.active = conn[s].active /\ d.eph = conn[s].eph
  BY <1>1 DEF Conn
<1>. HIDE DEF c, d
<1>4. EndType(c) /\ EndOK(c, made) /\ EndType(d) /\ EndOK(d, made)
  BY <1>1, <1>3 DEF EndType, EndOK
<1>. QED BY <1>2, <1>3, <1>4 DEF c, d

LEMMA DataFrame ==
  ASSUME NEW c \in Conn
  PROVE  LET f == FrameOf("DATA", c, 0, 0)
         IN  f \in Frame /\ f.type = "DATA" /\ f.key = c.active /\ f.epoch = c.epoch /\ f.age = 0
BY DEF FrameOf, Frame, Conn

LEMMA SendingKeys ==
  ASSUME KeyInv, NEW s \in Side,
         RequestRekey(s) \/ BeginSend(s) \/ BeginSendRekeying(s)
         \/ FinishSend(s) \/ FinishSendRekeying(s)
  PROVE  KeyInv'
<1>0. conn[s] \in Conn /\ made \in Nat /\ asked \in Nat /\ sent \in Nat /\ closes \in Nat
      /\ sent + 1 \in Nat
  BY KeyFacts
<1>1. CASE RequestRekey(s)
  BY <1>0, <1>1, StartRekeyKeys DEF RequestRekey
<1>2. CASE BeginSendRekeying(s)
  BY <1>0, <1>2, StartRekeyKeys DEF BeginSendRekeying
<1>3. CASE BeginSend(s)
  <2>. DEFINE c == [conn[s] EXCEPT !.sends = @ + 1]
  <2>1. conn[s].sends + 1 \in Nat
    BY <1>0, ConnFields
  <2>2. /\ c \in Conn /\ EndType(c) /\ EndOK(c, made) /\ c.state = conn[s].state
        /\ c.epoch = conn[s].epoch /\ c.active = conn[s].active /\ c.eph = conn[s].eph
    BY <2>1, SendCounts
  <2>3. Step(s, c, <<>>) /\ made' = made /\ asked' \in Nat /\ sent' \in Nat /\ closes' \in Nat
    BY <1>0, <1>3 DEF BeginSend
  <2>. HIDE DEF c
  <2>. QED BY <2>2, <2>3, QuietStep
<1>. DEFINE f == FrameOf("DATA", conn[s], 0, 0)
            Sends(c) == Step(s, c, IF Open(s) THEN <<f>> ELSE <<>>)
<1>4. ASSUME NEW c \in Conn, EndType(c), EndOK(c, made), c.state = conn[s].state,
             c.epoch = conn[s].epoch, c.active = conn[s].active, c.eph = conn[s].eph,
             Sends(c), UNCHANGED <<made, asked, sent, closes>>
      PROVE  KeyInv'
  <2>1. f \in Frame /\ f.type = "DATA" /\ f.key = c.active /\ f.epoch = c.epoch
    BY <1>0, <1>4, DataFrame
  <2>2. CASE Open(s)
    <3>1. Step(s, c, <<f>>)
      BY <1>4, <2>2
    <3>. HIDE DEF f
    <3>. QED BY <1>4, <2>1, <2>2, <3>1, DataStep
  <2>3. CASE ~Open(s)
    BY <1>0, <1>4, <2>3, QuietStep
  <2>. QED BY <2>2, <2>3
<1>5. CASE FinishSend(s)
  <2>. DEFINE c == [conn[s] EXCEPT !.sends = @ - 1]
  <2>1. conn[s].sends - 1 \in Nat
    BY <1>0, <1>5, ConnFields DEF FinishSend
  <2>2. /\ c \in Conn /\ EndType(c) /\ EndOK(c, made) /\ c.state = conn[s].state
        /\ c.epoch = conn[s].epoch /\ c.active = conn[s].active /\ c.eph = conn[s].eph
    BY <2>1, SendCounts
  <2>3. Sends(c) /\ UNCHANGED <<made, asked, sent, closes>>
    BY <1>5 DEF FinishSend
  <2>. HIDE DEF c, Sends
  <2>. QED BY <1>4, <2>2, <2>3
<1>6. CASE FinishSendRekeying(s)
  <2>. DEFINE c == [conn[s] EXCEPT !.auto = FALSE]
  <2>1. /\ c \in Conn /\ EndType(c) /\ EndOK(c, made) /\ c.state = conn[s].state
        /\ c.epoch = conn[s].epoch /\ c.active = conn[s].active /\ c.eph = conn[s].eph
    BY SendCounts
  <2>2. Sends(c) /\ UNCHANGED <<made, asked, sent, closes>>
    BY <1>6 DEF FinishSendRekeying
  <2>. HIDE DEF c, Sends
  <2>. QED BY <1>4, <2>1, <2>2
<1>. QED BY <1>1, <1>2, <1>3, <1>5, <1>6

LEMMA EndingKeys ==
  ASSUME KeyInv, NEW s \in Side, RekeyTimesOut(s) \/ Close(s) \/ ReceiveNothing(s)
  PROVE  KeyInv'
<1>0. /\ conn[s] \in Conn /\ EndType(conn[s]) /\ EndOK(conn[s], made)
      /\ made \in Nat /\ asked \in Nat /\ sent \in Nat /\ closes \in Nat /\ closes + 1 \in Nat
  BY KeyFacts
<1>1. CASE RekeyTimesOut(s)
  BY <1>0, <1>1, ClosedFacts, QuietStep DEF RekeyTimesOut
<1>2. CASE Close(s)
  BY <1>0, <1>2, ClosedFacts, QuietStep DEF Close
<1>3. CASE ReceiveNothing(s)
  <2>1. wire[s] # <<>> /\ made' = made
    BY <1>3 DEF ReceiveNothing
  <2>2. PICK c \in {conn[s], Terminated(conn[s]), Closed(conn[s])} :
          /\ Take(s, c, <<>>)
          /\ c = conn[s] => ~Open(s)
    <3>1. CASE ~Open(s)
      BY <1>3, <3>1 DEF ReceiveNothing
    <3>2. CASE Open(s) /\ Overdue(conn[s])
      <4>1. Take(s, Terminated(conn[s]), <<>>)
        BY <1>3, <3>2 DEF ReceiveNothing
      <4>2. Terminated(conn[s]) # conn[s]
        BY <1>0, <3>2, ClosedFacts DEF Open
      <4>. QED BY <4>1, <4>2
    <3>3. CASE Open(s) /\ ~Overdue(conn[s])
      <4>1. Take(s, Closed(conn[s]), <<>>)
        BY <1>3, <3>3 DEF ReceiveNothing
      <4>2. Closed(conn[s]) # conn[s]
        BY <1>0, <3>3, ClosedFacts DEF Open
      <4>. QED BY <4>1, <4>2
    <3>. QED BY <3>1, <3>2, <3>3
  <2>3. /\ c \in Conn /\ EndType(c) /\ EndOK(c, made) /\ c.state = "CLOSED"
        /\ c.epoch = conn[s].epoch /\ c.active = conn[s].active /\ c.eph = conn[s].eph
    BY <1>0, <2>2, ClosedFacts DEF Open
  <2>. QED BY <1>0, <2>1, <2>2, <2>3, TakeStep
<1>. QED BY <1>1, <1>2, <1>3

LEMMA ReceiveDataKeys ==
  ASSUME KeyInv, NEW s \in Side, ReceiveData(s)
  PROVE  KeyInv'
<1>1. conn[s] \in Conn /\ EndType(conn[s]) /\ EndOK(conn[s], made)
  BY KeyFacts
<1>2. /\ Take(s, conn[s], <<>>) /\ made' = made /\ wire[s] # <<>>
      /\ Head(wire[s]).type # Response
  BY DEF ReceiveData, Arrives, Response
<1>. QED BY <1>1, <1>2, TakeStep

LEMMA ReceiveRequestKeys ==
  ASSUME KeyInv, NEW s \in Side, ReceiveRequest(s)
  PROVE  KeyInv'
<1>. DEFINE o == Other(s)
            h == Head(wire[s])
            a == AbortLocalRekey(conn[s])
            c == Switched(a, made + 1)
            f == FrameOf("REKEY_RESPONSE", conn[s], h.eph, made + 1)
<1>0. o \in Side /\ Other(o) = s /\ o # s
  BY OtherFacts
<1>1. /\ conn[s] \in Conn /\ conn[o] \in Conn /\ wire[s] \in Seq(Frame) /\ wire[o] \in Seq(Frame)
      /\ made \in Nat /\ asked \in Nat /\ sent \in Nat /\ closes \in Nat
      /\ EndType(conn[s]) /\ EndOK(conn[s], made) /\ EndOK(conn[o], made) /\ EndType(conn[o])
  BY <1>0, KeyFacts
<1>2. /\ wire[s] # <<>> /\ h.type = Request /\ Open(s)
      /\ h.type # Response
  BY DEF ReceiveRequest, Arrives, Request, Response
<1>3. ChannelOK(s, conn[s], conn[o], wire[s])
  BY <1>2, KeyFacts
<1>4. h \in Frame /\ Tail(wire[s]) \in Seq(Frame)
  BY <1>1, <1>2, TailFacts
<1>5. /\ a \in Conn /\ a.epoch = conn[s].epoch /\ a.active = conn[s].active /\ a.eph = 0
      /\ RekeyInProgress(conn[s]) <=> conn[s].state = "REKEYING"
  BY <1>1, <1>2, AbortFacts DEF Open
<1>6. CASE IgnoresIncoming(s)
  <2>1. Take(s, conn[s], <<>>) /\ made' = made
    BY <1>6 DEF ReceiveRequest
  <2>. HIDE DEF h
  <2>. QED BY <1>1, <1>2, <2>1, TakeStep DEF h
<1>7. CASE ~IgnoresIncoming(s)
  <2>1. Take(s, c, <<f>>) /\ made' = made + 1
    BY <1>7 DEF ReceiveRequest
  <2>2. ~(conn[s].state = "REKEYING" /\ s = Leader)
    BY <1>5, <1>7 DEF IgnoresIncoming
  <2>3. /\ conn[s].epoch = conn[o].epoch /\ conn[s].active = conn[o].active
        /\ h.eph = conn[o].eph /\ conn[o].state # "ACTIVE"
    BY <1>0, <1>1, <1>2, <1>3, <2>2, RequestCounts
  <2>4. made + 1 \in Nat
    BY <1>1
  <2>. HIDE DEF a
  <2>5. /\ c \in Conn /\ c.epoch = conn[s].epoch + 1 /\ c.active = made + 1
        /\ c.state = "ACTIVE" /\ c.scp = "STABLE" /\ c.eph = 0
    BY <1>5, <2>4, SwitchedFacts
  <2>6. /\ f \in Frame /\ f.type = Response /\ f.key = conn[s].active
        /\ f.epoch = conn[s].epoch /\ f.eph = h.eph /\ f.fresh = made + 1
    BY <1>1, <1>4, <2>4, FrameFields DEF FrameOf, Frame, Response, Conn
  <2>. HIDE DEF c, f, h
  <2>7. wire[o] \o <<f>> \in Seq(Frame)
    BY <1>1, <2>6, OneMore
  <2>8. /\ conn' = [conn EXCEPT ![s] = c] /\ wire' \in [Side -> Seq(Frame)]
        /\ wire'[s] = Tail(wire[s]) /\ wire'[o] = wire[o] \o <<f>>
        /\ UNCHANGED <<asked, sent, closes>>
    BY <1>2, <2>1, <2>7, TakeWires
  <2>9. ChannelOK(s, c, conn[o], Tail(wire[s]))
    BY <1>0, <1>1, <1>2, <1>3, <2>2, <2>5, ChannelLead DEF h
  <2>10. ASSUME Open(o) PROVE ChannelOK(o, conn[o], c, wire[o] \o <<f>>)
    <3>1. ChannelOK(o, conn[o], conn[s], wire[o])
      BY <1>0, <2>10, KeyFacts
    <3>2. conn[s].state # "ACTIVE" => o = Leader
      BY <1>0, <1>1, <1>2, <2>2, ConnFields DEF Open, Side
    <3>3. conn[o].state = "REKEYING"
      BY <1>1, <2>3, <2>10, ConnFields DEF Open
    <3>4. c.active # conn[o].active
      BY <1>1, <2>5, ConnFields DEF EndOK
    <3>. QED BY <1>0, <1>1, <2>3, <2>5, <2>6, <3>1, <3>2, <3>3, <3>4, ChannelLed
  <2>11. EndType(c) /\ EndOK(c, made')
    BY <1>1, <2>1, <2>5 DEF EndType, EndOK
  <2>12. made' \in Nat /\ made <= made' /\ asked' \in Nat /\ sent' \in Nat /\ closes' \in Nat
    BY <1>1, <2>1, <2>8
  <2>. QED BY <1>4, <2>5, <2>7, <2>8, <2>9, <2>10, <2>11, <2>12, OneEnd
<1>. QED BY <1>6, <1>7

\* The end that a response makes follow its peer
Followed(c, k) == [Switched(c, k) EXCEPT !.eph = 0, !.cool = 0]

LEMMA FollowFacts ==
  ASSUME NEW c \in Conn, NEW k \in Nat
  PROVE  /\ Followed(c, k) \in Conn
         /\ Followed(c, k).epoch = c.epoch + 1 /\ Followed(c, k).active = k
         /\ Followed(c, k).state = "ACTIVE" /\ Followed(c, k).scp = "STABLE"
         /\ Followed(c, k).eph = 0
         /\ Followed(c, k).previous = c.active /\ Followed(c, k).prevAge = 0
<1>. DEFINE b == Switched(c, k)
            u == [b EXCEPT !.eph = 0, !.cool = 0]
<1>1. /\ b \in Conn /\ b.epoch = c.epoch + 1 /\ b.active = k
      /\ b.state = "ACTIVE" /\ b.scp = "STABLE" /\ b.previous = c.active /\ b.prevAge = 0
  BY SwitchedFacts
<1>. HIDE DEF b
<1>2. /\ u \in Conn /\ u.epoch = b.epoch /\ u.active = b.active /\ u.state = b.state
      /\ u.scp = b.scp /\ u.eph = 0 /\ u.previous = b.previous /\ u.prevAge = b.prevAge
  BY <1>1 DEF Conn
<1>3. Followed(c, k) = u
  BY DEF Followed, b
<1>. HIDE DEF u
<1>. QED BY <1>1, <1>2, <1>3

LEMMA ReceiveResponseKeys ==
  ASSUME KeyInv, NEW s \in Side, ReceiveResponse(s)
  PROVE  KeyInv'
<1>. DEFINE o == Other(s)
            h == Head(wire[s])
            c == Followed(conn[s], h.fresh)
<1>0. o \in Side /\ Other(o) = s /\ o # s
  BY OtherFacts
<1>1. /\ conn[s] \in Conn /\ conn[o] \in Conn /\ wire[s] \in Seq(Frame) /\ wire[o] \in Seq(Frame)
      /\ made \in Nat /\ asked \in Nat /\ sent \in Nat /\ closes \in Nat
      /\ EndOK(conn[s], made) /\ EndOK(conn[o], made)
  BY <1>0, KeyFacts
<1>2. wire[s] # <<>> /\ h.type = Response /\ Open(s)
  BY DEF ReceiveResponse, Arrives, Response
<1>3. ChannelOK(s, conn[s], conn[o], wire[s])
  BY <1>2, KeyFacts
<1>4. /\ Verifies(conn[s], h) /\ Behind(conn[s], conn[o])
      /\ h.fresh = conn[o].active /\ conn[o].active # conn[s].active
  BY <1>0, <1>1, <1>2, <1>3, ResponseVerifies
<1>5. Take(s, c, <<>>) /\ made' = made
  BY <1>4 DEF ReceiveResponse, Followed
<1>6. conn[o].active \in Nat /\ h.fresh \in Nat
  BY <1>1, <1>4, ConnFields
<1>7. /\ c \in Conn /\ c.epoch = conn[s].epoch + 1 /\ c.active = conn[o].active
      /\ c.state = "ACTIVE" /\ c.scp = "STABLE" /\ c.eph = 0
  <2>. DEFINE k == h.fresh
            r == conn[s]
  <2>1. k \in Nat /\ k = conn[o].active /\ r \in Conn /\ r = conn[s]
    BY <1>1, <1>4, <1>6
  <2>2. c = Followed(r, k)
    OBVIOUS
  <2>. HIDE DEF c, k, r
  <2>3. Followed(r, k) \in Conn /\ Followed(r, k).epoch = r.epoch + 1
    BY <2>1, FollowFacts
  <2>4. Followed(r, k).active = k
    BY <2>1, FollowFacts
  <2>5. Followed(r, k).state = "ACTIVE" /\ Followed(r, k).scp = "STABLE"
    BY <2>1, FollowFacts
  <2>6. Followed(r, k).eph = 0
    BY <2>1, FollowFacts
  <2>. QED BY <2>1, <2>2, <2>3, <2>4, <2>5, <2>6
<1>. HIDE DEF c, h
<1>8. wire[o] \o <<>> = wire[o] /\ Tail(wire[s]) \in Seq(Frame)
  BY <1>1, <1>2, NoneMore, TailFacts
<1>9. /\ conn' = [conn EXCEPT ![s] = c] /\ wire' \in [Side -> Seq(Frame)]
      /\ wire'[s] = Tail(wire[s]) /\ wire'[o] = wire[o] /\ UNCHANGED <<asked, sent, closes>>
  BY <1>1, <1>2, <1>5, <1>8, TakeWires
<1>10. ChannelOK(s, c, conn[o], Tail(wire[s]))
  BY <1>0, <1>1, <1>2, <1>3, <1>7, ChannelFollow DEF h
<1>11. ASSUME Open(o) PROVE ChannelOK(o, conn[o], c, wire[o])
  <2>1. ChannelOK(o, conn[o], conn[s], wire[o])
    BY <1>0, <1>11, KeyFacts
  <2>2. c.epoch = conn[o].epoch
    BY <1>4, <1>7 DEF Behind
  <2>. QED BY <1>0, <1>1, <1>4, <1>7, <2>1, <2>2, ChannelFollowed
<1>12. EndType(c) /\ EndOK(c, made')
  BY <1>1, <1>5, <1>7 DEF EndType, EndOK
<1>13. made' \in Nat /\ made <= made' /\ asked' \in Nat /\ sent' \in Nat /\ closes' \in Nat
  BY <1>1, <1>5, <1>9
<1>. QED BY <1>1, <1>7, <1>8, <1>9, <1>10, <1>11, <1>12, <1>13, OneEnd

LEMMA AgedFacts ==
  ASSUME NEW c \in Conn
  PROVE  /\ Aged(c) \in Conn
         /\ Aged(c).state = c.state /\ Aged(c).scp = c.scp
         /\ Aged(c).epoch = c.epoch /\ Aged(c).active = c.active /\ Aged(c).eph = c.eph
         /\ Aged(c).previous = IF c.prevAge + 1 >= PrevTtl THEN NoKey ELSE c.previous
         /\ Aged(c).prevAge = IF c.previous = NoKey THEN 0 ELSE c.prevAge + 1
         /\ Aged(c).pendingAge <= c.pendingAge + 1
<1>. DEFINE p == IF c.prevAge + 1 >= PrevTtl THEN NoKey ELSE c.previous
            q == IF c.previous = NoKey THEN 0 ELSE c.prevAge + 1
            r == IF c.state = "REKEYING" THEN CapAt(c.pendingAge, PendingTimeout + 1)
                 ELSE c.pendingAge
            k == CapAt(c.cool, Cooldown)
            a == [c EXCEPT !.previous = p, !.prevAge = q, !.pendingAge = r, !.cool = k]
<1>1. /\ p \in Nat \cup {NoKey} /\ q \in Nat /\ r \in Nat /\ k \in Nat
      /\ r <= c.pendingAge + 1
  BY ConnFields, TransportAssumption DEF CapAt
<1>2. Aged(c) = a
  BY DEF Aged
<1>. HIDE DEF p, q, r, k
<1>3. a \in Conn
  BY <1>1 DEF Conn
<1>4. /\ a.state = c.state /\ a.scp = c.scp /\ a.epoch = c.epoch /\ a.active = c.active
      /\ a.eph = c.eph /\ a.previous = p /\ a.prevAge = q /\ a.pendingAge = r
  BY DEF Conn
<1>. HIDE DEF a
<1>. QED BY <1>1, <1>2, <1>3, <1>4 DEF p, q

\* The wire one tick later
Later(w) == [i \in DOMAIN w |-> [w[i] EXCEPT !.age = @ + 1]]

LEMMA LaterFacts ==
  ASSUME NEW w \in Seq(Frame)
  PROVE  /\ Later(w) \in Seq(Frame) /\ DOMAIN Later(w) = DOMAIN w
         /\ \A i \in DOMAIN w :
              /\ Later(w)[i].type = w[i].type /\ Later(w)[i].key = w[i].key
              /\ Later(w)[i].epoch = w[i].epoch /\ Later(w)[i].eph = w[i].eph
              /\ Later(w)[i].fresh = w[i].fresh /\ Later(w)[i].age = w[i].age + 1
<1>1. Len(w) \in Nat /\ DOMAIN w = 1..Len(w)
  OBVIOUS
<1>2. ASSUME NEW i \in DOMAIN w
      PROVE  [w[i] EXCEPT !.age = @ + 1] \in Frame
  <2>1. w[i] \in Frame
    BY FramesOf
  <2>2. w[i].age + 1 \in Nat
    BY <2>1, FrameFields
  <2>. QED BY <2>1, <2>2 DEF Frame
<1>3. Later(w) \in Seq(Frame)
  BY <1>1, <1>2, IsASeq DEF Later
<1>4. ASSUME NEW i \in DOMAIN w
      PROVE  /\ Later(w)[i].type = w[i].type /\ Later(w)[i].key = w[i].key
             /\ Later(w)[i].epoch = w[i].epoch /\ Later(w)[i].eph = w[i].eph
             /\ Later(w)[i].fresh = w[i].fresh /\ Later(w)[i].age = w[i].age + 1
  <2>1. w[i] \in Frame
    BY FramesOf
  <2>. QED BY <2>1 DEF Later, Frame
<1>5. DOMAIN Later(w) = DOMAIN w
  BY DEF Later
<1>. QED BY <1>3, <1>4, <1>5

LEMMA ChannelLater ==
  ASSUME NEW s \in Side, NEW c \in Conn, NEW d \in Conn, NEW w \in Seq(Frame),
         ChannelOK(s, c, d, w)
  PROVE  ChannelOK(s, c, d, Later(w))
<1>1. \A i \in DOMAIN w : FrameOK(s, c, d, w[i])
  BY DEF ChannelOK
<1>2. \A i \in DOMAIN Later(w) : FrameOK(s, c, d, Later(w)[i])
  BY <1>1, LaterFacts DEF FrameOK
<1>3. OrderOK(d, Later(w))
  BY LaterFacts DEF ChannelOK, OrderOK
<1>4. Behind(c, d) => \E i \in DOMAIN Later(w) : Later(w)[i].type = Response
  BY LaterFacts DEF ChannelOK
<1>. QED BY <1>2, <1>3, <1>4 DEF ChannelOK

LEMMA TickStates ==
  ASSUME KeyInv, Tick, NEW s \in Side
  PROVE  /\ conn' \in [Side -> Conn]
         /\ conn'[s] = IF Open(s) THEN Aged(conn[s]) ELSE conn[s]
         /\ wire' \in [Side -> Seq(Frame)] /\ wire'[s] = Later(wire[s])
         /\ conn'[s].state = conn[s].state /\ conn'[s].scp = conn[s].scp
         /\ conn'[s].epoch = conn[s].epoch /\ conn'[s].active = conn[s].active
         /\ conn'[s].eph = conn[s].eph
<1>1. \A t \in Side : conn[t] \in Conn /\ Aged(conn[t]) \in Conn /\ Later(wire[t]) \in Seq(Frame)
  BY KeyFacts, AgedFacts, LaterFacts
<1>2. /\ conn' = [t \in Side |-> IF Open(t) THEN Aged(conn[t]) ELSE conn[t]]
      /\ wire' = [t \in Side |-> Later(wire[t])]
  BY DEF Tick, Later
<1>3. conn' \in [Side -> Conn] /\ wire' \in [Side -> Seq(Frame)]
  BY <1>1, <1>2
<1>4. conn'[s] = (IF Open(s) THEN Aged(conn[s]) ELSE conn[s]) /\ wire'[s] = Later(wire[s])
  BY <1>2
<1>. QED BY <1>1, <1>3, <1>4, AgedFacts

LEMMA TickKeys ==
  ASSUME KeyInv, Tick
  PROVE  KeyInv'
<1>1. UNCHANGED <<made, asked, sent, closes>>
  BY DEF Tick
<1>2. conn' \in [Side -> Conn] /\ wire' \in [Side -> Seq(Frame)]
  BY TickStates DEF Side
<1>3. ASSUME NEW s \in Side
      PROVE  /\ EndType(conn'[s]) /\ EndOK(conn'[s], made)
             /\ conn'[s].state # "CLOSED" =>
                  ChannelOK(s, conn'[s], conn'[Other(s)], wire'[s])
  <2>1. EndType(conn'[s]) /\ EndOK(conn'[s], made)
    BY KeyFacts, TickStates DEF EndType, EndOK
  <2>2. ASSUME conn'[s].state # "CLOSED"
        PROVE  ChannelOK(s, conn'[s], conn'[Other(s)], wire'[s])
    <3>0. Other(s) \in Side
      BY OtherFacts
    <3>1. /\ conn[s] \in Conn /\ conn[Other(s)] \in Conn /\ wire[s] \in Seq(Frame)
          /\ conn'[s] \in Conn /\ conn'[Other(s)] \in Conn
      BY <1>2, <3>0, KeyFacts
    <3>2. ChannelOK(s, conn[s], conn[Other(s)], Later(wire[s]))
      BY <2>2, <3>1, KeyFacts, TickStates, ChannelLater DEF Open
    <3>3. ChannelOK(s, conn'[s], conn'[Other(s)], Later(wire[s]))
      <4>. DEFINE c2 == conn'[s]
                  d2 == conn'[Other(s)]
                  w == Later(wire[s])
      <4>1. /\ c2.state = conn[s].state /\ c2.epoch = conn[s].epoch
            /\ c2.active = conn[s].active /\ c2.eph = conn[s].eph
        BY TickStates
      <4>2. /\ d2.state = conn[Other(s)].state /\ d2.epoch = conn[Other(s)].epoch
            /\ d2.active = conn[Other(s)].active /\ d2.eph = conn[Other(s)].eph
        BY <3>0, TickStates
      <4>3. w \in Seq(Frame) /\ c2 \in Conn /\ d2 \in Conn
            /\ ChannelOK(s, conn[s], conn[Other(s)], w)
        BY <3>1, <3>2, LaterFacts
      <4>. HIDE DEF c2, d2, w
      <4>4. ChannelOK(s, c2, d2, w)
        BY <3>1, <4>1, <4>2, <4>3, ChannelSame
      <4>. QED BY <4>4 DEF c2, d2, w
    <3>. QED BY <3>3, TickStates
  <2>. QED BY <2>1, <2>2
<1>4. TransportTypeOK'
  BY <1>1, <1>2, <1>3 DEF KeyInv, TransportTypeOK, EndType
<1>. QED BY <1>1, <1>3, <1>4 DEF KeyInv, Open

LEMMA KeyInit == Init => KeyInv
<1>. SUFFICES ASSUME Init PROVE KeyInv
  OBVIOUS
<1>1. /\ NewConn \in Conn /\ NewConn.state = "ACTIVE" /\ NewConn.scp = "STABLE"
      /\ NewConn.epoch = 0 /\ NewConn.active = 0 /\ NewConn.eph = 0
  BY TransportAssumption DEF NewConn, Conn
<1>. HIDE DEF NewConn
<1>2. <<>> \in Seq(Frame) /\ DOMAIN <<>> = {}
  OBVIOUS
<1>3. \A s \in Side : conn[s] = NewConn /\ wire[s] = <<>> /\ Other(s) \in Side
  BY OtherFacts DEF Init
<1>4. TransportTypeOK
  BY <1>1, <1>2, <1>3 DEF Init, TransportTypeOK
<1>5. \A s \in Side : EndOK(conn[s], made)
  BY <1>1, <1>3 DEF Init, EndOK
<1>6. ASSUME NEW s \in Side PROVE ChannelOK(s, conn[s], conn[Other(s)], wire[s])
  <2>1. conn[s] = NewConn /\ conn[Other(s)] = NewConn /\ wire[s] = <<>>
    BY <1>3
  <2>2. EpochsOK(NewConn, NewConn) /\ ~Behind(NewConn, NewConn)
    BY <1>1 DEF EpochsOK, Behind
  <2>3. (\A i \in DOMAIN <<>> : FrameOK(s, NewConn, NewConn, <<>>[i])) /\ OrderOK(NewConn, <<>>)
    BY <1>2 DEF OrderOK
  <2>. QED BY <2>1, <2>2, <2>3 DEF ChannelOK
<1>. QED BY <1>4, <1>5, <1>6 DEF KeyInv

LEMMA KeyStep == KeyInv /\ [Next]_vars => KeyInv'
<1>. SUFFICES ASSUME KeyInv, [Next]_vars PROVE KeyInv'
  OBVIOUS
<1>1. CASE Tick
  BY <1>1, TickKeys
<1>2. ASSUME NEW s \in Side,
             RequestRekey(s) \/ BeginSend(s) \/ BeginSendRekeying(s)
             \/ FinishSend(s) \/ FinishSendRekeying(s)
      PROVE  KeyInv'
  BY <1>2, SendingKeys
<1>3. ASSUME NEW s \in Side, RekeyTimesOut(s) \/ Close(s) \/ Receive(s)
      PROVE  KeyInv'
  BY <1>3, EndingKeys, ReceiveDataKeys, ReceiveRequestKeys, ReceiveResponseKeys DEF Receive
<1>4. CASE UNCHANGED vars
  BY <1>4 DEF vars, KeyInv, TransportTypeOK, Open
<1>. QED BY <1>1, <1>2, <1>3, <1>4 DEF Next

\* An epoch names one key at both ends and on the wires, and an end is at most one
\* switch behind, with the answer it waits for on its wire (the rekey of
\* secure_connection.ts).
THEOREM KeysInvariant == Spec => []KeyInv
<1>. QED BY KeyInit, KeyStep, PTL DEF Spec

\* Type correctness of both ends, the wires and the counters; it needs KeyInv,
\* because a response that failed to verify would leave the state and the control
\* plane of an end apart (secure_connection.ts, TransportTypeOK of the run rekey).
THEOREM TransportTypeCorrect == Spec => []TransportTypeOK
<1>. QED BY KeysInvariant, PTL DEF KeyInv

LEMMA KeysDoAgree == KeyInv => KeysAgree
<1>. SUFFICES ASSUME KeyInv, BothOpen
              PROVE  \/ /\ conn[Leader].epoch = conn[Follower].epoch
                        /\ conn[Leader].active = conn[Follower].active
                     \/ \E s \in Side : /\ conn[s].epoch = conn[Other(s)].epoch + 1
                                        /\ KeyOnItsWay(s, Other(s))
  BY DEF KeysAgree
<1>1. ASSUME NEW s \in Side, Behind(conn[s], conn[Other(s)])
      PROVE  \E t \in Side : conn[t].epoch = conn[Other(t)].epoch + 1 /\ KeyOnItsWay(t, Other(t))
  <2>. DEFINE o == Other(s)
  <2>0. o \in Side /\ Other(o) = s /\ Open(s)
    BY OtherFacts DEF BothOpen, Side
  <2>1. ChannelOK(s, conn[s], conn[o], wire[s])
    BY <2>0, KeyFacts
  <2>2. PICK i \in DOMAIN wire[s] : wire[s][i].type = Response
    BY <1>1, <2>1 DEF ChannelOK
  <2>3. wire[s][i].fresh = conn[o].active /\ wire[s][i].key = conn[s].active
    BY <2>1, <2>2 DEF ChannelOK, FrameOK
  <2>4. KeyOnItsWay(o, s)
    BY <2>2, <2>3 DEF KeyOnItsWay, Response
  <2>. QED BY <1>1, <2>0, <2>4 DEF Behind
<1>2. Leader \in Side /\ Other(Leader) = Follower /\ Follower \in Side
      /\ Other(Follower) = Leader
  BY OtherFacts DEF Side, Other
<1>3. EpochsOK(conn[Leader], conn[Follower])
  BY <1>2, KeyFacts DEF BothOpen, ChannelOK
<1>4. CASE Behind(conn[Leader], conn[Follower])
  BY <1>1, <1>2, <1>4
<1>5. CASE Ahead(conn[Leader], conn[Follower])
  <2>1. Behind(conn[Follower], conn[Leader])
    BY <1>5 DEF Ahead, Behind
  <2>. QED BY <1>1, <1>2, <2>1
<1>6. CASE conn[Leader].epoch = conn[Follower].epoch
  BY <1>3, <1>6 DEF EpochsOK
<1>. QED BY <1>3, <1>4, <1>5, <1>6 DEF EpochsOK

\* Whoever asks and however requests cross, the two open ends hold the same key of
\* the same epoch, or the answer that brings the new one is on the wire
\* (resolveRekeyCollision and the dual-key window of secure_connection.ts).
THEOREM KeysStayTogether == Spec => []KeysAgree
<1>. QED BY KeysInvariant, KeysDoAgree, PTL

\* A step of s changes the end s only.
LEMMA Moved ==
  ASSUME KeyInv, NEW s \in Side, NEW c, NEW out, Step(s, c, out) \/ Take(s, c, out),
         NEW t \in Side
  PROVE  conn'[t] = IF t = s THEN c ELSE conn[t]
BY KeyFacts DEF Step, Take

Progress(s) ==
  conn[s].state = "REKEYING" /\ conn'[s].state = "ACTIVE" =>
    conn'[s].epoch = conn[s].epoch + 1 /\ conn'[s].active # conn[s].active

LEMMA SendingProgress ==
  ASSUME KeyInv, NEW s \in Side, NEW t \in Side,
         RequestRekey(s) \/ BeginSend(s) \/ BeginSendRekeying(s)
         \/ FinishSend(s) \/ FinishSendRekeying(s)
  PROVE  Progress(t)
<1>0. conn[s] \in Conn
  BY KeyFacts
<1>1. CASE RequestRekey(s) \/ BeginSendRekeying(s)
  <2>1. PICK auto \in BOOLEAN : StartRekey(s, auto)
    BY <1>1 DEF RequestRekey, BeginSendRekeying
  <2>2. conn[s].state = "ACTIVE"
    BY <2>1 DEF StartRekey
  <2>3. t # s => conn'[t] = conn[t]
    BY <2>1, KeyFacts DEF StartRekey, Step
  <2>. QED BY <2>2, <2>3 DEF Progress
<1>2. CASE BeginSend(s)
  <2>. DEFINE c == [conn[s] EXCEPT !.sends = @ + 1]
  <2>1. Step(s, c, <<>>) /\ c.state = conn[s].state
    BY <1>0, <1>2 DEF BeginSend, Conn
  <2>. HIDE DEF c
  <2>. QED BY <2>1, Moved DEF Progress
<1>3. CASE FinishSend(s)
  <2>. DEFINE c == [conn[s] EXCEPT !.sends = @ - 1]
  <2>1. PICK out : Step(s, c, out)
    BY <1>3 DEF FinishSend
  <2>2. c.state = conn[s].state
    BY <1>0 DEF Conn
  <2>. HIDE DEF c
  <2>. QED BY <2>1, <2>2, Moved DEF Progress
<1>4. CASE FinishSendRekeying(s)
  <2>. DEFINE c == [conn[s] EXCEPT !.auto = FALSE]
  <2>1. PICK out : Step(s, c, out)
    BY <1>4 DEF FinishSendRekeying
  <2>2. c.state = conn[s].state
    BY <1>0 DEF Conn
  <2>. HIDE DEF c
  <2>. QED BY <2>1, <2>2, Moved DEF Progress
<1>. QED BY <1>1, <1>2, <1>3, <1>4

LEMMA ReceivingProgress ==
  ASSUME KeyInv, NEW s \in Side, NEW t \in Side, RekeyTimesOut(s) \/ Close(s) \/ Receive(s)
  PROVE  Progress(t)
<1>0. conn[s] \in Conn /\ EndType(conn[s]) /\ EndOK(conn[s], made) /\ made \in Nat
      /\ conn[Other(s)] \in Conn
  BY KeyFacts, OtherFacts
<1>1. CASE RekeyTimesOut(s)
  BY <1>0, <1>1, Moved, ClosedFacts DEF RekeyTimesOut, Progress
<1>2. CASE Close(s)
  BY <1>0, <1>2, Moved, ClosedFacts DEF Close, Progress
<1>3. CASE ReceiveNothing(s)
  <2>1. Take(s, conn[s], <<>>) \/ Take(s, Terminated(conn[s]), <<>>)
        \/ Take(s, Closed(conn[s]), <<>>)
    BY <1>3 DEF ReceiveNothing
  <2>. QED BY <1>0, <2>1, Moved, ClosedFacts DEF Progress
<1>4. CASE ReceiveData(s)
  BY <1>4, Moved DEF ReceiveData, Progress
<1>5. CASE ReceiveRequest(s)
  <2>1. Open(s)
    BY <1>5 DEF ReceiveRequest, Arrives
  <2>. DEFINE a == AbortLocalRekey(conn[s])
              c == Switched(a, made + 1)
  <2>2. a \in Conn /\ a.epoch = conn[s].epoch /\ made + 1 \in Nat
    BY <1>0, <2>1, AbortFacts DEF Open
  <2>3. Take(s, conn[s], <<>>) \/ \E out : Take(s, c, out)
    BY <1>5 DEF ReceiveRequest
  <2>. HIDE DEF a
  <2>4. c.epoch = conn[s].epoch + 1 /\ c.active = made + 1
    BY <2>2, SwitchedFacts
  <2>5. c.active # conn[s].active
    BY <1>0, <2>4, ConnFields DEF EndOK
  <2>. HIDE DEF c
  <2>. QED BY <2>3, <2>4, <2>5, Moved DEF Progress
<1>6. CASE ReceiveResponse(s)
  <2>. DEFINE h == Head(wire[s])
              c == Followed(conn[s], h.fresh)
              d == conn[Other(s)]
  <2>1. wire[s] # <<>> /\ h.type = Response /\ Open(s) /\ wire[s] \in Seq(Frame)
    BY <1>6, KeyFacts DEF ReceiveResponse, Arrives, Response
  <2>2. ChannelOK(s, conn[s], d, wire[s])
    BY <2>1, KeyFacts
  <2>3. Verifies(conn[s], h) /\ h.fresh = d.active /\ d.active # conn[s].active
    BY <1>0, <2>1, <2>2, ResponseVerifies
  <2>4. Take(s, c, <<>>)
    BY <1>6, <2>3 DEF ReceiveResponse, Followed
  <2>5. h.fresh \in Nat
    BY <1>0, <2>3, ConnFields
  <2>. HIDE DEF h
  <2>6. conn[s] \in Conn
    BY <1>0
  <2>7. c.epoch = conn[s].epoch + 1 /\ c.active = h.fresh
    BY <2>5, <2>6, FollowFacts
  <2>. HIDE DEF c, d
  <2>. QED BY <2>3, <2>4, <2>6, <2>7, Moved DEF Progress
<1>. QED BY <1>1, <1>2, <1>3, <1>4, <1>5, <1>6 DEF Receive

LEMMA ProgressHolds ==
  KeyInv /\ [Next]_vars => [\A s \in Side : Progress(s)]_vars
<1>. SUFFICES ASSUME KeyInv, Next, NEW t \in Side PROVE Progress(t)
  OBVIOUS
<1>1. CASE Tick
  BY <1>1, TickStates DEF Progress
<1>2. CASE ~Tick
  BY <1>2, SendingProgress, ReceivingProgress DEF Next
<1>. QED BY <1>1, <1>2

\* An end never returns from REKEYING with the key it went in with: the response on a
\* wire in order always verifies (handleRekeyResponse of secure_connection.ts).
THEOREM RekeyNeverFails == Spec => RekeyMakesProgress
<1>. QED BY KeysInvariant, ProgressHolds, PTL DEF Spec, RekeyMakesProgress, Progress

-------------------------------------------------------------------------------
(* Refinement: what a step of s, which makes it c, is at the level of SessionKeys *)

Becomes(s, c) == \A t \in Side : conn'[t] = IF t = s THEN c ELSE conn[t]

LEMMA SideIs == Keys!Side = Side /\ \A s \in Side : Keys!Peer(s) = Other(s)
BY DEF Keys!Side, Side, Keys!Peer, Other

\* Neither keys nor the state: a stutter.
LEMMA MapQuiet ==
  ASSUME NEW s \in Side, NEW c, Becomes(s, c), made' = made,
         c.state = conn[s].state, c.epoch = conn[s].epoch, c.active = conn[s].active
  PROVE  UNCHANGED Keys!keyVars
BY DEF Becomes, Keys!keyVars

LEMMA MapAsk ==
  ASSUME NEW s \in Side, NEW c, Becomes(s, c), made' = made, conn[s].state = "ACTIVE",
         c.state = "REKEYING", c.epoch = conn[s].epoch, c.active = conn[s].active
  PROVE  Keys!Ask(s)
BY DEF Becomes, Keys!Ask

LEMMA MapClose ==
  ASSUME NEW s \in Side, NEW c, Becomes(s, c), made' = made, Open(s),
         c.state = "CLOSED", c.epoch = conn[s].epoch, c.active = conn[s].active
  PROVE  Keys!Close(s)
BY DEF Becomes, Keys!Close, Open

LEMMA MapLead ==
  ASSUME NEW s \in Side, NEW c, Becomes(s, c), made' = made + 1, Other(s) \in Side,
         conn[s].state = "ACTIVE" \/ (conn[s].state = "REKEYING" /\ s = Follower),
         conn[Other(s)].state # "ACTIVE", conn[s].epoch = conn[Other(s)].epoch,
         conn[s].active = conn[Other(s)].active,
         c.state = "ACTIVE", c.epoch = conn[s].epoch + 1, c.active = made + 1
  PROVE  Keys!Lead(s)
BY SideIs DEF Becomes, Keys!Lead, Keys!Enter

LEMMA MapFollow ==
  ASSUME NEW s \in Side, NEW c, Becomes(s, c), made' = made, Other(s) \in Side,
         conn[s].state = "REKEYING", conn[Other(s)].epoch = conn[s].epoch + 1,
         c.state = "ACTIVE", c.epoch = conn[s].epoch + 1, c.active = conn[Other(s)].active
  PROVE  Keys!Follow(s)
BY SideIs DEF Becomes, Keys!Follow, Keys!Enter

LEMMA SendingKeysStep ==
  ASSUME KeyInv, NEW s \in Side,
         RequestRekey(s) \/ BeginSend(s) \/ BeginSendRekeying(s)
         \/ FinishSend(s) \/ FinishSendRekeying(s)
  PROVE  Keys!Ask(s) \/ UNCHANGED Keys!keyVars
<1>0. conn[s] \in Conn
  BY KeyFacts
<1>1. CASE RequestRekey(s) \/ BeginSendRekeying(s)
  <2>1. PICK auto \in BOOLEAN : StartRekey(s, auto) /\ made' = made
    BY <1>1 DEF RequestRekey, BeginSendRekeying
  <2>. DEFINE c == [Asked(conn[s]) EXCEPT !.auto = @ \/ auto]
  <2>2. conn[s].state = "ACTIVE" /\ \E out : Step(s, c, out)
    BY <2>1 DEF StartRekey
  <2>3. c.state = "REKEYING" /\ c.epoch = conn[s].epoch /\ c.active = conn[s].active
    BY <2>2, AskFacts
  <2>. HIDE DEF c
  <2>4. Becomes(s, c)
    BY <2>2, Moved DEF Becomes
  <2>. QED BY <2>1, <2>2, <2>3, <2>4, MapAsk
<1>2. CASE BeginSend(s)
  <2>. DEFINE c == [conn[s] EXCEPT !.sends = @ + 1]
  <2>1. /\ Step(s, c, <<>>) /\ made' = made
        /\ c.state = conn[s].state /\ c.epoch = conn[s].epoch /\ c.active = conn[s].active
    BY <1>0, <1>2 DEF BeginSend, Conn
  <2>. HIDE DEF c
  <2>. QED BY <2>1, Moved, MapQuiet DEF Becomes
<1>3. CASE FinishSend(s)
  <2>. DEFINE c == [conn[s] EXCEPT !.sends = @ - 1]
  <2>1. (\E out : Step(s, c, out)) /\ made' = made
    BY <1>3 DEF FinishSend
  <2>2. c.state = conn[s].state /\ c.epoch = conn[s].epoch /\ c.active = conn[s].active
    BY <1>0 DEF Conn
  <2>. HIDE DEF c
  <2>. QED BY <2>1, <2>2, Moved, MapQuiet DEF Becomes
<1>4. CASE FinishSendRekeying(s)
  <2>. DEFINE c == [conn[s] EXCEPT !.auto = FALSE]
  <2>1. (\E out : Step(s, c, out)) /\ made' = made
    BY <1>4 DEF FinishSendRekeying
  <2>2. c.state = conn[s].state /\ c.epoch = conn[s].epoch /\ c.active = conn[s].active
    BY <1>0 DEF Conn
  <2>. HIDE DEF c
  <2>. QED BY <2>1, <2>2, Moved, MapQuiet DEF Becomes
<1>. QED BY <1>1, <1>2, <1>3, <1>4

LEMMA EndingKeysStep ==
  ASSUME KeyInv, NEW s \in Side, RekeyTimesOut(s) \/ Close(s) \/ ReceiveNothing(s)
  PROVE  Keys!Close(s) \/ UNCHANGED Keys!keyVars
<1>. DEFINE o == conn[s]
            c == Closed(conn[s])
            u == Terminated(conn[s])
<1>1. /\ EndOK(conn[s], made) /\ conn[s] \in Conn
      /\ c.state = "CLOSED" /\ c.epoch = o.epoch /\ c.active = o.active
      /\ u.state = "CLOSED" /\ u.epoch = o.epoch /\ u.active = o.active
  BY KeyFacts, ClosedFacts
<1>2. /\ made' = made
      /\ \/ \E out : Take(s, o, out)
         \/ Open(s) /\ \E out : Step(s, c, out) \/ Take(s, c, out)
         \/ Open(s) /\ \E out : Step(s, u, out) \/ Take(s, u, out)
  BY DEF RekeyTimesOut, Overdue, Open, Close, ReceiveNothing
<1>. HIDE DEF o, c, u
<1>3. \/ Becomes(s, o)
      \/ Open(s) /\ Becomes(s, c)
      \/ Open(s) /\ Becomes(s, u)
  BY <1>2, Moved DEF Becomes
<1>4. CASE Becomes(s, o)
  BY <1>2, <1>4, MapQuiet DEF o
<1>5. CASE Open(s) /\ Becomes(s, c)
  BY <1>1, <1>2, <1>5, MapClose DEF o
<1>6. CASE Open(s) /\ Becomes(s, u)
  BY <1>1, <1>2, <1>6, MapClose DEF o
<1>. QED BY <1>3, <1>4, <1>5, <1>6

LEMMA RequestKeysStep ==
  ASSUME KeyInv, NEW s \in Side, ReceiveRequest(s)
  PROVE  Keys!Lead(s) \/ UNCHANGED Keys!keyVars
<1>. DEFINE o == Other(s)
            a == AbortLocalRekey(conn[s])
            c == Switched(a, made + 1)
<1>0. o \in Side /\ Other(o) = s
  BY OtherFacts
<1>1. /\ conn[s] \in Conn /\ conn[o] \in Conn /\ wire[s] \in Seq(Frame) /\ made \in Nat
      /\ EndType(conn[s])
  BY <1>0, KeyFacts
<1>2. wire[s] # <<>> /\ Head(wire[s]).type = Request /\ Open(s)
  BY DEF ReceiveRequest, Arrives, Request
<1>3. /\ a \in Conn /\ a.epoch = conn[s].epoch
      /\ RekeyInProgress(conn[s]) <=> conn[s].state = "REKEYING"
  BY <1>1, <1>2, AbortFacts DEF Open
<1>4. CASE IgnoresIncoming(s)
  <2>1. Take(s, conn[s], <<>>) /\ made' = made
    BY <1>4 DEF ReceiveRequest
  <2>. QED BY <2>1, Moved, MapQuiet DEF Becomes
<1>5. CASE ~IgnoresIncoming(s)
  <2>1. (\E out : Take(s, c, out)) /\ made' = made + 1
    BY <1>5 DEF ReceiveRequest
  <2>2. ~(conn[s].state = "REKEYING" /\ s = Leader)
    BY <1>3, <1>5 DEF IgnoresIncoming
  <2>3. /\ conn[s].epoch = conn[o].epoch /\ conn[s].active = conn[o].active
        /\ conn[o].state # "ACTIVE"
    BY <1>0, <1>1, <1>2, <2>2, KeyFacts, RequestCounts
  <2>4. conn[s].state = "ACTIVE" \/ (conn[s].state = "REKEYING" /\ s = Follower)
    BY <1>1, <1>2, <2>2, ConnFields DEF Open, Side
  <2>. HIDE DEF a
  <2>5. c.state = "ACTIVE" /\ c.epoch = conn[s].epoch + 1 /\ c.active = made + 1
    <3>. made + 1 \in Nat
      BY <1>1
    <3>. QED BY <1>3, SwitchedFacts
  <2>. HIDE DEF c
  <2>6. Becomes(s, c)
    BY <2>1, Moved DEF Becomes
  <2>. QED BY <1>0, <2>1, <2>3, <2>4, <2>5, <2>6, MapLead
<1>. QED BY <1>4, <1>5

LEMMA ResponseKeysStep ==
  ASSUME KeyInv, NEW s \in Side, ReceiveResponse(s)
  PROVE  Keys!Follow(s)
<1>. DEFINE h == Head(wire[s])
            c == Followed(conn[s], h.fresh)
            d == conn[Other(s)]
<1>1. /\ conn[s] \in Conn /\ d \in Conn /\ EndOK(conn[s], made) /\ Other(s) \in Side
  BY KeyFacts, OtherFacts
<1>2. wire[s] # <<>> /\ h.type = Response /\ Open(s) /\ wire[s] \in Seq(Frame)
  BY KeyFacts DEF ReceiveResponse, Arrives, Response
<1>3. ChannelOK(s, conn[s], d, wire[s])
  BY <1>2, KeyFacts
<1>4. /\ Verifies(conn[s], h) /\ h.fresh = d.active /\ d.epoch = conn[s].epoch + 1
      /\ conn[s].state = "REKEYING"
  BY <1>1, <1>2, <1>3, ResponseVerifies DEF Behind
<1>5. Take(s, c, <<>>) /\ made' = made
  BY <1>4 DEF ReceiveResponse, Followed
<1>6. h.fresh \in Nat
  BY <1>1, <1>4, ConnFields
<1>. HIDE DEF h
<1>7. c.state = "ACTIVE" /\ c.epoch = conn[s].epoch + 1 /\ c.active = h.fresh
  BY <1>1, <1>6, FollowFacts
<1>. HIDE DEF c
<1>8. Becomes(s, c)
  BY <1>5, Moved DEF Becomes
<1>. QED BY <1>1, <1>4, <1>5, <1>7, <1>8, MapFollow

LEMMA KeysInit == Init => Keys!Init
<1>. SUFFICES ASSUME Init PROVE Keys!Init
  OBVIOUS
<1>1. NewConn.state = "ACTIVE" /\ NewConn.epoch = 0 /\ NewConn.active = 0
  BY DEF NewConn
<1>2. \A s \in Side : conn[s] = NewConn
  BY DEF Init
<1>. QED BY <1>1, <1>2, SideIs DEF Init, Keys!Init

LEMMA KeysNext == KeyInv /\ [Next]_vars => [Keys!Next]_Keys!keyVars
<1>. SUFFICES ASSUME KeyInv, [Next]_vars PROVE Keys!Next \/ UNCHANGED Keys!keyVars
  OBVIOUS
<1>1. CASE Tick
  <2>1. made' = made
    BY <1>1 DEF Tick
  <2>2. \A s \in Side : /\ conn'[s].state = conn[s].state /\ conn'[s].epoch = conn[s].epoch
                        /\ conn'[s].active = conn[s].active
    BY <1>1, TickStates
  <2>. QED BY <2>1, <2>2 DEF Keys!keyVars
<1>2. ASSUME NEW s \in Side,
             \/ RequestRekey(s) \/ BeginSend(s) \/ BeginSendRekeying(s)
             \/ FinishSend(s) \/ FinishSendRekeying(s)
             \/ RekeyTimesOut(s) \/ Close(s) \/ Receive(s)
      PROVE  Keys!Next \/ UNCHANGED Keys!keyVars
  <2>1. CASE ReceiveData(s)
    <3>1. Take(s, conn[s], <<>>) /\ made' = made
      BY <2>1 DEF ReceiveData
    <3>. QED BY <3>1, Moved, MapQuiet DEF Becomes
  <2>2. CASE ~ReceiveData(s)
    <3>1. Keys!Ask(s) \/ Keys!Lead(s) \/ Keys!Follow(s) \/ Keys!Close(s)
          \/ UNCHANGED Keys!keyVars
      BY <1>2, <2>2, SendingKeysStep, EndingKeysStep, RequestKeysStep, ResponseKeysStep
         DEF Receive
    <3>. QED BY <3>1, SideIs DEF Keys!Next
  <2>. QED BY <2>1, <2>2
<1>3. CASE UNCHANGED vars
  BY <1>3 DEF vars, Keys!keyVars
<1>. QED BY <1>1, <1>2, <1>3 DEF Next

\* The transport refines SessionKeys: an end's key changes only when it makes the one
\* its peer asked for, or takes the one its peer made (handleRekeyRequest,
\* handleRekeyResponse and resolveRekeyCollision of secure_connection.ts).
THEOREM RefinesSessionKeys == Spec => ImplementsSessionKeys
<1>. QED BY KeysInvariant, KeysInit, KeysNext, PTL DEF Spec, ImplementsSessionKeys, Keys!Spec

-------------------------------------------------------------------------------
(* Ages: what is on the wires w to c and v to d bounds the clocks of c *)

\* A wire in order: whatever is behind a frame was sent later.
AgesOK(w) ==
  /\ \A i \in DOMAIN w : w[i].age <= MaxDelay
  /\ \A i, j \in DOMAIN w : i < j => w[j].age <= w[i].age

\* The previous key is there for the frames that need it: those sent before the
\* sender followed, which it did when the response reached it.
PreviousOK(c, d, w, v) ==
  /\ \A i \in DOMAIN w : w[i].epoch = c.epoch - 1 =>
       /\ c.previous = w[i].key
       /\ Ahead(c, d) \/ c.prevAge <= w[i].age + MaxDelay
  /\ Ahead(c, d) =>
       /\ c.previous = d.active
       /\ \A i \in DOMAIN v : v[i].type = Response => c.prevAge <= v[i].age

\* A pending rekey is as old as its request, then no older than that and a way back;
\* of two that crossed, the follower's waits for the leader's.
PendingOK(s, c, d, w, v) ==
  c.state = "REKEYING" =>
    /\ \A i \in DOMAIN v : v[i].type = Request /\ v[i].epoch = c.epoch =>
         c.pendingAge <= v[i].age
    /\ \A i \in DOMAIN w : w[i].type = Response => c.pendingAge <= w[i].age + MaxDelay
    /\ \/ Behind(c, d)
       \/ \E i \in DOMAIN v : v[i].type = Request /\ v[i].epoch = c.epoch
       \/ /\ s = Follower /\ d.epoch = c.epoch /\ d.state = "REKEYING"
          /\ \E i \in DOMAIN w : /\ w[i].type = Request /\ w[i].epoch = d.epoch
                                 /\ c.pendingAge <= w[i].age + MaxDelay

EndTimeOK(s, c, d, w, v) == PreviousOK(c, d, w, v) /\ PendingOK(s, c, d, w, v)

TimeInv ==
  /\ \A s \in Side : AgesOK(wire[s])
  /\ BothOpen => \A s \in Side :
       EndTimeOK(s, conn[s], conn[Other(s)], wire[s], wire[Other(s)])

LEMMA AgesTail ==
  ASSUME NEW w \in Seq(Frame), w # <<>>, AgesOK(w)
  PROVE  AgesOK(Tail(w))
<1>1. \A i \in DOMAIN Tail(w) : Tail(w)[i].age <= MaxDelay
  BY TailFacts DEF AgesOK
<1>2. ASSUME NEW i \in DOMAIN Tail(w), NEW j \in DOMAIN Tail(w), i < j
      PROVE  Tail(w)[j].age <= Tail(w)[i].age
  <2>1. i + 1 \in DOMAIN w /\ j + 1 \in DOMAIN w /\ i + 1 < j + 1
        /\ Tail(w)[i] = w[i + 1] /\ Tail(w)[j] = w[j + 1]
    BY <1>2, TailFacts
  <2>. QED BY <2>1 DEF AgesOK
<1>. QED BY <1>1, <1>2 DEF AgesOK

LEMMA AgesMore ==
  ASSUME NEW w \in Seq(Frame), NEW f \in Frame, f.age = 0, AgesOK(w)
  PROVE  AgesOK(w \o <<f>>)
<1>. DEFINE p == w \o <<f>>
<1>0. MaxDelay \in Nat
  BY TransportAssumption
<1>1. \A i \in DOMAIN p : p[i].age <= MaxDelay
  BY <1>0, OneMore DEF AgesOK
<1>2. ASSUME NEW i \in DOMAIN p, NEW j \in DOMAIN p, i < j
      PROVE  p[j].age <= p[i].age
  <2>0. i \in DOMAIN w /\ p[i] = w[i] /\ w[i].age \in Nat
    <3>1. Len(w) \in Nat /\ i \in Nat /\ j \in Nat /\ (j \in DOMAIN w => j < Len(w) + 1)
      BY OneMore, FramesOf
    <3>2. i \in DOMAIN w
      BY <1>2, <3>1, OneMore
    <3>. QED BY <3>2, OneMore, FramesOf, FrameFields
  <2>1. CASE j \in DOMAIN w
    BY <1>2, <2>0, <2>1, OneMore DEF AgesOK
  <2>2. CASE j = Len(w) + 1
    BY <2>0, <2>2, OneMore
  <2>. QED BY <2>1, <2>2, OneMore
<1>. HIDE DEF p
<1>3. AgesOK(p)
  BY <1>1, <1>2 DEF AgesOK
<1>. QED BY <1>3 DEF p

\* s becomes c, the wires w and v: what is left to show of a step.
LEMMA TwoEnds ==
  ASSUME KeyInv, NEW s \in Side, NEW c \in Conn, NEW w \in Seq(Frame), NEW v \in Seq(Frame),
         conn' = [conn EXCEPT ![s] = c], wire'[s] = w, wire'[Other(s)] = v,
         AgesOK(w), AgesOK(v),
         c.state # "CLOSED" /\ Open(Other(s)) =>
           /\ EndTimeOK(s, c, conn[Other(s)], w, v)
           /\ EndTimeOK(Other(s), conn[Other(s)], c, v, w)
  PROVE  TimeInv'
<1>. DEFINE o == Other(s)
<1>0. o \in Side /\ o # s /\ Other(o) = s /\ \A t \in Side : t = s \/ t = o
  BY OtherFacts DEF Side, Other
<1>1. conn'[s] = c /\ conn'[o] = conn[o]
  BY <1>0, KeyFacts
<1>2. ASSUME NEW t \in Side PROVE AgesOK(wire'[t])
  BY <1>0
<1>3. ASSUME BothOpen', NEW t \in Side
      PROVE  EndTimeOK(t, conn'[t], conn'[Other(t)], wire'[t], wire'[Other(t)])
  <2>1. conn'[s].state # "CLOSED" /\ conn'[o].state # "CLOSED"
    BY <1>0, <1>3 DEF BothOpen, Open, Side
  <2>2. c.state # "CLOSED" /\ Open(o)
    BY <1>1, <2>1 DEF Open
  <2>3. CASE t = s
    BY <1>1, <2>2, <2>3
  <2>4. CASE t = o
    BY <1>0, <1>1, <2>2, <2>4
  <2>. QED BY <1>0, <2>3, <2>4
<1>. QED BY <1>2, <1>3 DEF TimeInv

\* What c sends under its key is too young to matter.
LEMMA TimeSend ==
  ASSUME NEW s \in Side, NEW o \in Side, NEW c \in Conn, NEW d \in Conn,
         NEW w \in Seq(Frame), NEW v \in Seq(Frame), NEW f \in Frame,
         EndTimeOK(s, c, d, w, v), EndTimeOK(o, d, c, v, w),
         f.type = "DATA", f.key = c.active, f.epoch = c.epoch
  PROVE  /\ EndTimeOK(s, c, d, w, v \o <<f>>)
         /\ EndTimeOK(o, d, c, v \o <<f>>, w)
<1>. DEFINE p == v \o <<f>>
<1>0. /\ c.epoch \in Nat /\ d.epoch \in Nat
      /\ f.type # Request /\ f.type # Response
  BY ConnFields DEF Request, Response
<1>1. /\ \A i \in DOMAIN v : i \in DOMAIN p /\ p[i] = v[i]
      /\ \A i \in DOMAIN p : i \in DOMAIN v \/ p[i] = f
  BY OneMore
<1>. HIDE DEF p
<1>2. PreviousOK(c, d, w, p)
  BY <1>0, <1>1 DEF EndTimeOK, PreviousOK
<1>3. PreviousOK(d, c, p, w)
  <2>1. ASSUME NEW i \in DOMAIN p, p[i].epoch = d.epoch - 1
        PROVE  d.previous = p[i].key /\ (Ahead(d, c) \/ d.prevAge <= p[i].age + MaxDelay)
    <3>1. CASE i \in DOMAIN v
      BY <1>1, <2>1, <3>1 DEF EndTimeOK, PreviousOK
    <3>2. CASE p[i] = f
      <4>1. Ahead(d, c)
        BY <1>0, <2>1, <3>2 DEF Ahead
      <4>. QED BY <3>2, <4>1 DEF EndTimeOK, PreviousOK
    <3>. QED BY <1>1, <3>1, <3>2
  <2>. QED BY <2>1 DEF EndTimeOK, PreviousOK
<1>4. PendingOK(s, c, d, w, p)
  BY <1>0, <1>1 DEF EndTimeOK, PendingOK
<1>5. PendingOK(o, d, c, p, w)
  BY <1>0, <1>1 DEF EndTimeOK, PendingOK
<1>6. EndTimeOK(s, c, d, w, p) /\ EndTimeOK(o, d, c, p, w)
  BY <1>2, <1>3, <1>4, <1>5 DEF EndTimeOK
<1>. QED BY <1>6 DEF p

LEMMA TimeSame ==
  ASSUME NEW s \in Side, NEW o \in Side, NEW c \in Conn, NEW d \in Conn, NEW c2 \in Conn,
         NEW w \in Seq(Frame), NEW v \in Seq(Frame),
         EndTimeOK(s, c, d, w, v), EndTimeOK(o, d, c, v, w),
         c2.state = c.state, c2.epoch = c.epoch, c2.active = c.active,
         c2.previous = c.previous, c2.prevAge = c.prevAge, c2.pendingAge = c.pendingAge
  PROVE  EndTimeOK(s, c2, d, w, v) /\ EndTimeOK(o, d, c2, v, w)
<1>1. PreviousOK(c2, d, w, v) /\ PreviousOK(d, c2, v, w)
  BY DEF EndTimeOK, PreviousOK, Ahead
<1>2. PendingOK(s, c2, d, w, v) /\ PendingOK(o, d, c2, v, w)
  BY DEF EndTimeOK, PendingOK, Behind
<1>. QED BY <1>1, <1>2 DEF EndTimeOK

\* c asks, and is c2 from then on.
LEMMA TimeAsk ==
  ASSUME NEW s \in Side, NEW o \in Side, NEW c \in Conn, NEW d \in Conn, NEW c2 \in Conn,
         NEW w \in Seq(Frame), NEW v \in Seq(Frame), NEW f \in Frame,
         EndTimeOK(s, c, d, w, v), EndTimeOK(o, d, c, v, w), ChannelOK(s, c, d, w),
         c.state = "ACTIVE", c2.epoch = c.epoch, c2.active = c.active,
         c2.previous = c.previous, c2.prevAge = c.prevAge, c2.pendingAge = 0,
         f.type = Request, f.epoch = c.epoch
  PROVE  /\ EndTimeOK(s, c2, d, w, v \o <<f>>)
         /\ EndTimeOK(o, d, c2, v \o <<f>>, w)
<1>. DEFINE p == v \o <<f>>
<1>0. /\ c.epoch \in Nat /\ d.epoch \in Nat /\ MaxDelay \in Nat
      /\ f.type # Response /\ f.age \in Nat
  BY ConnFields, FrameFields, TransportAssumption DEF Request, Response
<1>1. /\ \A i \in DOMAIN v : i \in DOMAIN p /\ p[i] = v[i]
      /\ \A i \in DOMAIN p : i \in DOMAIN v \/ p[i] = f
      /\ \E i \in DOMAIN p : p[i] = f
      /\ \A i \in DOMAIN p : p[i] \in Frame /\ p[i].age \in Nat
      /\ \A i \in DOMAIN w : w[i] \in Frame /\ w[i].age \in Nat
  <2>1. p \in Seq(Frame)
    BY OneMore
  <2>2. /\ \A i \in DOMAIN v : i \in DOMAIN p /\ p[i] = v[i]
        /\ \A i \in DOMAIN p : i \in DOMAIN v \/ p[i] = f
    BY OneMore
  <2>3. \E i \in DOMAIN p : p[i] = f
    <3>1. Len(v) + 1 \in DOMAIN p /\ p[Len(v) + 1] = f
      BY OneMore
    <3>. QED BY <3>1
  <2>. HIDE DEF p
  <2>. QED BY <2>1, <2>2, <2>3, FramesOf, FrameFields
<1>. HIDE DEF p
<1>2. /\ Behind(c2, d) <=> Behind(c, d)
      /\ Ahead(c2, d) <=> Ahead(c, d)
      /\ Behind(d, c2) <=> Behind(d, c)
      /\ Ahead(d, c2) <=> Ahead(d, c)
      /\ ~Ahead(d, c)
  BY DEF ChannelOK, EpochsOK, Behind, Ahead
<1>3. PreviousOK(c2, d, w, p)
  BY <1>0, <1>1, <1>2 DEF EndTimeOK, PreviousOK
<1>4. PreviousOK(d, c2, p, w)
  <2>1. f.epoch # d.epoch - 1
    BY <1>0, <1>2 DEF Ahead
  <2>. QED BY <1>1, <1>2, <2>1 DEF EndTimeOK, PreviousOK
<1>5. PendingOK(s, c2, d, w, p)
  <2>1. \A i \in DOMAIN p : c2.pendingAge <= p[i].age
    BY <1>1
  <2>2. \A i \in DOMAIN w : c2.pendingAge <= w[i].age + MaxDelay
    BY <1>0, <1>1
  <2>3. \E i \in DOMAIN p : p[i].type = Request /\ p[i].epoch = c2.epoch
    BY <1>1
  <2>. QED BY <2>1, <2>2, <2>3 DEF PendingOK
<1>6. PendingOK(o, d, c2, p, w)
  BY <1>0, <1>1, <1>2 DEF EndTimeOK, PendingOK
<1>7. EndTimeOK(s, c2, d, w, p) /\ EndTimeOK(o, d, c2, p, w)
  BY <1>3, <1>4, <1>5, <1>6 DEF EndTimeOK
<1>. QED BY <1>7 DEF p

\* c reads data, or the leader a request that it ignores.
LEMMA TimeTail ==
  ASSUME NEW s \in Side, NEW o \in Side, o = Other(s), NEW c \in Conn, NEW d \in Conn,
         NEW w \in Seq(Frame), NEW v \in Seq(Frame), w # <<>>, AgesOK(w), AgesOK(v),
         EndTimeOK(s, c, d, w, v), EndTimeOK(o, d, c, v, w),
         ChannelOK(s, c, d, w), ChannelOK(o, d, c, v), Head(w).type # Response,
         Head(w).type = Request => s = Leader /\ c.state = "REKEYING"
  PROVE  /\ EndTimeOK(s, c, d, Tail(w), v)
         /\ EndTimeOK(o, d, c, v, Tail(w))
<1>0. /\ c.epoch \in Nat /\ d.epoch \in Nat /\ MaxDelay \in Nat /\ d.pendingAge \in Nat
      /\ Head(w) = w[1] /\ 1 \in DOMAIN w /\ w[1] \in Frame
  BY ConnFields, TailFacts, TransportAssumption
<1>1. PreviousOK(c, d, Tail(w), v)
  BY TailFacts DEF EndTimeOK, PreviousOK
<1>2. PreviousOK(d, c, v, Tail(w))
  BY TailFacts DEF EndTimeOK, PreviousOK
<1>3. PendingOK(s, c, d, Tail(w), v)
  <2>. SUFFICES ASSUME c.state = "REKEYING" PROVE PendingOK(s, c, d, Tail(w), v)
    BY DEF PendingOK
  <2>1. \A i \in DOMAIN Tail(w) : Tail(w)[i].type = Response =>
          c.pendingAge <= Tail(w)[i].age + MaxDelay
    BY TailFacts DEF EndTimeOK, PendingOK
  <2>2. CASE s = Leader
    <3>1. s # Follower
      BY <2>2, TransportAssumption
    <3>. QED BY <2>1, <3>1 DEF EndTimeOK, PendingOK
  <2>3. CASE s # Leader
    <3>1. w[1].type # Request
      BY <1>0, <2>3
    <3>2. ASSUME NEW i \in DOMAIN w, w[i].type = Request
          PROVE  i - 1 \in DOMAIN Tail(w) /\ Tail(w)[i - 1] = w[i]
      BY <3>1, <3>2, TailFacts
    <3>. QED BY <2>1, <3>2 DEF EndTimeOK, PendingOK
  <2>. QED BY <2>2, <2>3
<1>4. PendingOK(o, d, c, v, Tail(w))
  <2>. SUFFICES ASSUME d.state = "REKEYING" PROVE PendingOK(o, d, c, v, Tail(w))
    BY DEF PendingOK
  <2>1. \A i \in DOMAIN Tail(w) : Tail(w)[i].type = Request /\ Tail(w)[i].epoch = d.epoch =>
          d.pendingAge <= Tail(w)[i].age
    BY TailFacts DEF EndTimeOK, PendingOK
  <2>2. \A i \in DOMAIN v : v[i].type = Response => d.pendingAge <= v[i].age + MaxDelay
    BY DEF EndTimeOK, PendingOK
  <2>3. CASE w[1].type = Request /\ w[1].epoch = d.epoch
    <3>1. s = Leader /\ c.state = "REKEYING" /\ o = Follower /\ s # Follower
      BY <1>0, <2>3, TransportAssumption DEF Other
    <3>2. ~Behind(c, d) /\ ~Ahead(c, d)
      <4>1. FrameOK(s, c, d, w[1])
        BY <1>0 DEF ChannelOK
      <4>2. ~Ahead(c, d)
        BY <1>0, <2>3, <4>1 DEF FrameOK, Ahead, Request
      <4>3. ASSUME Behind(c, d) PROVE FALSE
        <5>1. PICK r \in DOMAIN w : w[r].type = Response
          BY <4>3 DEF ChannelOK
        <5>2. 1 < r /\ w[r].epoch = c.epoch
          BY <1>0, <5>1, FramesOf DEF ChannelOK, FrameOK
        <5>3. w[1].epoch <= w[r].epoch
          BY <1>0, <5>1, <5>2 DEF ChannelOK, OrderOK
        <5>. QED BY <1>0, <2>3, <4>3, <5>2, <5>3 DEF Behind
      <4>. QED BY <4>2, <4>3
    <3>3. c.epoch = d.epoch
      BY <3>2 DEF ChannelOK, EpochsOK
    <3>4. PICK j \in DOMAIN v : v[j].type = Request /\ v[j].epoch = c.epoch
      BY <3>1, <3>2 DEF EndTimeOK, PendingOK
    <3>5. d.pendingAge <= w[1].age /\ w[1].age <= MaxDelay /\ w[1].age \in Nat
      BY <1>0, <2>3, FrameFields DEF EndTimeOK, PendingOK, AgesOK
    <3>6. v[j].age \in Nat
      BY FramesOf, FrameFields
    <3>7. d.pendingAge <= v[j].age + MaxDelay
      BY <1>0, <3>5, <3>6
    <3>. QED BY <2>1, <2>2, <3>1, <3>3, <3>4, <3>7 DEF PendingOK
  <2>4. CASE ~(w[1].type = Request /\ w[1].epoch = d.epoch)
    <3>1. ASSUME NEW i \in DOMAIN w, w[i].type = Request, w[i].epoch = d.epoch
          PROVE  i - 1 \in DOMAIN Tail(w) /\ Tail(w)[i - 1] = w[i]
      BY <2>4, <3>1, TailFacts
    <3>. QED BY <2>1, <2>2, <3>1 DEF EndTimeOK, PendingOK
  <2>. QED BY <2>3, <2>4
<1>. QED BY <1>1, <1>2, <1>3, <1>4 DEF EndTimeOK

\* c answers the request at the head of its wire with f, and is c2 from then on.
LEMMA TimeLead ==
  ASSUME NEW s \in Side, NEW o \in Side, NEW c \in Conn, NEW d \in Conn, NEW c2 \in Conn,
         NEW w \in Seq(Frame), NEW v \in Seq(Frame), NEW f \in Frame,
         w # <<>>, AgesOK(w), EndTimeOK(s, c, d, w, v), EndTimeOK(o, d, c, v, w),
         ChannelOK(s, c, d, w), ChannelOK(o, d, c, v), Head(w).type = Request,
         ~(c.state = "REKEYING" /\ s = Leader), c2.state = "ACTIVE",
         c2.epoch = c.epoch + 1, c2.previous = c.active, c2.prevAge = 0,
         f.type = Response, f.epoch = c.epoch
  PROVE  /\ EndTimeOK(s, c2, d, Tail(w), v \o <<f>>)
         /\ EndTimeOK(o, d, c2, v \o <<f>>, Tail(w))
<1>. DEFINE p == v \o <<f>>
<1>0. /\ c.epoch \in Nat /\ d.epoch \in Nat /\ MaxDelay \in Nat /\ d.pendingAge \in Nat
      /\ Head(w) = w[1] /\ 1 \in DOMAIN w /\ w[1] \in Frame /\ f.age \in Nat
      /\ Request # Response /\ Request # "DATA" /\ Response # "DATA"
  BY ConnFields, FrameFields, TailFacts, TransportAssumption DEF Request, Response
<1>1. /\ c.epoch = d.epoch /\ c.active = d.active
      /\ w[1].epoch = d.epoch /\ w[1].type = Request
      /\ \A i \in DOMAIN Tail(w) : /\ Tail(w)[i].epoch = d.epoch /\ Tail(w)[i].key = d.active
                                   /\ Tail(w)[i].type = "DATA"
  BY <1>0, RequestCounts
<1>2. /\ Ahead(c2, d) /\ Behind(d, c2) /\ ~Ahead(d, c2) /\ ~Ahead(d, c) /\ ~Behind(d, c)
  BY <1>0, <1>1 DEF Ahead, Behind
<1>3. /\ \A i \in DOMAIN v : v[i].type # Response
      /\ \A i \in DOMAIN p : (i \in DOMAIN v /\ p[i] = v[i]) \/ p[i] = f
  <2>1. \A i \in DOMAIN v : v[i].type # Response
    BY <1>2 DEF ChannelOK, FrameOK
  <2>2. \A i \in DOMAIN p : (i \in DOMAIN v /\ p[i] = v[i]) \/ p[i] = f
    BY OneMore
  <2>. QED BY <2>1, <2>2
<1>. HIDE DEF p
<1>4. PreviousOK(c2, d, Tail(w), p)
  BY <1>0, <1>1, <1>2, <1>3 DEF PreviousOK
<1>5. PreviousOK(d, c2, p, Tail(w))
  <2>1. f.epoch # d.epoch - 1
    BY <1>0, <1>1
  <2>. QED BY <1>2, <1>3, <2>1 DEF EndTimeOK, PreviousOK
<1>6. PendingOK(s, c2, d, Tail(w), p)
  BY DEF PendingOK
<1>7. PendingOK(o, d, c2, p, Tail(w))
  <2>. SUFFICES ASSUME d.state = "REKEYING" PROVE PendingOK(o, d, c2, p, Tail(w))
    BY DEF PendingOK
  <2>1. d.pendingAge <= w[1].age /\ w[1].age <= MaxDelay /\ w[1].age \in Nat
    BY <1>0, <1>1, FrameFields DEF EndTimeOK, PendingOK, AgesOK
  <2>2. d.pendingAge <= f.age + MaxDelay
    BY <1>0, <2>1
  <2>. QED BY <1>0, <1>1, <1>2, <1>3, <2>2 DEF PendingOK
<1>8. EndTimeOK(s, c2, d, Tail(w), p) /\ EndTimeOK(o, d, c2, p, Tail(w))
  BY <1>4, <1>5, <1>6, <1>7 DEF EndTimeOK
<1>. QED BY <1>8 DEF p

\* c follows with the response at the head of its wire, and is c2 from then on.
LEMMA TimeFollow ==
  ASSUME NEW s \in Side, NEW o \in Side, NEW c \in Conn, NEW d \in Conn, NEW c2 \in Conn,
         NEW w \in Seq(Frame), NEW v \in Seq(Frame),
         w # <<>>, AgesOK(w), EndTimeOK(s, c, d, w, v), EndTimeOK(o, d, c, v, w),
         ChannelOK(s, c, d, w), ChannelOK(o, d, c, v), Head(w).type = Response,
         c2.state = "ACTIVE", c2.epoch = c.epoch + 1, c2.previous = c.active, c2.prevAge = 0
  PROVE  /\ EndTimeOK(s, c2, d, Tail(w), v)
         /\ EndTimeOK(o, d, c2, v, Tail(w))
<1>0. /\ c.epoch \in Nat /\ d.epoch \in Nat /\ MaxDelay \in Nat /\ d.prevAge \in Nat
      /\ Head(w) = w[1] /\ 1 \in DOMAIN w /\ w[1] \in Frame /\ w[1].age \in Nat
      /\ Request # Response
  BY ConnFields, FrameFields, TailFacts, TransportAssumption DEF Request, Response
<1>1. d.epoch = c.epoch + 1 /\ c2.epoch = d.epoch
  BY <1>0 DEF ChannelOK, FrameOK, Behind
<1>2. /\ ~Ahead(c2, d) /\ Ahead(d, c) /\ ~Behind(d, c) /\ ~Ahead(d, c2) /\ ~Behind(d, c2)
  BY <1>0, <1>1 DEF Ahead, Behind
<1>3. \A i \in DOMAIN Tail(w) : Tail(w)[i].epoch = d.epoch
  <2>. SUFFICES ASSUME NEW i \in DOMAIN Tail(w) PROVE Tail(w)[i].epoch = d.epoch
    OBVIOUS
  <2>1. i + 1 \in DOMAIN w /\ 1 < i + 1 /\ Tail(w)[i] = w[i + 1]
    BY TailFacts
  <2>. QED BY <1>0, <2>1 DEF ChannelOK, OrderOK
<1>4. PreviousOK(c2, d, Tail(w), v)
  BY <1>0, <1>1, <1>2, <1>3 DEF PreviousOK
<1>5. PreviousOK(d, c2, v, Tail(w))
  <2>1. d.prevAge <= MaxDelay
    <3>1. d.prevAge <= w[1].age /\ w[1].age <= MaxDelay
      BY <1>0, <1>2 DEF EndTimeOK, PreviousOK, AgesOK
    <3>. QED BY <1>0, <3>1
  <2>2. \A i \in DOMAIN v : v[i].age \in Nat
    BY FramesOf, FrameFields
  <2>3. \A i \in DOMAIN v : d.prevAge <= v[i].age + MaxDelay
    BY <1>0, <2>1, <2>2
  <2>. QED BY <1>2, <2>3 DEF EndTimeOK, PreviousOK
<1>6. PendingOK(s, c2, d, Tail(w), v)
  BY DEF PendingOK
<1>7. PendingOK(o, d, c2, v, Tail(w))
  <2>. SUFFICES ASSUME d.state = "REKEYING" PROVE PendingOK(o, d, c2, v, Tail(w))
    BY DEF PendingOK
  <2>1. \A i \in DOMAIN Tail(w) : Tail(w)[i].type = Request /\ Tail(w)[i].epoch = d.epoch =>
          d.pendingAge <= Tail(w)[i].age
    BY TailFacts DEF EndTimeOK, PendingOK
  <2>2. PICK i \in DOMAIN w : w[i].type = Request /\ w[i].epoch = d.epoch
    BY <1>0, <1>1, <1>2 DEF EndTimeOK, PendingOK
  <2>3. i - 1 \in DOMAIN Tail(w) /\ Tail(w)[i - 1] = w[i]
    BY <1>0, <2>2, TailFacts
  <2>. QED BY <2>1, <2>2, <2>3 DEF EndTimeOK, PendingOK
<1>. QED BY <1>4, <1>5, <1>6, <1>7 DEF EndTimeOK

\* A clock that is at most D past a frame not yet due stays so for one more unit of
\* time, and below any bound over 2 * D.
LEMMA OneMoreTick ==
  ASSUME NEW p \in Nat, NEW x \in Nat, NEW D \in Nat, NEW T \in Nat,
         p <= x + D, x < D, D + D < T
  PROVE  p + 1 < T /\ p + 1 <= x + 1 + D
  OBVIOUS

\* A clock no older than a frame stays so while both age.
LEMMA AgeTogether ==
  ASSUME NEW p \in Nat, NEW q \in Nat, NEW x \in Nat, p <= x, q <= p + 1
  PROVE  q <= x + 1
  OBVIOUS

\* A tick: frames and clocks age alike, and no frame was due.
LEMMA TimeTick ==
  ASSUME NEW s \in Side, NEW o \in Side, NEW c \in Conn, NEW d \in Conn, NEW d2 \in Conn,
         NEW w \in Seq(Frame), NEW v \in Seq(Frame),
         EndTimeOK(s, c, d, w, v), ChannelOK(s, c, d, w), ChannelOK(o, d, c, v),
         \A i \in DOMAIN w : w[i].age < MaxDelay,
         \A i \in DOMAIN v : v[i].age < MaxDelay,
         d2.state = d.state, d2.epoch = d.epoch, d2.active = d.active
  PROVE  EndTimeOK(s, Aged(c), d2, Later(w), Later(v))
<1>. DEFINE a == Aged(c)
<1>0. /\ c.epoch \in Nat /\ d.epoch \in Nat /\ c.prevAge \in Nat /\ c.pendingAge \in Nat
      /\ d.active \in Nat /\ c.active \in Nat
      /\ MaxDelay \in Nat /\ PrevTtl \in Nat /\ MaxDelay + MaxDelay < PrevTtl
      /\ \A i \in DOMAIN w : w[i].age \in Nat /\ w[i].key \in Nat
      /\ \A i \in DOMAIN v : v[i].age \in Nat
  BY ConnFields, FramesOf, FrameFields, TransportAssumption
<1>1. /\ a \in Conn /\ a.state = c.state /\ a.epoch = c.epoch /\ a.active = c.active
      /\ c.prevAge + 1 < PrevTtl /\ c.previous # NoKey =>
           a.previous = c.previous /\ a.prevAge = c.prevAge + 1
      /\ a.pendingAge <= c.pendingAge + 1 /\ a.pendingAge \in Nat
  <2>1. /\ a \in Conn /\ a.state = c.state /\ a.epoch = c.epoch /\ a.active = c.active
        /\ a.previous = IF c.prevAge + 1 >= PrevTtl THEN NoKey ELSE c.previous
        /\ a.prevAge = IF c.previous = NoKey THEN 0 ELSE c.prevAge + 1
        /\ a.pendingAge <= c.pendingAge + 1
    BY AgedFacts
  <2>. HIDE DEF a
  <2>2. a.pendingAge \in Nat
    BY <2>1, ConnFields
  <2>. QED BY <1>0, <2>1, <2>2
<1>. HIDE DEF a
<1>2. /\ Behind(a, d2) <=> Behind(c, d)
      /\ Ahead(a, d2) <=> Ahead(c, d)
  BY <1>1 DEF Behind, Ahead
<1>3. ASSUME Ahead(c, d)
      PROVE  c.prevAge + 1 < PrevTtl /\ c.previous = d.active /\ c.previous # NoKey
  <2>1. PICK i \in DOMAIN v : v[i].type = Response
    BY <1>3 DEF ChannelOK, Ahead, Behind
  <2>2. c.prevAge <= v[i].age /\ v[i].age < MaxDelay
    BY <1>3, <2>1 DEF EndTimeOK, PreviousOK
  <2>3. c.prevAge + 1 < PrevTtl
    BY <1>0, <2>2
  <2>4. c.previous = d.active /\ c.previous # NoKey
    BY <1>0, <1>3 DEF EndTimeOK, PreviousOK, NoKey
  <2>. QED BY <2>3, <2>4
<1>4. ASSUME NEW i \in DOMAIN w, w[i].epoch = c.epoch - 1
      PROVE  /\ c.prevAge + 1 < PrevTtl /\ c.previous = w[i].key /\ c.previous # NoKey
             /\ Ahead(c, d) \/ c.prevAge + 1 <= w[i].age + 1 + MaxDelay
  <2>1. c.previous = w[i].key /\ c.previous # NoKey
    BY <1>0, <1>4 DEF EndTimeOK, PreviousOK, NoKey
  <2>2. CASE Ahead(c, d)
    BY <1>3, <2>1, <2>2
  <2>3. CASE ~Ahead(c, d)
    <3>1. c.prevAge <= w[i].age + MaxDelay /\ w[i].age < MaxDelay
      BY <1>4, <2>3 DEF EndTimeOK, PreviousOK
    <3>2. /\ w[i].age \in Nat /\ c.prevAge \in Nat
          /\ MaxDelay \in Nat /\ PrevTtl \in Nat /\ MaxDelay + MaxDelay < PrevTtl
      BY <1>0
    <3>3. c.prevAge + 1 < PrevTtl /\ c.prevAge + 1 <= w[i].age + 1 + MaxDelay
      BY <3>1, <3>2, OneMoreTick
    <3>. QED BY <2>1, <3>3
  <2>. QED BY <2>2, <2>3
<1>5. PreviousOK(a, d2, Later(w), Later(v))
  <2>1. ASSUME NEW i \in DOMAIN Later(w), Later(w)[i].epoch = a.epoch - 1
        PROVE  /\ a.previous = Later(w)[i].key
               /\ Ahead(a, d2) \/ a.prevAge <= Later(w)[i].age + MaxDelay
    BY <1>1, <1>2, <1>4, <2>1, LaterFacts
  <2>2. ASSUME Ahead(a, d2)
        PROVE  /\ a.previous = d2.active
               /\ \A i \in DOMAIN Later(v) : Later(v)[i].type = Response =>
                    a.prevAge <= Later(v)[i].age
    <3>1. a.previous = d.active /\ a.prevAge = c.prevAge + 1
      BY <1>1, <1>2, <1>3, <2>2
    <3>2. \A i \in DOMAIN v : v[i].type = Response => c.prevAge <= v[i].age
      BY <1>2, <2>2 DEF EndTimeOK, PreviousOK
    <3>3. ASSUME NEW i \in DOMAIN Later(v), Later(v)[i].type = Response
          PROVE  a.prevAge <= Later(v)[i].age
      <4>1. i \in DOMAIN v /\ v[i].type = Response /\ Later(v)[i].age = v[i].age + 1
        BY <3>3, LaterFacts
      <4>2. c.prevAge <= v[i].age /\ v[i].age \in Nat
        BY <1>0, <3>2, <4>1
      <4>. QED BY <1>0, <3>1, <4>1, <4>2
    <3>4. a.previous = d2.active
      BY <3>1
    <3>. QED BY <3>3, <3>4
  <2>. QED BY <2>1, <2>2 DEF PreviousOK
<1>6. PendingOK(s, a, d2, Later(w), Later(v))
  <2>. SUFFICES ASSUME c.state = "REKEYING" PROVE PendingOK(s, a, d2, Later(w), Later(v))
    BY <1>1 DEF PendingOK
  <2>1. \A i \in DOMAIN Later(v) : Later(v)[i].type = Request /\ Later(v)[i].epoch = a.epoch =>
          a.pendingAge <= Later(v)[i].age
    <3>. SUFFICES ASSUME NEW i \in DOMAIN Later(v), Later(v)[i].type = Request,
                         Later(v)[i].epoch = a.epoch
                  PROVE  a.pendingAge <= Later(v)[i].age
      OBVIOUS
    <3>1. i \in DOMAIN v /\ v[i].type = Request /\ v[i].epoch = c.epoch
          /\ Later(v)[i].age = v[i].age + 1
      BY <1>1, LaterFacts
    <3>2. c.pendingAge <= v[i].age /\ v[i].age \in Nat
      BY <1>0, <3>1 DEF EndTimeOK, PendingOK
    <3>3. a.pendingAge <= v[i].age + 1
      BY <1>0, <1>1, <3>2, AgeTogether
    <3>. QED BY <3>1, <3>3
  <2>2. \A i \in DOMAIN Later(w) : Later(w)[i].type = Response =>
          a.pendingAge <= Later(w)[i].age + MaxDelay
    <3>. SUFFICES ASSUME NEW i \in DOMAIN Later(w), Later(w)[i].type = Response
                  PROVE  a.pendingAge <= Later(w)[i].age + MaxDelay
      OBVIOUS
    <3>1. i \in DOMAIN w /\ w[i].type = Response /\ Later(w)[i].age = w[i].age + 1
      BY LaterFacts
    <3>2. c.pendingAge <= w[i].age + MaxDelay
      BY <3>1 DEF EndTimeOK, PendingOK
    <3>3. /\ w[i].age \in Nat /\ c.pendingAge \in Nat /\ a.pendingAge \in Nat
          /\ MaxDelay \in Nat /\ a.pendingAge <= c.pendingAge + 1
      BY <1>0, <1>1, <3>1
    <3>4. a.pendingAge <= w[i].age + 1 + MaxDelay
      BY <3>2, <3>3
    <3>. QED BY <3>1, <3>4
  <2>3. CASE Behind(c, d)
    BY <1>2, <2>1, <2>2, <2>3 DEF PendingOK
  <2>4. CASE \E i \in DOMAIN v : v[i].type = Request /\ v[i].epoch = c.epoch
    <3>1. \E i \in DOMAIN Later(v) : Later(v)[i].type = Request /\ Later(v)[i].epoch = a.epoch
      BY <1>1, <2>4, LaterFacts
    <3>. QED BY <2>1, <2>2, <3>1 DEF PendingOK
  <2>5. CASE /\ s = Follower /\ d.epoch = c.epoch /\ d.state = "REKEYING"
             /\ \E i \in DOMAIN w : /\ w[i].type = Request /\ w[i].epoch = d.epoch
                                    /\ c.pendingAge <= w[i].age + MaxDelay
    <3>1. \E i \in DOMAIN Later(w) : /\ Later(w)[i].type = Request /\ Later(w)[i].epoch = d2.epoch
                                     /\ a.pendingAge <= Later(w)[i].age + MaxDelay
      <4>1. PICK i \in DOMAIN w : /\ w[i].type = Request /\ w[i].epoch = d.epoch
                                  /\ c.pendingAge <= w[i].age + MaxDelay
        BY <2>5
      <4>2. /\ i \in DOMAIN Later(w) /\ Later(w)[i].type = Request /\ Later(w)[i].epoch = d2.epoch
            /\ Later(w)[i].age = w[i].age + 1
        BY <4>1, LaterFacts
      <4>3. /\ w[i].age \in Nat /\ c.pendingAge \in Nat /\ a.pendingAge \in Nat
            /\ MaxDelay \in Nat /\ a.pendingAge <= c.pendingAge + 1
        BY <1>0, <1>1
      <4>4. a.pendingAge <= w[i].age + 1 + MaxDelay
        BY <4>1, <4>3
      <4>5. a.pendingAge <= Later(w)[i].age + MaxDelay
        BY <4>2, <4>4
      <4>. QED BY <4>2, <4>5
    <3>. QED BY <1>1, <2>1, <2>2, <2>5, <3>1 DEF PendingOK
  <2>. QED BY <2>3, <2>4, <2>5 DEF EndTimeOK, PendingOK
<1>7. EndTimeOK(s, a, d2, Later(w), Later(v))
  BY <1>5, <1>6 DEF EndTimeOK
<1>. QED BY <1>7 DEF a

-------------------------------------------------------------------------------
(* TimeInv: the actions *)

LEMMA TimeFacts ==
  ASSUME KeyInv, TimeInv, NEW s \in Side
  PROVE  /\ Other(s) \in Side /\ Other(Other(s)) = s
         /\ conn[s] \in Conn /\ conn[Other(s)] \in Conn
         /\ wire[s] \in Seq(Frame) /\ wire[Other(s)] \in Seq(Frame)
         /\ AgesOK(wire[s]) /\ AgesOK(wire[Other(s)])
         /\ Open(s) /\ Open(Other(s)) =>
              /\ EndTimeOK(s, conn[s], conn[Other(s)], wire[s], wire[Other(s)])
              /\ EndTimeOK(Other(s), conn[Other(s)], conn[s], wire[Other(s)], wire[s])
              /\ ChannelOK(s, conn[s], conn[Other(s)], wire[s])
              /\ ChannelOK(Other(s), conn[Other(s)], conn[s], wire[Other(s)])
<1>1. Other(s) \in Side /\ Other(Other(s)) = s
  BY OtherFacts
<1>2. Open(s) /\ Open(Other(s)) => BothOpen
  BY DEF BothOpen, Side, Other
<1>. QED BY <1>1, <1>2, KeyFacts DEF TimeInv

LEMMA QuietTime ==
  ASSUME KeyInv, TimeInv, NEW s \in Side, NEW c \in Conn, Step(s, c, <<>>),
         \/ c.state = "CLOSED"
         \/ /\ c.state = conn[s].state /\ c.epoch = conn[s].epoch
            /\ c.active = conn[s].active /\ c.previous = conn[s].previous
            /\ c.prevAge = conn[s].prevAge /\ c.pendingAge = conn[s].pendingAge
  PROVE  TimeInv'
<1>. DEFINE o == Other(s)
<1>1. wire[s] \in Seq(Frame) /\ wire[o] \in Seq(Frame) /\ wire[o] \o <<>> = wire[o]
  BY TimeFacts, NoneMore
<1>2. conn' = [conn EXCEPT ![s] = c] /\ wire'[s] = wire[s] /\ wire'[o] = wire[o]
  <2>1. wire[o] \o <<>> \in Seq(Frame) /\ wire[o] \o <<>> = wire[o]
    BY <1>1
  <2>2. conn' = [conn EXCEPT ![s] = c] /\ wire'[s] = wire[s]
    BY <2>1, StepWires
  <2>3. wire'[o] = wire[o] \o <<>>
    BY <2>1, StepWires
  <2>. QED BY <2>1, <2>2, <2>3
<1>3. ASSUME c.state # "CLOSED", Open(o)
      PROVE  /\ EndTimeOK(s, c, conn[o], wire[s], wire[o])
             /\ EndTimeOK(o, conn[o], c, wire[o], wire[s])
  <2>1. /\ EndTimeOK(s, conn[s], conn[o], wire[s], wire[o])
        /\ EndTimeOK(o, conn[o], conn[s], wire[o], wire[s])
        /\ o \in Side /\ conn[s] \in Conn /\ conn[o] \in Conn
    BY <1>3, TimeFacts DEF Open
  <2>. HIDE DEF o
  <2>. QED BY <1>1, <1>3, <2>1, TimeSame
<1>. QED BY <1>1, <1>2, <1>3, TimeFacts, TwoEnds

LEMMA StartRekeyTime ==
  ASSUME KeyInv, TimeInv, NEW s \in Side, NEW auto \in BOOLEAN, StartRekey(s, auto)
  PROVE  TimeInv'
<1>. DEFINE o == Other(s)
            c == [Asked(conn[s]) EXCEPT !.auto = @ \/ auto]
            f == FrameOf("REKEY_REQUEST", conn[s], IF Pfs THEN asked + 1 ELSE 0, 0)
<1>1. conn[s].state = "ACTIVE" /\ Step(s, c, <<f>>)
  BY DEF StartRekey
<1>2. /\ c \in Conn /\ c.state = "REKEYING" /\ c.epoch = conn[s].epoch
      /\ c.active = conn[s].active /\ c.pendingAge = 0 /\ c.previous = conn[s].previous
      /\ c.prevAge = conn[s].prevAge
      /\ f \in Frame /\ f.type = Request /\ f.epoch = conn[s].epoch /\ f.age = 0
  BY <1>1, AskFacts
<1>. HIDE DEF c, f
<1>3. /\ wire[s] \in Seq(Frame) /\ wire[o] \in Seq(Frame) /\ wire[o] \o <<f>> \in Seq(Frame)
      /\ AgesOK(wire[s]) /\ AgesOK(wire[o] \o <<f>>)
  BY <1>2, TimeFacts, OneMore, AgesMore
<1>4. conn' = [conn EXCEPT ![s] = c] /\ wire'[s] = wire[s] /\ wire'[o] = wire[o] \o <<f>>
  BY <1>1, <1>3, StepWires
<1>5. ASSUME Open(o)
      PROVE  /\ EndTimeOK(s, c, conn[o], wire[s], wire[o] \o <<f>>)
             /\ EndTimeOK(o, conn[o], c, wire[o] \o <<f>>, wire[s])
  <2>1. /\ EndTimeOK(s, conn[s], conn[o], wire[s], wire[o])
        /\ EndTimeOK(o, conn[o], conn[s], wire[o], wire[s])
        /\ ChannelOK(s, conn[s], conn[o], wire[s])
        /\ o \in Side /\ conn[s] \in Conn /\ conn[o] \in Conn
    BY <1>1, <1>5, TimeFacts DEF Open
  <2>. HIDE DEF o
  <2>. QED BY <1>1, <1>2, <1>3, <2>1, TimeAsk
<1>. QED BY <1>2, <1>3, <1>4, <1>5, TwoEnds

LEMMA DataTime ==
  ASSUME KeyInv, TimeInv, NEW s \in Side, NEW c \in Conn, NEW f \in Frame, Open(s),
         Step(s, c, <<f>>), f.type = "DATA", f.key = c.active, f.epoch = c.epoch, f.age = 0,
         c.state = conn[s].state, c.epoch = conn[s].epoch,
         c.active = conn[s].active, c.previous = conn[s].previous,
         c.prevAge = conn[s].prevAge, c.pendingAge = conn[s].pendingAge
  PROVE  TimeInv'
<1>. DEFINE o == Other(s)
<1>1. /\ wire[s] \in Seq(Frame) /\ wire[o] \in Seq(Frame) /\ wire[o] \o <<f>> \in Seq(Frame)
      /\ AgesOK(wire[s]) /\ AgesOK(wire[o] \o <<f>>)
  BY TimeFacts, OneMore, AgesMore
<1>2. conn' = [conn EXCEPT ![s] = c] /\ wire'[s] = wire[s] /\ wire'[o] = wire[o] \o <<f>>
  <2>1. wire[o] \o <<f>> \in Seq(Frame)
    BY <1>1
  <2>2. conn' = [conn EXCEPT ![s] = c] /\ wire'[s] = wire[s]
    BY <2>1, StepWires
  <2>3. wire'[o] = wire[o] \o <<f>>
    BY KeyFacts, OtherFacts DEF Step
  <2>. QED BY <2>2, <2>3
<1>3. ASSUME Open(o)
      PROVE  /\ EndTimeOK(s, c, conn[o], wire[s], wire[o] \o <<f>>)
             /\ EndTimeOK(o, conn[o], c, wire[o] \o <<f>>, wire[s])
  <2>1. /\ EndTimeOK(s, conn[s], conn[o], wire[s], wire[o])
        /\ EndTimeOK(o, conn[o], conn[s], wire[o], wire[s])
        /\ o \in Side /\ conn[s] \in Conn /\ conn[o] \in Conn
    BY <1>3, TimeFacts
  <2>. HIDE DEF o
  <2>2. EndTimeOK(s, c, conn[o], wire[s], wire[o]) /\ EndTimeOK(o, conn[o], c, wire[o], wire[s])
    BY <1>1, <2>1, TimeSame
  <2>. QED BY <1>1, <2>1, <2>2, TimeSend
<1>. QED BY <1>1, <1>2, <1>3, TwoEnds

LEMMA SendTimes ==
  ASSUME NEW c \in Conn, NEW n \in Nat, NEW b \in BOOLEAN
  PROVE  LET x == [c EXCEPT !.sends = n]
             y == [c EXCEPT !.auto = b]
         IN  /\ x \in Conn /\ x.state = c.state /\ x.epoch = c.epoch /\ x.active = c.active
             /\ x.previous = c.previous /\ x.prevAge = c.prevAge /\ x.pendingAge = c.pendingAge
             /\ y \in Conn /\ y.state = c.state /\ y.epoch = c.epoch /\ y.active = c.active
             /\ y.previous = c.previous /\ y.prevAge = c.prevAge /\ y.pendingAge = c.pendingAge
<1>. DEFINE x == [c EXCEPT !.sends = n]
            y == [c EXCEPT !.auto = b]
<1>1. x \in Conn /\ y \in Conn
  BY DEF Conn
<1>2. /\ x.state = c.state /\ x.epoch = c.epoch /\ x.active = c.active
      /\ x.previous = c.previous /\ x.prevAge = c.prevAge /\ x.pendingAge = c.pendingAge
  BY DEF Conn
<1>3. /\ y.state = c.state /\ y.epoch = c.epoch /\ y.active = c.active
      /\ y.previous = c.previous /\ y.prevAge = c.prevAge /\ y.pendingAge = c.pendingAge
  BY DEF Conn
<1>. QED BY <1>1, <1>2, <1>3

LEMMA SendingTime ==
  ASSUME KeyInv, TimeInv, NEW s \in Side,
         RequestRekey(s) \/ BeginSend(s) \/ BeginSendRekeying(s)
         \/ FinishSend(s) \/ FinishSendRekeying(s)
  PROVE  TimeInv'
<1>0. conn[s] \in Conn
  BY KeyFacts
<1>1. CASE RequestRekey(s) \/ BeginSendRekeying(s)
  BY <1>1, StartRekeyTime DEF RequestRekey, BeginSendRekeying
<1>2. CASE BeginSend(s)
  <2>. DEFINE c == [conn[s] EXCEPT !.sends = @ + 1]
  <2>1. conn[s].sends + 1 \in Nat
    BY <1>0, ConnFields
  <2>2. /\ c \in Conn /\ c.state = conn[s].state /\ c.epoch = conn[s].epoch
        /\ c.active = conn[s].active /\ c.previous = conn[s].previous
        /\ c.prevAge = conn[s].prevAge /\ c.pendingAge = conn[s].pendingAge
    BY <1>0, <2>1, SendTimes
  <2>3. Step(s, c, <<>>)
    BY <1>2 DEF BeginSend
  <2>. HIDE DEF c
  <2>. QED BY <2>2, <2>3, QuietTime
<1>. DEFINE f == FrameOf("DATA", conn[s], 0, 0)
            Sends(c) == Step(s, c, IF Open(s) THEN <<f>> ELSE <<>>)
<1>3. ASSUME NEW c \in Conn, Sends(c), c.state = conn[s].state, c.epoch = conn[s].epoch,
             c.active = conn[s].active, c.previous = conn[s].previous,
             c.prevAge = conn[s].prevAge, c.pendingAge = conn[s].pendingAge
      PROVE  TimeInv'
  <2>1. f \in Frame /\ f.type = "DATA" /\ f.key = c.active /\ f.epoch = c.epoch /\ f.age = 0
    BY <1>0, <1>3, DataFrame
  <2>2. CASE Open(s)
    <3>1. Step(s, c, <<f>>)
      BY <1>3, <2>2
    <3>. HIDE DEF f
    <3>. QED BY <1>3, <2>1, <2>2, <3>1, DataTime
  <2>3. CASE ~Open(s)
    BY <1>3, <2>3, QuietTime
  <2>. QED BY <2>2, <2>3
<1>4. CASE FinishSend(s)
  <2>. DEFINE c == [conn[s] EXCEPT !.sends = @ - 1]
  <2>1. conn[s].sends - 1 \in Nat
    BY <1>0, <1>4, ConnFields DEF FinishSend
  <2>2. /\ c \in Conn /\ c.state = conn[s].state /\ c.epoch = conn[s].epoch
        /\ c.active = conn[s].active /\ c.previous = conn[s].previous
        /\ c.prevAge = conn[s].prevAge /\ c.pendingAge = conn[s].pendingAge
    BY <1>0, <2>1, SendTimes
  <2>3. Sends(c)
    BY <1>4 DEF FinishSend
  <2>. HIDE DEF c, Sends
  <2>. QED BY <1>3, <2>2, <2>3
<1>5. CASE FinishSendRekeying(s)
  <2>. DEFINE c == [conn[s] EXCEPT !.auto = FALSE]
  <2>1. /\ c \in Conn /\ c.state = conn[s].state /\ c.epoch = conn[s].epoch
        /\ c.active = conn[s].active /\ c.previous = conn[s].previous
        /\ c.prevAge = conn[s].prevAge /\ c.pendingAge = conn[s].pendingAge
    BY <1>0, SendTimes
  <2>2. Sends(c)
    BY <1>5 DEF FinishSendRekeying
  <2>. HIDE DEF c, Sends
  <2>. QED BY <1>3, <2>1, <2>2
<1>. QED BY <1>1, <1>2, <1>4, <1>5

LEMMA TakeTime ==
  ASSUME KeyInv, TimeInv, NEW s \in Side, NEW c \in Conn, Take(s, c, <<>>), wire[s] # <<>>,
         c.state # "CLOSED" /\ Open(Other(s)) =>
           /\ EndTimeOK(s, c, conn[Other(s)], Tail(wire[s]), wire[Other(s)])
           /\ EndTimeOK(Other(s), conn[Other(s)], c, wire[Other(s)], Tail(wire[s]))
  PROVE  TimeInv'
<1>. DEFINE o == Other(s)
<1>1. /\ wire[s] \in Seq(Frame) /\ wire[o] \in Seq(Frame) /\ wire[o] \o <<>> = wire[o]
      /\ Tail(wire[s]) \in Seq(Frame) /\ AgesOK(Tail(wire[s])) /\ AgesOK(wire[o])
  BY TimeFacts, NoneMore, TailFacts, AgesTail
<1>2. conn' = [conn EXCEPT ![s] = c] /\ wire'[s] = Tail(wire[s]) /\ wire'[o] = wire[o]
  BY <1>1, TakeWires
<1>. QED BY <1>1, <1>2, TwoEnds

LEMMA EndingTime ==
  ASSUME KeyInv, TimeInv, NEW s \in Side, RekeyTimesOut(s) \/ Close(s) \/ ReceiveNothing(s)
  PROVE  TimeInv'
<1>0. conn[s] \in Conn /\ EndOK(conn[s], made)
  BY KeyFacts
<1>1. /\ Closed(conn[s]) \in Conn /\ Closed(conn[s]).state = "CLOSED"
      /\ Terminated(conn[s]) \in Conn /\ Terminated(conn[s]).state = "CLOSED"
  BY <1>0, ClosedFacts
<1>2. CASE RekeyTimesOut(s) \/ Close(s)
  BY <1>1, <1>2, QuietTime DEF RekeyTimesOut, Close
<1>3. CASE ReceiveNothing(s)
  <2>1. wire[s] # <<>>
    BY <1>3 DEF ReceiveNothing
  <2>2. CASE ~Open(s)
    <3>1. Take(s, conn[s], <<>>)
      BY <1>3, <2>2 DEF ReceiveNothing
    <3>. QED BY <1>0, <2>1, <2>2, <3>1, TakeTime DEF Open
  <2>3. CASE Open(s)
    <3>1. Take(s, Terminated(conn[s]), <<>>) \/ Take(s, Closed(conn[s]), <<>>)
      BY <1>3, <2>3 DEF ReceiveNothing
    <3>. QED BY <1>1, <2>1, <3>1, TakeTime
  <2>. QED BY <2>2, <2>3
<1>. QED BY <1>2, <1>3

LEMMA ReceiveDataTime ==
  ASSUME KeyInv, TimeInv, NEW s \in Side, ReceiveData(s)
  PROVE  TimeInv'
<1>. DEFINE o == Other(s)
<1>1. /\ Take(s, conn[s], <<>>) /\ wire[s] # <<>> /\ Open(s)
      /\ Head(wire[s]).type # Response /\ Head(wire[s]).type # Request
  BY DEF ReceiveData, Arrives, Response, Request
<1>2. conn[s] \in Conn
  BY KeyFacts
<1>3. ASSUME Open(o)
      PROVE  /\ EndTimeOK(s, conn[s], conn[o], Tail(wire[s]), wire[o])
             /\ EndTimeOK(o, conn[o], conn[s], wire[o], Tail(wire[s]))
  <2>. QED BY <1>1, <1>3, TimeFacts, TimeTail
<1>. QED BY <1>1, <1>2, <1>3, TakeTime

LEMMA ReceiveRequestTime ==
  ASSUME KeyInv, TimeInv, NEW s \in Side, ReceiveRequest(s)
  PROVE  TimeInv'
<1>. DEFINE o == Other(s)
            h == Head(wire[s])
            a == AbortLocalRekey(conn[s])
            c == Switched(a, made + 1)
            f == FrameOf("REKEY_RESPONSE", conn[s], h.eph, made + 1)
<1>1. /\ conn[s] \in Conn /\ conn[o] \in Conn /\ wire[s] \in Seq(Frame) /\ wire[o] \in Seq(Frame)
      /\ o \in Side /\ AgesOK(wire[s]) /\ AgesOK(wire[o])
      /\ made \in Nat /\ EndType(conn[s])
  BY TimeFacts, KeyFacts
<1>2. /\ wire[s] # <<>> /\ h.type = Request /\ Open(s)
      /\ h.type # Response
  BY DEF ReceiveRequest, Arrives, Request, Response
<1>3. h \in Frame /\ Tail(wire[s]) \in Seq(Frame)
  BY <1>1, <1>2, TailFacts
<1>4. /\ a \in Conn /\ a.epoch = conn[s].epoch /\ a.active = conn[s].active
      /\ RekeyInProgress(conn[s]) <=> conn[s].state = "REKEYING"
  BY <1>1, <1>2, AbortFacts DEF Open
<1>5. CASE IgnoresIncoming(s)
  <2>1. Take(s, conn[s], <<>>) /\ s = Leader /\ conn[s].state = "REKEYING"
    BY <1>4, <1>5 DEF ReceiveRequest, IgnoresIncoming
  <2>2. ASSUME Open(o)
        PROVE  /\ EndTimeOK(s, conn[s], conn[o], Tail(wire[s]), wire[o])
               /\ EndTimeOK(o, conn[o], conn[s], wire[o], Tail(wire[s]))
    BY <1>2, <2>1, <2>2, TimeFacts, TimeTail
  <2>. QED BY <1>1, <1>2, <2>1, <2>2, TakeTime
<1>6. CASE ~IgnoresIncoming(s)
  <2>1. Take(s, c, <<f>>)
    BY <1>6 DEF ReceiveRequest
  <2>2. ~(conn[s].state = "REKEYING" /\ s = Leader)
    BY <1>4, <1>6 DEF IgnoresIncoming
  <2>3. made + 1 \in Nat
    BY <1>1
  <2>. HIDE DEF a
  <2>4. /\ c \in Conn /\ c.epoch = conn[s].epoch + 1 /\ c.state = "ACTIVE"
        /\ c.previous = conn[s].active /\ c.prevAge = 0
    BY <1>4, <2>3, SwitchedFacts
  <2>5. f \in Frame /\ f.type = Response /\ f.epoch = conn[s].epoch /\ f.age = 0
    BY <1>1, <1>3, <2>3, FrameFields DEF FrameOf, Frame, Response, Conn
  <2>. HIDE DEF c, f
  <2>6. /\ wire[o] \o <<f>> \in Seq(Frame) /\ AgesOK(wire[o] \o <<f>>)
        /\ AgesOK(Tail(wire[s]))
    BY <1>1, <1>2, <2>5, OneMore, AgesMore, AgesTail
  <2>7. /\ conn' = [conn EXCEPT ![s] = c]
        /\ wire'[s] = Tail(wire[s]) /\ wire'[o] = wire[o] \o <<f>>
    BY <1>2, <2>1, <2>6, TakeWires
  <2>8. ASSUME Open(o)
        PROVE  /\ EndTimeOK(s, c, conn[o], Tail(wire[s]), wire[o] \o <<f>>)
               /\ EndTimeOK(o, conn[o], c, wire[o] \o <<f>>, Tail(wire[s]))
    <3>1. /\ EndTimeOK(s, conn[s], conn[o], wire[s], wire[o])
          /\ EndTimeOK(o, conn[o], conn[s], wire[o], wire[s])
          /\ ChannelOK(s, conn[s], conn[o], wire[s])
          /\ ChannelOK(o, conn[o], conn[s], wire[o])
      BY <1>2, <2>8, TimeFacts
    <3>. HIDE DEF o
    <3>. QED BY <1>1, <1>2, <2>2, <2>4, <2>5, <3>1, TimeLead
  <2>. QED BY <1>3, <2>4, <2>6, <2>7, <2>8, TwoEnds
<1>. QED BY <1>5, <1>6

LEMMA ReceiveResponseTime ==
  ASSUME KeyInv, TimeInv, NEW s \in Side, ReceiveResponse(s)
  PROVE  TimeInv'
<1>. DEFINE o == Other(s)
            h == Head(wire[s])
            c == Followed(conn[s], h.fresh)
<1>1. /\ conn[s] \in Conn /\ conn[o] \in Conn /\ wire[s] \in Seq(Frame) /\ wire[o] \in Seq(Frame)
      /\ o \in Side /\ AgesOK(wire[s]) /\ EndOK(conn[s], made)
  BY TimeFacts, KeyFacts
<1>2. wire[s] # <<>> /\ h.type = Response /\ Open(s)
  BY DEF ReceiveResponse, Arrives, Response
<1>3. ChannelOK(s, conn[s], conn[o], wire[s])
  BY <1>2, KeyFacts
<1>4. Verifies(conn[s], h)
  BY <1>1, <1>2, <1>3, ResponseVerifies
<1>5. Take(s, c, <<>>)
  BY <1>4 DEF ReceiveResponse, Followed
<1>6. h.fresh \in Nat
  BY <1>1, <1>2, TailFacts, FrameFields
<1>. DEFINE k == h.fresh
<1>. HIDE DEF k
<1>7. c = Followed(conn[s], k) /\ k \in Nat
  BY <1>6 DEF k
<1>. HIDE DEF c
<1>8. c \in Conn /\ c.epoch = conn[s].epoch + 1 /\ c.state = "ACTIVE"
  BY <1>1, <1>7, FollowFacts
<1>9. c.previous = conn[s].active /\ c.prevAge = 0
  BY <1>1, <1>7, FollowFacts
<1>10. ASSUME Open(o)
       PROVE  /\ EndTimeOK(s, c, conn[o], Tail(wire[s]), wire[o])
              /\ EndTimeOK(o, conn[o], c, wire[o], Tail(wire[s]))
  <2>1. /\ EndTimeOK(s, conn[s], conn[o], wire[s], wire[o])
        /\ EndTimeOK(o, conn[o], conn[s], wire[o], wire[s])
        /\ ChannelOK(o, conn[o], conn[s], wire[o])
    BY <1>2, <1>10, TimeFacts
  <2>. HIDE DEF o
  <2>. QED BY <1>1, <1>2, <1>3, <1>8, <1>9, <2>1, TimeFollow
<1>. QED BY <1>2, <1>5, <1>8, <1>10, TakeTime

LEMMA TickTime ==
  ASSUME KeyInv, TimeInv, Tick
  PROVE  TimeInv'
<1>1. ASSUME NEW s \in Side
      PROVE  /\ \A i \in DOMAIN wire[s] : wire[s][i].age < MaxDelay
             /\ AgesOK(wire'[s])
  <2>1. wire[s] \in Seq(Frame) /\ AgesOK(wire[s]) /\ MaxDelay \in Nat
    BY KeyFacts, TransportAssumption DEF TimeInv
  <2>2. ASSUME NEW i \in DOMAIN wire[s] PROVE wire[s][i].age < MaxDelay
    <3>1. /\ wire[s] # <<>> /\ Head(wire[s]).age < MaxDelay
      BY <2>1, <2>2 DEF Tick
    <3>2. /\ Head(wire[s]) = wire[s][1] /\ 1 \in DOMAIN wire[s] /\ (i = 1 \/ 1 < i)
      BY <2>1, <2>2, <3>1, TailFacts, FramesOf
    <3>3. wire[s][i].age <= wire[s][1].age /\ wire[s][i].age \in Nat /\ wire[s][1].age \in Nat
      BY <2>1, <2>2, <3>2, FramesOf, FrameFields DEF AgesOK
    <3>. QED BY <2>1, <3>1, <3>2, <3>3
  <2>3. \A i \in DOMAIN wire[s] : wire[s][i].age \in Nat
    BY <2>1, FramesOf, FrameFields
  <2>. DEFINE w == wire[s]
              x == Later(w)
  <2>4. /\ DOMAIN x = DOMAIN w /\ \A i \in DOMAIN w : x[i].age = w[i].age + 1
        /\ wire'[s] = x
    BY <2>1, LaterFacts, TickStates
  <2>. HIDE DEF x
  <2>5. \A i \in DOMAIN x : x[i].age <= MaxDelay
    BY <2>1, <2>2, <2>3, <2>4
  <2>6. ASSUME NEW i \in DOMAIN x, NEW j \in DOMAIN x, i < j PROVE x[j].age <= x[i].age
    BY <2>1, <2>3, <2>4, <2>6 DEF AgesOK
  <2>. QED BY <2>2, <2>4, <2>5, <2>6 DEF AgesOK
<1>2. ASSUME BothOpen', NEW s \in Side
      PROVE  EndTimeOK(s, conn'[s], conn'[Other(s)], wire'[s], wire'[Other(s)])
  <2>. DEFINE o == Other(s)
  <2>1. o \in Side /\ Open(s) /\ Open(o)
    <3>1. \A t \in Side : Open(t)
      BY <1>2, TickStates DEF BothOpen, Open, Side
    <3>. QED BY <3>1, OtherFacts
  <2>2. /\ conn'[s] = Aged(conn[s]) /\ wire'[s] = Later(wire[s]) /\ wire'[o] = Later(wire[o])
        /\ conn'[o].state = conn[o].state /\ conn'[o].epoch = conn[o].epoch
        /\ conn'[o].active = conn[o].active /\ conn'[o] \in Conn
    BY <2>1, TickStates
  <2>3. /\ conn[s] \in Conn /\ conn[o] \in Conn /\ wire[s] \in Seq(Frame) /\ wire[o] \in Seq(Frame)
        /\ EndTimeOK(s, conn[s], conn[o], wire[s], wire[o])
        /\ ChannelOK(s, conn[s], conn[o], wire[s])
        /\ ChannelOK(o, conn[o], conn[s], wire[o])
    BY <2>1, TimeFacts
  <2>4. /\ \A i \in DOMAIN wire[s] : wire[s][i].age < MaxDelay
        /\ \A i \in DOMAIN wire[o] : wire[o][i].age < MaxDelay
    BY <1>1, <2>1
  <2>. DEFINE d == conn'[o]
  <2>. HIDE DEF o
  <2>5. /\ d.state = conn[o].state /\ d.epoch = conn[o].epoch
        /\ d.active = conn[o].active /\ d \in Conn
    BY <2>2
  <2>. HIDE DEF d
  <2>6. EndTimeOK(s, Aged(conn[s]), d, Later(wire[s]), Later(wire[o]))
    BY <2>1, <2>3, <2>4, <2>5, TimeTick
  <2>. QED BY <2>2, <2>6 DEF d, o
<1>. QED BY <1>1, <1>2 DEF TimeInv

LEMMA TimeInit == Init => TimeInv
<1>. SUFFICES ASSUME Init PROVE TimeInv
  OBVIOUS
<1>1. NewConn.state = "ACTIVE" /\ NewConn.epoch = 0
  BY DEF NewConn
<1>. HIDE DEF NewConn
<1>2. DOMAIN <<>> = {}
  OBVIOUS
<1>3. \A s \in Side : conn[s] = NewConn /\ wire[s] = <<>> /\ Other(s) \in Side
  BY OtherFacts DEF Init
<1>4. \A s \in Side : AgesOK(wire[s])
  BY <1>2, <1>3 DEF AgesOK
<1>5. ~Ahead(NewConn, NewConn) /\ NewConn.state # "REKEYING"
  BY <1>1 DEF Ahead
<1>6. ASSUME NEW s \in Side
      PROVE  EndTimeOK(s, conn[s], conn[Other(s)], wire[s], wire[Other(s)])
  <2>1. /\ conn[s] = NewConn /\ conn[Other(s)] = NewConn
        /\ wire[s] = <<>> /\ wire[Other(s)] = <<>>
    BY <1>3
  <2>2. PreviousOK(NewConn, NewConn, <<>>, <<>>)
    BY <1>2, <1>5 DEF PreviousOK
  <2>3. PendingOK(s, NewConn, NewConn, <<>>, <<>>)
    BY <1>5 DEF PendingOK
  <2>. QED BY <2>1, <2>2, <2>3 DEF EndTimeOK
<1>. QED BY <1>4, <1>6 DEF TimeInv

LEMMA TimeStep == KeyInv /\ TimeInv /\ [Next]_vars => TimeInv'
<1>. SUFFICES ASSUME KeyInv, TimeInv, [Next]_vars PROVE TimeInv'
  OBVIOUS
<1>1. CASE Tick
  BY <1>1, TickTime
<1>2. ASSUME NEW s \in Side,
             RequestRekey(s) \/ BeginSend(s) \/ BeginSendRekeying(s)
             \/ FinishSend(s) \/ FinishSendRekeying(s)
      PROVE  TimeInv'
  BY <1>2, SendingTime
<1>3. ASSUME NEW s \in Side, RekeyTimesOut(s) \/ Close(s) \/ Receive(s)
      PROVE  TimeInv'
  BY <1>3, EndingTime, ReceiveDataTime, ReceiveRequestTime, ReceiveResponseTime DEF Receive
<1>4. CASE UNCHANGED vars
  BY <1>4 DEF vars, TimeInv, BothOpen, Open
<1>. QED BY <1>1, <1>2, <1>3, <1>4 DEF Next

\* As long as both ends are open, the previous key is no older than a frame that needs
\* it and one delay, and a pending rekey no older than the frame that will settle it
\* and one delay (previousKeyTtlMs and rekeyPendingSince of secure_connection.ts).
THEOREM TimeInvariant == Spec => []TimeInv
<1>. QED BY KeysInvariant, TimeInit, TimeStep, PTL DEF Spec

-------------------------------------------------------------------------------
(* What the two invariants are for *)

\* The frame at the head of a wire was not sent after the response on it.
LEMMA HeadEpoch ==
  ASSUME NEW s \in Side, NEW c \in Conn, NEW d \in Conn, NEW w \in Seq(Frame),
         w # <<>>, ChannelOK(s, c, d, w)
  PROVE  Head(w).epoch \in {c.epoch - 1, c.epoch}
<1>. /\ c.epoch \in Nat /\ d.epoch \in Nat
  BY ConnFields
<1>1. Head(w) = w[1] /\ 1 \in DOMAIN w /\ FrameOK(s, c, d, w[1]) /\ EpochsOK(c, d)
  BY TailFacts DEF ChannelOK
<1>2. w[1].epoch \in {c.epoch - 1, c.epoch, d.epoch}
  BY <1>1 DEF FrameOK
<1>3. CASE Behind(c, d)
  <2>1. PICK i \in DOMAIN w : w[i].type = Response
    BY <1>3 DEF ChannelOK
  <2>2. w[i].epoch = c.epoch
    BY <2>1 DEF ChannelOK, FrameOK
  <2>3. i \in Nat /\ (i = 1 \/ 1 < i)
    BY FramesOf
  <2>4. w[1].epoch <= c.epoch
    BY <1>1, <2>2, <2>3 DEF ChannelOK, OrderOK
  <2>. QED BY <1>1, <1>2, <1>3, <2>4 DEF Behind
<1>4. CASE ~Behind(c, d)
  BY <1>1, <1>2, <1>4 DEF EpochsOK, Behind, Ahead
<1>. QED BY <1>3, <1>4

LEMMA HeadsReadable == KeyInv /\ TimeInv => FramesReadable
<1>. SUFFICES ASSUME KeyInv, TimeInv, BothOpen, NEW s \in Side, wire[s] # <<>>
              PROVE  Readable(conn[s], Head(wire[s]))
  BY DEF FramesReadable
<1>. DEFINE c == conn[s]
            d == conn[Other(s)]
            w == wire[s]
            h == Head(w)
<1>1. Open(s) /\ Open(Other(s))
  BY DEF BothOpen, Side, Other
<1>2. /\ c \in Conn /\ d \in Conn /\ w \in Seq(Frame)
      /\ ChannelOK(s, c, d, w) /\ PreviousOK(c, d, w, wire[Other(s)])
  BY <1>1, TimeFacts DEF EndTimeOK
<1>. HIDE DEF c, d, w
<1>3. h.epoch \in {c.epoch - 1, c.epoch}
  BY <1>2, HeadEpoch DEF w
<1>4. h = w[1] /\ 1 \in DOMAIN w /\ FrameOK(s, c, d, h)
  BY <1>2, TailFacts DEF ChannelOK, w
<1>5. h.epoch = c.epoch - 1 => h.key = c.previous
  BY <1>2, <1>4 DEF PreviousOK
<1>6. h.epoch = c.epoch => h.key = c.active
  BY <1>4 DEF FrameOK
<1>7. Readable(c, h)
  BY <1>3, <1>5, <1>6 DEF Readable, Decrypts, InEpochWindow
<1>. QED BY <1>7 DEF c, w

\* While both ends are open, neither receives a frame it cannot read: the previous key
\* of the dual-key window is kept for longer than frames under it are on their way,
\* and DATA is never more than one epoch old (previousKeyTtlMs and the epoch binding
\* of secure_connection.ts).
THEOREM FramesStayReadable == Spec => []FramesReadable
<1>. QED BY KeysInvariant, TimeInvariant, HeadsReadable, PTL

LEMMA PendingIsShort == KeyInv /\ TimeInv => AnsweredInTime
<1>. SUFFICES ASSUME KeyInv, TimeInv, NEW s \in Side, BothOpen, conn[s].state = "REKEYING"
              PROVE  conn[s].pendingAge <= 2 * MaxDelay
  BY DEF AnsweredInTime
<1>. DEFINE c == conn[s]
            d == conn[Other(s)]
            w == wire[s]
            v == wire[Other(s)]
<1>1. Open(s) /\ Open(Other(s))
  BY DEF BothOpen, Side, Other
<1>2. /\ c \in Conn /\ d \in Conn /\ w \in Seq(Frame) /\ v \in Seq(Frame)
      /\ AgesOK(w) /\ AgesOK(v)
      /\ ChannelOK(s, c, d, w) /\ PendingOK(s, c, d, w, v)
  BY <1>1, TimeFacts DEF EndTimeOK
<1>3. c.state = "REKEYING" /\ c.pendingAge \in Nat /\ MaxDelay \in Nat
  BY <1>2, ConnFields, TransportAssumption
<1>. HIDE DEF c, d, w, v
<1>. SUFFICES c.pendingAge <= 2 * MaxDelay
  BY DEF c
<1>4. /\ \A i \in DOMAIN w : w[i].age \in Nat /\ w[i].age <= MaxDelay
      /\ \A i \in DOMAIN v : v[i].age \in Nat /\ v[i].age <= MaxDelay
  BY <1>2, FramesOf, FrameFields DEF AgesOK
<1>5. ASSUME NEW i \in DOMAIN w, c.pendingAge <= w[i].age + MaxDelay
      PROVE  c.pendingAge <= 2 * MaxDelay
  BY <1>3, <1>4, <1>5
<1>6. CASE Behind(c, d)
  <2>1. PICK i \in DOMAIN w : w[i].type = Response
    BY <1>2, <1>6 DEF ChannelOK
  <2>2. c.pendingAge <= w[i].age + MaxDelay
    BY <1>2, <1>3, <2>1 DEF PendingOK
  <2>. QED BY <1>5, <2>2
<1>7. CASE \E i \in DOMAIN v : v[i].type = Request /\ v[i].epoch = c.epoch
  <2>1. PICK i \in DOMAIN v : v[i].type = Request /\ v[i].epoch = c.epoch
    BY <1>7
  <2>2. c.pendingAge <= v[i].age
    BY <1>2, <1>3, <2>1 DEF PendingOK
  <2>. QED BY <1>3, <1>4, <2>2
<1>8. CASE \E i \in DOMAIN w : c.pendingAge <= w[i].age + MaxDelay
  BY <1>5, <1>8
<1>. QED BY <1>2, <1>3, <1>6, <1>7, <1>8 DEF PendingOK

\* A request is settled after one way there and one back, a request that crosses
\* another one too, so that rekeyPendingTimeoutMs only ends a session whose peer has
\* gone (waitRekeySettled and enforceLifecycle of secure_connection.ts).
THEOREM RekeyAnsweredInTime == Spec => []AnsweredInTime
<1>. QED BY KeysInvariant, TimeInvariant, PendingIsShort, PTL
===============================================================================

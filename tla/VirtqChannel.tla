---------------------------- MODULE VirtqChannel ----------------------------
(***************************************************************************)
(* What a virtqueue promises to the driver and to the device, without      *)
(* rings, indices or chains: buffers offered by the driver reach the       *)
(* device in the order of the offers and with the contents of the offer,   *)
(* completed ones reach the driver in the order of the completions, and a  *)
(* descriptor is in one hand at a time.  VirtQueue implements this module. *)
(***************************************************************************)
EXTENDS Sequences

CONSTANTS Ids, Bufs

VARIABLES
  place,    \* who holds each descriptor
  content,  \* the buffer a descriptor describes while it is not the driver's
  availQ,   \* descriptors offered and not yet fetched, oldest first
  usedQ     \* descriptors completed and not yet reaped, oldest first

cvars == <<place, content, availQ, usedQ>>

CInit ==
  /\ place = [d \in Ids |-> "free"]
  /\ content = [d \in Ids |-> {}]
  /\ availQ = << >>
  /\ usedQ = << >>

Take(d) ==
  /\ place[d] = "free"
  /\ place' = [place EXCEPT ![d] = "driver"]
  /\ UNCHANGED <<content, availQ, usedQ>>

Offer(d, b) ==
  /\ place[d] = "driver"
  /\ place' = [place EXCEPT ![d] = "avail"]
  /\ content' = [content EXCEPT ![d] = {b}]
  /\ availQ' = Append(availQ, d)
  /\ UNCHANGED usedQ

Fetch ==
  /\ availQ # << >>
  /\ place' = [place EXCEPT ![Head(availQ)] = "device"]
  /\ availQ' = Tail(availQ)
  /\ UNCHANGED <<content, usedQ>>

Complete(d) ==
  /\ place[d] = "device"
  /\ place' = [place EXCEPT ![d] = "used"]
  /\ usedQ' = Append(usedQ, d)
  /\ UNCHANGED <<content, availQ>>

Reap ==
  /\ usedQ # << >>
  /\ place' = [place EXCEPT ![Head(usedQ)] = "driver"]
  /\ content' = [content EXCEPT ![Head(usedQ)] = {}]
  /\ usedQ' = Tail(usedQ)
  /\ UNCHANGED availQ

Return(d) ==
  /\ place[d] = "driver"
  /\ place' = [place EXCEPT ![d] = "free"]
  /\ UNCHANGED <<content, availQ, usedQ>>

CNext ==
  \/ \E d \in Ids : Take(d) \/ Complete(d) \/ Return(d)
  \/ \E d \in Ids, b \in Bufs : Offer(d, b)
  \/ Fetch
  \/ Reap

CSpec == CInit /\ [][CNext]_cvars
=============================================================================

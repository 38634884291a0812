----------------------------- MODULE SecureNic -----------------------------
(***************************************************************************)
(* Two secure NICs, each a SecureWorker of PETSRDMA/worker/nic_driver.hpp, *)
(* between their hosts.  A host posts secure reads, writes and sends to    *)
(* its NIC over the DMA link; the NIC authenticates them and sends them to *)
(* the other NIC, which verifies them, carries them out in its own host's  *)
(* memory by RDMA over its DMA link, and sends the answers back.  A worker *)
(* is one thread that polls four completion queues in turn; an action is   *)
(* the handler of one completion.  What a poll does not find yet has not   *)
(* arrived, so the order of the polls is left free.                        *)
(*                                                                         *)
(* The connection is in place (RTS on both NICs), so every packet finds    *)
(* its seccon.  The two hosts named the same crypto, or none, which is the *)
(* default.  A MAC is its nonce: it verifies when the two ends have        *)
(* counted alike.  used_buffers and pending_req only feed a log line and   *)
(* are left out.  The link of the NICs is reliable; a packet waits until   *)
(* its receiver has a buffer posted.                                       *)
(***************************************************************************)
EXTENDS Naturals, Sequences, FiniteSets

CONSTANTS
  Offers,      \* NIC -> the requests its host may post
  MaxPosts,    \* NIC -> how many its host posts
  Buffers,     \* receive buffers of niccon
  DmaBuffers,  \* receive buffers of dmacon
  SendDepth,   \* NIC -> send queue of niccon
  DmaDepth,    \* send queue of dmacon
  ReadLimit,   \* 10 in PollRequest
  RingSize,    \* bytes of circular_buf
  EthHeader,   \* bytes of the header of a request
  Header       \* bytes of the header of an answer

Nics == {1, 2}

Other(n) == 3 - n

Kinds == {"READ", "WRITE", "SEND"}

ASSUME SecureAssumption ==
  /\ Offers \in [Nics -> SUBSET [kind : Kinds, signaled : BOOLEAN]]
  /\ MaxPosts \in [Nics -> Nat]
  /\ {Buffers, DmaBuffers, DmaDepth, ReadLimit, Header} \subseteq Nat \ {0}
  /\ EthHeader \in Nat /\ Header <= EthHeader
  /\ SendDepth \in [Nics -> Nat \ {0}]
  /\ RingSize \in Nat /\ \A n \in Nics : (SendDepth[n] + 1) * EthHeader <= RingSize + 1

VARIABLES
  posted,           \* requests the host has posted
  host,             \* requests under way from the host to the NIC
  sendnonce,        \* secctx->sendnonce
  recvnonce,        \* secctx->recvnonce
  secured,          \* secctx->type is not NOSECURITY; the same on both NICs
  sq,               \* send queue of niccon: wr_id's flag and the header's bytes
  wire,             \* packets sent to the other NIC, not polled there
  free,             \* receive buffers niccon has posted
  dmaFree,          \* receive buffers dmacon has posted
  dma,              \* send queue of dmacon
  dmaErr,           \* the DMA link is in error, and stays so
  pending_dma_req,
  read_queue,
  write_queue,
  ring,             \* circular_buf.current
  spinning,         \* the thread is in a loop that repeats a post while ENOMEM
  executed,         \* requests of the other host carried out in this host (history)
  told,             \* what the host was told of its requests (history)
  refused,          \* posts to niccon that failed (history)
  dropped           \* posts to dmacon whose failure is ignored (history)

secctx == <<sendnonce, recvnonce, secured>>
queues == <<read_queue, write_queue>>
histories == <<executed, told, refused, dropped>>
vars == <<posted, host, secctx, sq, wire, free, dmaFree, dma, dmaErr, pending_dma_req,
          queues, ring, spinning, histories>>

Ids == {<<n, i>> : n \in Nics, i \in 1 .. (MaxPosts[1] + MaxPosts[2])}

Request == [kind : Kinds, signaled : BOOLEAN, id : Ids]

\* mac: macsize is not 0; gap: the posts to niccon that had failed (history).
Packet == [kind : Kinds, signaled : BOOLEAN, id : Ids, eth : BOOLEAN, mac : BOOLEAN,
           nonce : Nat, gap : Nat]

\* A work request of dmacon; by is the packet an answer came in.
Work == [op : {"send", "read", "write", "answer", "ack", "notice"},
         req : Request, by : Ids, status : {"pending", "ok", "error"}]

SecureTypeOK ==
  /\ posted \in [Nics -> Nat] /\ host \in [Nics -> Seq(Request)]
  /\ sendnonce \in [Nics -> Nat] /\ recvnonce \in [Nics -> Nat]
  /\ secured \in BOOLEAN
  /\ sq \in [Nics -> Seq([tag : {"none", "virt", "dma"}, from : Nat, size : Nat])]
  /\ wire \in [Nics -> Seq(Packet)]
  /\ free \in [Nics -> Nat] /\ dmaFree \in [Nics -> Nat]
  /\ dma \in [Nics -> Seq(Work)] /\ dmaErr \in [Nics -> BOOLEAN]
  /\ pending_dma_req \in [Nics -> 0 .. ReadLimit]
  /\ read_queue \in [Nics -> Seq(Request)] /\ write_queue \in [Nics -> Seq(Request)]
  /\ ring \in [Nics -> 0 .. RingSize] /\ spinning \in [Nics -> BOOLEAN]
  /\ executed \in [Nics -> SUBSET Ids]
  /\ told \in [Nics -> SUBSET [id : Ids, by : Ids, outcome : {"done", "failed"}]]
  /\ refused \in [Nics -> Nat] /\ dropped \in [Nics -> Nat]

Each(x) == [n \in Nics |-> x]

Init ==
  /\ posted = Each(0) /\ host = Each(<<>>)
  /\ sendnonce = Each(0) /\ recvnonce = Each(0) /\ secured \in BOOLEAN
  /\ sq = Each(<<>>) /\ wire = Each(<<>>)
  /\ free = Each(Buffers) /\ dmaFree = Each(DmaBuffers)
  /\ dma = Each(<<>>) /\ dmaErr = Each(FALSE) /\ pending_dma_req = Each(0)
  /\ read_queue = Each(<<>>) /\ write_queue = Each(<<>>)
  /\ ring = Each(0) /\ spinning = Each(FALSE)
  /\ executed = Each({}) /\ told = Each({}) /\ refused = Each(0) /\ dropped = Each(0)

Put(f, n, x) == [f EXCEPT ![n] = Append(@, x)]

Drop(f, n) == [f EXCEPT ![n] = Tail(@)]

Add(f, n, k) == [f EXCEPT ![n] = @ + k]

Sub(f, n, k) == [f EXCEPT ![n] = @ - k]

-----------------------------------------------------------------------------
(***************************************************************************)
(* Posting.                                                                *)
(***************************************************************************)
\* circular_buf_t.get: where the next header of size bytes goes.
GetAnywhere(n, size) == ring[n]

Get(n, size) == IF size + ring[n] > RingSize THEN 0 ELSE ring[n]

HasRoom(n) == Len(sq[n]) < SendDepth[n]

\* The packet of request r; its MAC, if it has one, is made with the nonce onsend
\* moves on to.
Sealed(n, r, eth) ==
  [kind |-> r.kind, signaled |-> r.signaled, id |-> r.id, eth |-> eth, mac |-> secured,
   nonce |-> sendnonce[n] + 2, gap |-> refused[n]]

\* onsend and ibv_post_send on niccon.  A header of size 0 stands in the buffer
\* of the request, others in circular_buf.
Send(n, r, eth, tag, size) ==
  /\ sendnonce' = Add(sendnonce, n, 2)
  /\ ring' = IF size = 0 THEN ring ELSE [ring EXCEPT ![n] = Get(n, size) + size]
  /\ IF HasRoom(n)
     THEN /\ sq' = Put(sq, n, [tag |-> tag, from |-> Get(n, size), size |-> size])
          /\ wire' = Put(wire, n, Sealed(n, r, eth))
          /\ UNCHANGED refused
     ELSE refused' = Add(refused, n, 1) /\ UNCHANGED <<sq, wire>>
  /\ UNCHANGED <<recvnonce, secured>>

DmaFull(n) == Len(dma[n]) = DmaDepth

NewWork(op, r, by) == [op |-> op, req |-> r, by |-> by, status |-> "pending"]

\* A post on dmacon in a loop that ends when the error is not ENOMEM.
DmaPost(n, w) ==
  /\ dma' = IF DmaFull(n) THEN dma ELSE Put(dma, n, w)
  /\ spinning' = [spinning EXCEPT ![n] = DmaFull(n)]
  /\ UNCHANGED dropped

\* A post on dmacon whose result nobody looks at.
DmaTryPost(n, w) ==
  /\ dma' = IF DmaFull(n) THEN dma ELSE Put(dma, n, w)
  /\ dropped' = IF DmaFull(n) THEN Add(dropped, n, 1) ELSE dropped
  /\ UNCHANGED spinning

-----------------------------------------------------------------------------
(***************************************************************************)
(* The host, and the request it posted: PollDMAControlRequest and          *)
(* ProcessSendRequest.                                                     *)
(***************************************************************************)
\* What a host posts over a failed link arrives nowhere and is left out.
HostPost(n) ==
  /\ posted[n] < MaxPosts[n] /\ ~dmaErr[n]
  /\ posted' = Add(posted, n, 1)
  /\ \E q \in Offers[n] :
       host' = Put(host, n, [kind |-> q.kind, signaled |-> q.signaled, id |-> <<n, posted'[n]>>])
  /\ UNCHANGED <<secctx, sq, wire, free, dmaFree, dma, dmaErr, pending_dma_req, queues, ring,
                 spinning, histories>>

\* SecureRead, SecureWrite and SecureSend queue what an answer is awaited for.
RemembersWrite(r) == r.kind = "WRITE" /\ r.signaled

ProcessSendRequest(n) ==
  LET r == Head(host[n])
  IN /\ ~spinning[n] /\ host[n] # <<>> /\ dmaFree[n] > 0
     /\ host' = Drop(host, n)
     /\ Send(n, r, r.kind # "SEND", IF r.kind = "READ" THEN "none" ELSE "dma",
             IF r.kind = "READ" THEN EthHeader ELSE 0)
     /\ IF HasRoom(n)
        THEN /\ read_queue' = IF r.kind = "READ" THEN Put(read_queue, n, r) ELSE read_queue
             /\ write_queue' = IF RemembersWrite(r) THEN Put(write_queue, n, r) ELSE write_queue
             /\ dmaFree' = IF r.kind = "READ" THEN dmaFree ELSE Sub(dmaFree, n, 1)
             /\ UNCHANGED <<dma, spinning, dropped>>
        ELSE DmaPost(n, NewWork("notice", r, r.id)) /\ UNCHANGED <<queues, dmaFree>>
     /\ UNCHANGED <<posted, free, dmaErr, pending_dma_req, executed, told>>

\* A receive that the failed link flushed is polled after those that arrived
\* before.  PollDMAControlRequest returns on its status: its buffer is lost.
DmaRecvFlushed(n) ==
  /\ ~spinning[n] /\ dmaErr[n] /\ host[n] = <<>> /\ dmaFree[n] > 0
  /\ dmaFree' = Sub(dmaFree, n, 1)
  /\ UNCHANGED <<posted, host, secctx, sq, wire, free, dma, dmaErr, pending_dma_req, queues,
                 ring, spinning, histories>>

PollDMAControlRequest(n) == ProcessSendRequest(n) \/ DmaRecvFlushed(n)

-----------------------------------------------------------------------------
(***************************************************************************)
(* A packet of the other NIC: PollRequest and ProcessRecvRequest.          *)
(***************************************************************************)
VerifyThenCount(n, p) ==
  IF p.nonce = recvnonce[n] + 2 THEN recvnonce' = Add(recvnonce, n, 2) ELSE UNCHANGED recvnonce

OnReceive(n, p) == recvnonce' = Add(recvnonce, n, 2)

Arriving(n) == Head(wire[Other(n)])

PolledAnyway(n, p) ==
  /\ ~spinning[n] /\ wire[Other(n)] # <<>> /\ free[n] > 0
  /\ wire' = Drop(wire, Other(n)) /\ OnReceive(n, p)
  /\ UNCHANGED <<posted, host, sendnonce, secured, sq, dmaFree, dmaErr, ring, executed, told, refused>>

\* A packet is polled, and its nonce counted whether it verifies or not.
Polled(n, p) ==
  /\ ~spinning[n] /\ wire[Other(n)] # <<>>
  /\ free[n] > 0 /\ pending_dma_req[n] < ReadLimit
  /\ wire' = Drop(wire, Other(n)) /\ OnReceive(n, p)
  /\ UNCHANGED <<posted, host, sendnonce, secured, sq, dmaFree, dmaErr, ring, executed, told, refused>>

NotChecked(n, p) == TRUE

\* onreceive takes every packet when there is no security.
Verified(n, p) == secured => p.nonce = recvnonce[n] + 2

Plain(p) == [kind |-> p.kind, signaled |-> p.signaled, id |-> p.id]

RejectPacket(n) ==
  LET p == Arriving(n)
  IN /\ Polled(n, p) /\ ~Verified(n, p)
     /\ UNCHANGED <<free, dma, pending_dma_req, queues, spinning, dropped>>

\* A request is carried out by RDMA: a send to the host, a read or a write.
ReceiveRequest(n) ==
  LET p == Arriving(n)
  IN /\ Polled(n, p) /\ Verified(n, p) /\ (p.eth \/ p.kind = "SEND")
     /\ free' = Sub(free, n, 1)
     /\ pending_dma_req' = IF p.kind = "READ" THEN Add(pending_dma_req, n, 1) ELSE pending_dma_req
     /\ DmaPost(n, NewWork(CASE p.kind = "SEND" -> "send" [] p.kind = "READ" -> "read"
                             [] OTHER -> "write", Plain(p), p.id))
     /\ UNCHANGED queues

\* The answer to a read is written to the host, that to a write is reported.
ReceiveReadAnswer(n) ==
  LET p == Arriving(n)
  IN /\ Polled(n, p) /\ Verified(n, p) /\ ~p.eth /\ p.kind = "READ"
     /\ read_queue' = Drop(read_queue, n)
     /\ free' = Sub(free, n, 1)
     /\ DmaTryPost(n, NewWork("answer", Head(read_queue[n]), p.id))
     /\ UNCHANGED <<pending_dma_req, write_queue>>

ReceiveWriteAnswer(n) ==
  LET p == Arriving(n)
  IN /\ Polled(n, p) /\ Verified(n, p) /\ ~p.eth /\ p.kind = "WRITE"
     /\ write_queue' = Drop(write_queue, n)
     /\ DmaTryPost(n, NewWork("ack", Head(write_queue[n]), p.id))
     /\ UNCHANGED <<free, pending_dma_req, read_queue>>

PollRequest(n) ==
  RejectPacket(n) \/ ReceiveRequest(n) \/ ReceiveReadAnswer(n) \/ ReceiveWriteAnswer(n)

-----------------------------------------------------------------------------
(***************************************************************************)
(* The DMA link carries out its work in order.  An access the host does    *)
(* not allow fails, and with it the link: everything behind it is flushed, *)
(* and of what the host has sent only that is left which has arrived in a  *)
(* receive buffer.                                                         *)
(***************************************************************************)
Pending(n) == {i \in 1 .. Len(dma[n]) : dma[n][i].status = "pending"}

Reported(w) == w.op \in {"ack", "notice"} \/ (w.op = "answer" /\ w.req.signaled)

CutOff(n) ==
  \E k \in 0 .. Len(host[n]) : k <= dmaFree[n] /\ host' = [host EXCEPT ![n] = SubSeq(@, 1, k)]

DmaExecute(n) ==
  \E i \in Pending(n), ok \in BOOLEAN :
    LET w == dma[n][i]
    IN /\ \A j \in Pending(n) : i <= j
       /\ ok => ~dmaErr[n]
       /\ ~ok => dmaErr[n] \/ w.op \in {"read", "write", "answer"}
       /\ dma' = [dma EXCEPT ![n][i].status = IF ok THEN "ok" ELSE "error"]
       /\ dmaErr' = [dmaErr EXCEPT ![n] = ~ok]
       /\ executed' = IF ok /\ w.op \in {"send", "read", "write"}
                      THEN [executed EXCEPT ![n] = @ \cup {w.req.id}] ELSE executed
       /\ told' = IF ok /\ Reported(w)
                  THEN [told EXCEPT ![n] = @ \cup
                         {[id |-> w.req.id, by |-> w.by,
                           outcome |-> IF w.op = "notice" THEN "failed" ELSE "done"]}]
                  ELSE told
       /\ IF ok \/ dmaErr[n] THEN UNCHANGED host ELSE CutOff(n)
       /\ UNCHANGED <<posted, secctx, sq, wire, free, dmaFree, pending_dma_req, queues,
                      ring, spinning, refused, dropped>>

(***************************************************************************)
(* Its completions: PollDMASendCompletion and ProcessDMACompletion.  A     *)
(* notice is unsignaled and leaves the queue with the next completion.     *)
(***************************************************************************)
Signaled(n) == {i \in 1 .. Len(dma[n]) : dma[n][i].op # "notice"}

\* w is the next completion of dmacon.
Completed(n, w) ==
  /\ ~spinning[n]
  /\ \E i \in Signaled(n) :
       /\ w = dma[n][i] /\ w.status # "pending" /\ \A j \in Signaled(n) : i <= j
       /\ dma' = [dma EXCEPT ![n] = SubSeq(@, i + 1, Len(@))]
  /\ UNCHANGED <<posted, host, recvnonce, secured, dmaFree, dmaErr, queues, spinning, executed,
                 told, dropped>>

Works(n) == {dma[n][i] : i \in 1 .. Len(dma[n])}

NothingSent == UNCHANGED <<sendnonce, sq, wire, ring, refused>>

\* Nothing to answer: the buffer goes back to niccon, also after an error.
DmaDone(n) ==
  \E w \in Works(n) :
    /\ Completed(n, w) /\ (w.status = "error" \/ w.op \in {"send", "answer", "ack"})
    /\ free' = IF w.op = "ack" THEN free ELSE Add(free, n, 1)
    /\ NothingSent /\ UNCHANGED pending_dma_req

DmaReadDoneUncounted(n) ==
  \E w \in Works(n) :
    /\ Completed(n, w) /\ w.status = "ok" /\ w.op = "read"
    /\ Send(n, w.req, FALSE, "virt", 0)
    /\ UNCHANGED <<free, pending_dma_req>>

\* SecureReadReply keeps the buffer until the answer is sent.
DmaReadDone(n) ==
  \E w \in Works(n) :
    /\ Completed(n, w) /\ w.status = "ok" /\ w.op = "read"
    /\ pending_dma_req' = Sub(pending_dma_req, n, 1)
    /\ Send(n, w.req, FALSE, "virt", 0)
    /\ UNCHANGED free

\* SecureWriteReply, if the write asked for an answer.
DmaWriteDone(n) ==
  \E w \in Works(n) :
    /\ Completed(n, w) /\ w.status = "ok" /\ w.op = "write"
    /\ IF w.req.signaled THEN Send(n, w.req, FALSE, "none", Header) ELSE NothingSent
    /\ free' = Add(free, n, 1)
    /\ UNCHANGED pending_dma_req

PollDMASendCompletion(n) == DmaDone(n) \/ DmaReadDone(n) \/ DmaWriteDone(n)

(***************************************************************************)
(* Completions of niccon: PollClientSendCompletion.  The send at the head  *)
(* of the queue is complete when the other NIC had a buffer for it.        *)
(***************************************************************************)
Unacked(n) == IF Len(wire[n]) > free[Other(n)] THEN Len(wire[n]) - free[Other(n)] ELSE 0

ClientCompletionKeepsBuffer(n) ==
  /\ ~spinning[n] /\ Len(sq[n]) > Unacked(n)
  /\ sq' = Drop(sq, n)
  /\ UNCHANGED free
  /\ dmaFree' = IF Head(sq[n]).tag = "dma" THEN Add(dmaFree, n, 1) ELSE dmaFree
  /\ UNCHANGED <<posted, host, secctx, wire, dma, dmaErr, pending_dma_req, queues, ring,
                 spinning, histories>>

PollClientSendCompletion(n) ==
  /\ ~spinning[n] /\ Len(sq[n]) > Unacked(n)
  /\ sq' = Drop(sq, n)
  /\ free' = IF Head(sq[n]).tag = "virt" THEN Add(free, n, 1) ELSE free
  /\ dmaFree' = IF Head(sq[n]).tag = "dma" THEN Add(dmaFree, n, 1) ELSE dmaFree
  /\ UNCHANGED <<posted, host, secctx, wire, dma, dmaErr, pending_dma_req, queues, ring,
                 spinning, histories>>

-----------------------------------------------------------------------------
Nic(n) ==
  \/ HostPost(n) \/ ProcessSendRequest(n) \/ DmaRecvFlushed(n)
  \/ RejectPacket(n) \/ ReceiveRequest(n) \/ ReceiveReadAnswer(n) \/ ReceiveWriteAnswer(n)
  \/ DmaExecute(n) \/ DmaDone(n) \/ DmaReadDone(n) \/ DmaWriteDone(n)
  \/ PollClientSendCompletion(n)

Next == \E n \in Nics : Nic(n)

Spec == Init /\ [][Next]_vars

\* A turn of main_cb polls the four completion queues; an action is one that
\* finds something.
main_cb(n) ==
  PollRequest(n) \/ PollDMASendCompletion(n) \/ PollClientSendCompletion(n)
    \/ PollDMAControlRequest(n)

\* The thread repeats main_cb for ever, and the DMA link works.
Fairness == \A n \in Nics : WF_vars(main_cb(n)) /\ WF_vars(DmaExecute(n))

FairSpec == Spec /\ Fairness

-----------------------------------------------------------------------------
(***************************************************************************)
(* The ends count nonces alike: the packets under way are numbered one     *)
(* after another, except those sent after a post that failed.  Such a post *)
(* moves sendnonce and sends nothing, and where MACs are checked no later  *)
(* packet ever verifies.                                                   *)
(***************************************************************************)
NoncesAgree ==
  \A n \in Nics :
    /\ sendnonce[n] = recvnonce[Other(n)] + 2 * (Len(wire[n]) + refused[n])
    /\ \A i \in 1 .. Len(wire[n]) :
         wire[n][i].nonce = recvnonce[Other(n)] + 2 * (i + wire[n][i].gap)

(***************************************************************************)
(* Answers are matched to requests by order alone, and yet a host is told  *)
(* that a request is done only by an answer of the other NIC, sent after   *)
(* that read or wrote its host's memory, and by the request's own answer   *)
(* where MACs are checked: an answer that could not be posted does not     *)
(* shift the later ones, as none of them verifies.  Without security it    *)
(* does, and the answer is its own only while no post of the other NIC     *)
(* has failed: nobody looks at the result of these posts.                  *)
(***************************************************************************)
AnswersMatch ==
  \A n \in Nics : \A t \in told[n] :
    /\ t.outcome = "done" => t.by \in executed[Other(n)]
    /\ secured \/ refused[Other(n)] = 0 => t.id = t.by

Owners(n) ==
  free[n] + Cardinality({i \in 1 .. Len(dma[n]) : dma[n][i].op \in {"send", "read", "write", "answer"}})
          + Cardinality({i \in 1 .. Len(sq[n]) : sq[n][i].tag = "virt"})

DmaOwners(n) == dmaFree[n] + Cardinality({i \in 1 .. Len(sq[n]) : sq[n][i].tag = "dma"})

(***************************************************************************)
(* A receive buffer is posted, in a DMA operation or in an answer under    *)
(* way, and in one of them only; it is lost only with the answer to a read *)
(* that could not be posted.  A buffer of the DMA link is posted there or  *)
(* in a send under way; it is lost only once that link has failed.         *)
(***************************************************************************)
BuffersConserved ==
  \A n \in Nics : ~spinning[n] =>
    /\ Owners(n) <= Buffers
    /\ Buffers <= Owners(n) + refused[n] + dropped[n]
    /\ DmaOwners(n) <= DmaBuffers
    /\ ~dmaErr[n] => DmaOwners(n) = DmaBuffers

\* The bytes of a header in circular_buf.
Bytes(h) == h.from .. (h.from + h.size - 1)

(***************************************************************************)
(* A header written to circular_buf lies inside it, and does not overwrite *)
(* one that the send queue still reads, while no post has failed: get()    *)
(* itself does not know what is in use.                                    *)
(***************************************************************************)
HeadersIntact ==
  \A n \in Nics : refused[n] = 0 =>
    \A i \in 1 .. Len(sq[n]) :
      /\ sq[n][i].from + sq[n][i].size <= RingSize
      /\ \A j \in 1 .. (i - 1) : sq[n][i].size * sq[n][j].size > 0
                                   => Bytes(sq[n][i]) \cap Bytes(sq[n][j]) = {}

\* Something after which answers may be missing for good.
Mishap == \E n \in Nics : refused[n] > 0 \/ dropped[n] > 0 \/ dmaErr[n] \/ spinning[n]

(***************************************************************************)
(* Every read or write that asked for a completion is completed, unless a  *)
(* post failed, the DMA link failed, or a worker is caught in a loop that  *)
(* repeats a post to a full queue which only the worker could empty.       *)
(***************************************************************************)
RequestsSettle ==
  \A n \in Nics : \A i \in 1 .. MaxPosts[n] :
    ((\E k \in 1 .. Len(host[n]) : host[n][k].id = <<n, i>> /\ host[n][k].signaled)
       ~> ((\E t \in told[n] : t.id = <<n, i>>) \/ Mishap))
=============================================================================

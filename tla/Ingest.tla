-------------------------------- MODULE Ingest --------------------------------
(***************************************************************************)
(* The way of a webhook into the topic: the route of webhooks/ingest.py,   *)
(* the Kafka producer it hands the body to, and the lifespan of            *)
(* transport.py that starts and stops the producer in every server         *)
(* process.                                                                *)
(*                                                                         *)
(* The route is one step up to `await _producer.send()`, which may wait    *)
(* (for metadata, or for room in the buffer) and returns as soon as the    *)
(* record is buffered; it is a step of its own.  The buffered records are  *)
(* delivered later, by the producer's own task, and nobody looks at the    *)
(* future that would tell of a failure.                                    *)
(*                                                                         *)
(* OpenProject, the producer library, the broker and uvicorn are not part  *)
(* of the repository and are modelled as far as the code relies on them:   *)
(* OpenProject, or the gateway in between (istio/virtual-service.yaml),    *)
(* posts again what was not answered with 2xx, or not in time, while the   *)
(* route may still be at it; the idempotent producer delivers a            *)
(* partition's records in order and once, or drops them when the broker is *)
(* away for too long; uvicorn lets requests finish before the lifespan     *)
(* ends.                                                                   *)
(***************************************************************************)
EXTENDS Payload, Integers

CONSTANTS
  Server,        \* server processes
  Webhook,       \* the webhooks OpenProject has to deliver
  Body,          \* the bodies they may have
  Partition,     \* partitions of the topic
  PartitionOf,   \* where the producer's hash sends a key
  MaxAttempts,   \* bound: posts of one webhook
  MaxDeaths,     \* bound: processes killed or told to end
  MaxOutages,    \* bound: times the broker goes away
  MaxGiveUps     \* bound: answers that are not waited for or do not arrive

Nobody == "nobody"

ASSUME BoundAssumption ==
  /\ MaxAttempts \in Nat \ {0}
  /\ MaxDeaths \in Nat /\ MaxOutages \in Nat /\ MaxGiveUps \in Nat
ASSUME ServerAssumption == Nobody \notin Server
ASSUME BodyAssumption == \A b \in Body : b.signature \in Signatures /\ b.kind \in Kinds
ASSUME PartitionAssumption ==
  \A b \in Body : KeyOf(b) # Empty => PartitionOf[KeyOf(b)] \in Partition

VARIABLES
  process,    \* server: where it is in its life
  producer,   \* server: the module's _producer is set
  buffer,     \* server: records its producer has yet to deliver, per partition
  sender,     \* request: the server waiting in send() for it, if any
  body,       \* webhook: its body, from the first post on
  answer,     \* webhook: what OpenProject knows of the last post
  log,        \* broker: the records of each partition
  brokerUp,   \* broker: it can be reached
  attempts,   \* webhook: posts so far
  refused,    \* history: requests answered with an error
  dropped,    \* history: records lost from a buffer
  deaths, outages, giveUps   \* how much of the bounds is used

servers == << process, producer, buffer >>
client  == << body, answer, attempts, refused >>
broker  == << log, brokerUp >>
bounds  == << deaths, outages, giveUps >>
vars    == << servers, sender, client, broker, dropped, bounds >>

NoBody == [kind |-> "none"]

Stages == {"down", "serving", "draining", "flushing"}

\* What OpenProject knows: nothing yet, waiting, no answer came, or a status code.
Codes == {202, 400, 401, 500, 503}
None == 0
Waiting == 1
NoAnswer == 2

\* A post of a webhook, and the record it leaves: the webhook and which post of it.
Request == Webhook \X (1..MaxAttempts)
LastOf(w) == <<w, attempts[w]>>
BodyOf(q) == body[q[1]]

EmptyBuffer == [p \in Partition |-> << >>]

InFlight(s) == {q \in Request : sender[q] = s}
Flushed(s) == \A p \in Partition : buffer[s][p] = << >>
InBuffer(s) == UNION {ToSet(buffer[s][p]) : p \in Partition}

Init ==
  /\ process = [s \in Server |-> "down"]
  /\ producer = [s \in Server |-> FALSE]
  /\ buffer = [s \in Server |-> EmptyBuffer]
  /\ sender = [q \in Request |-> Nobody]
  /\ body = [w \in Webhook |-> NoBody]
  /\ answer = [w \in Webhook |-> None]
  /\ log = [p \in Partition |-> << >>]
  /\ brokerUp = TRUE
  /\ attempts = [w \in Webhook |-> 0]
  /\ refused = {}
  /\ dropped = {}
  /\ deaths = 0 /\ outages = 0 /\ giveUps = 0

-----------------------------------------------------------------------------
(* The route. *)

\* OpenProject posts what it has not posted yet, or not got through.
MayPost(w) == attempts[w] < MaxAttempts /\ answer[w] \notin {Waiting, 202}

\* Mutant of Refusal: signatures are not verified.
RefusalUnverified(s, b) ==
  {code \in Codes :
     \/ code = 400 /\ b.kind = "garbage"
     \/ code = 500 /\ b.kind = "binary"
     \/ code = 503 /\ Parses(b) /\ ~producer[s]
     \/ code = 500 /\ Parses(b) /\ producer[s] /\ KeyRaises(b)}

\* ingest(), up to the point where it has nothing left to refuse.
Refusal(s, b) ==
  {code \in Codes :
     \/ code = 401 /\ ~Authentic(b) /\ ~SignatureRaises(b)
     \/ code = 500 /\ SignatureRaises(b)
     \/ code = 400 /\ Authentic(b) /\ b.kind = "garbage"
     \/ code = 500 /\ Authentic(b) /\ b.kind = "binary"
     \/ code = 503 /\ Authentic(b) /\ Parses(b) /\ ~producer[s]
     \/ code = 500 /\ Authentic(b) /\ Parses(b) /\ producer[s] /\ KeyRaises(b)}

Post(s, w, b) ==
  /\ process[s] = "serving" /\ MayPost(w)
  /\ body[w] \in {NoBody, b}
  /\ body' = [body EXCEPT ![w] = b]
  /\ attempts' = [attempts EXCEPT ![w] = @ + 1]
  /\ LET q == <<w, attempts[w] + 1>>
     IN  \/ \E code \in Refusal(s, b) :
              /\ answer' = [answer EXCEPT ![w] = code]
              /\ refused' = refused \union {q}
              /\ UNCHANGED sender
         \/ /\ Refusal(s, b) = {}
            /\ answer' = [answer EXCEPT ![w] = Waiting]
            /\ sender' = [sender EXCEPT ![q] = s]
            /\ UNCHANGED refused
  /\ UNCHANGED << servers, broker, dropped, bounds >>

\* OpenProject learns the answer to a request, if it still waits for that one.
Hears(q, code) ==
  answer' = [answer EXCEPT ![q[1]] = IF q = LastOf(q[1]) /\ @ = Waiting THEN code ELSE @]

\* Whoever posted gives up waiting, or the answer is lost; the route knows nothing of it.
GiveUp(w) ==
  /\ answer[w] = Waiting /\ giveUps < MaxGiveUps
  /\ answer' = [answer EXCEPT ![w] = NoAnswer]
  /\ giveUps' = giveUps + 1
  /\ UNCHANGED << servers, sender, body, attempts, refused, broker, dropped, deaths, outages >>

\* Without a key the producer picks a partition itself.
PartitionsFor(b) == IF KeyOf(b) = Empty THEN Partition ELSE {PartitionOf[KeyOf(b)]}

(* send() returns: the record is buffered and the route answers 202.       *)
SendReturns(q, p) ==
  LET s == sender[q]
  IN  /\ s # Nobody /\ p \in PartitionsFor(BodyOf(q))
      /\ buffer' = [buffer EXCEPT ![s][p] = Append(@, q)]
      /\ sender' = [sender EXCEPT ![q] = Nobody]
      /\ Hears(q, 202)
      /\ UNCHANGED << process, producer, body, attempts, refused, broker, dropped, bounds >>

\* Mutant of SendRaises: the route waits for the broker, and the record is buffered.
SendRaisesLate(q) ==
  /\ sender[q] # Nobody
  /\ \E p \in PartitionsFor(BodyOf(q)) :
       buffer' = [buffer EXCEPT ![sender[q]][p] = Append(@, q)]
  /\ sender' = [sender EXCEPT ![q] = Nobody]
  /\ Hears(q, 503)
  /\ refused' = refused \union {q}
  /\ UNCHANGED << process, producer, body, attempts, broker, dropped, bounds >>

\* Mutant of SendRaises: a status code of the proxy's.
SendRaisesBadGateway(q) ==
  /\ sender[q] # Nobody
  /\ sender' = [sender EXCEPT ![q] = Nobody]
  /\ Hears(q, 502)
  /\ refused' = refused \union {q}
  /\ UNCHANGED << servers, body, attempts, broker, dropped, bounds >>

\* send() raises (no metadata, no room in time): nothing was buffered.
SendRaises(q) ==
  /\ sender[q] # Nobody
  /\ sender' = [sender EXCEPT ![q] = Nobody]
  /\ Hears(q, 503)
  /\ refused' = refused \union {q}
  /\ UNCHANGED << servers, body, attempts, broker, dropped, bounds >>

-----------------------------------------------------------------------------
(* The producer's own task, and the broker. *)

\* Mutant of Deliver: the producer's task stops with the requests.
DeliverWhileServing(s, p) ==
  /\ brokerUp /\ process[s] = "serving" /\ buffer[s][p] # << >>
  /\ log' = [log EXCEPT ![p] = Append(@, Head(buffer[s][p]))]
  /\ buffer' = [buffer EXCEPT ![s][p] = Tail(@)]
  /\ UNCHANGED << process, producer, sender, client, brokerUp, dropped, bounds >>

\* The broker stores the first record of a partition and acknowledges it.
Deliver(s, p) ==
  /\ brokerUp /\ process[s] # "down" /\ buffer[s][p] # << >>
  /\ log' = [log EXCEPT ![p] = Append(@, Head(buffer[s][p]))]
  /\ buffer' = [buffer EXCEPT ![s][p] = Tail(@)]
  /\ UNCHANGED << process, producer, sender, client, brokerUp, dropped, bounds >>

\* The request timeout of a record passes while the broker is away.
Expire(s, p) ==
  /\ ~brokerUp /\ buffer[s][p] # << >>
  /\ dropped' = dropped \union {Head(buffer[s][p])}
  /\ buffer' = [buffer EXCEPT ![s][p] = Tail(@)]
  /\ UNCHANGED << process, producer, sender, client, broker, bounds >>

BrokerFails ==
  /\ brokerUp /\ outages < MaxOutages
  /\ brokerUp' = FALSE /\ outages' = outages + 1
  /\ UNCHANGED << servers, sender, client, log, dropped, deaths, giveUps >>

BrokerRecovers ==
  /\ ~brokerUp /\ brokerUp' = TRUE
  /\ UNCHANGED << servers, sender, client, log, dropped, bounds >>

-----------------------------------------------------------------------------
(* The lifespan. *)

(* The producer starts, or fails to: the server then serves without one    *)
(* until it is started again.                                              *)
Start(s, started) ==
  /\ process[s] = "down"
  /\ started => brokerUp
  /\ process' = [process EXCEPT ![s] = "serving"]
  /\ producer' = [producer EXCEPT ![s] = started]
  /\ UNCHANGED << buffer, sender, client, broker, dropped, bounds >>

\* The process is told to end: it takes no more requests.
Drain(s) ==
  /\ process[s] = "serving" /\ deaths < MaxDeaths
  /\ process' = [process EXCEPT ![s] = "draining"]
  /\ deaths' = deaths + 1
  /\ UNCHANGED << producer, buffer, sender, client, broker, dropped, outages, giveUps >>

\* Mutant of BeginFlush: requests are not waited for.
BeginFlushEarly(s) ==
  /\ process[s] = "draining"
  /\ process' = [process EXCEPT ![s] = "flushing"]
  /\ producer' = [producer EXCEPT ![s] = FALSE]
  /\ UNCHANGED << buffer, sender, client, broker, dropped, bounds >>

\* The lifespan ends: the route loses its producer, which begins to stop.
BeginFlush(s) ==
  /\ process[s] = "draining" /\ InFlight(s) = {}
  /\ process' = [process EXCEPT ![s] = "flushing"]
  /\ producer' = [producer EXCEPT ![s] = FALSE]
  /\ UNCHANGED << buffer, sender, client, broker, dropped, bounds >>

\* Mutant of Exit: producer.stop() is not called.
ExitUnflushed(s) ==
  /\ process[s] = "flushing"
  /\ process' = [process EXCEPT ![s] = "down"]
  /\ buffer' = [buffer EXCEPT ![s] = EmptyBuffer]
  /\ UNCHANGED << producer, sender, client, broker, dropped, bounds >>

\* producer.stop() returns when its buffer is empty.
Exit(s) ==
  /\ process[s] = "flushing" /\ Flushed(s)
  /\ process' = [process EXCEPT ![s] = "down"]
  /\ UNCHANGED << producer, buffer, sender, client, broker, dropped, bounds >>

\* The process is killed, be it while it ends.
Crash(s) ==
  /\ process[s] # "down" /\ deaths < MaxDeaths
  /\ process' = [process EXCEPT ![s] = "down"]
  /\ producer' = [producer EXCEPT ![s] = FALSE]
  /\ buffer' = [buffer EXCEPT ![s] = EmptyBuffer]
  /\ dropped' = dropped \union InBuffer(s)
  /\ sender' = [q \in Request |-> IF sender[q] = s THEN Nobody ELSE sender[q]]
  /\ answer' = [w \in Webhook |-> IF answer[w] = Waiting /\ sender[LastOf(w)] = s
                                  THEN NoAnswer ELSE answer[w]]
  /\ deaths' = deaths + 1
  /\ UNCHANGED << body, attempts, refused, broker, outages, giveUps >>

Lifespan(s) ==
  \/ \E started \in BOOLEAN : Start(s, started)
  \/ Drain(s) \/ BeginFlush(s) \/ Exit(s) \/ Crash(s)

Next ==
  \/ \E s \in Server, w \in Webhook, b \in Body : Post(s, w, b)
  \/ \E w \in Webhook : GiveUp(w)
  \/ \E q \in Request : SendRaises(q) \/ \E p \in Partition : SendReturns(q, p)
  \/ \E s \in Server, p \in Partition : Deliver(s, p) \/ Expire(s, p)
  \/ BrokerFails \/ BrokerRecovers
  \/ \E s \in Server : Lifespan(s)

Spec == Init /\ [][Next]_vars

-----------------------------------------------------------------------------
Logged == UNION {ToSet(log[p]) : p \in Partition}
Buffered == UNION {InBuffer(s) : s \in Server}
Accepted(w) == answer[w] = 202

TypeOK ==
  /\ process \in [Server -> Stages]
  /\ producer \in [Server -> BOOLEAN]
  /\ buffer \in [Server -> [Partition -> Seq(Request)]]
  /\ sender \in [Request -> Server \union {Nobody}]
  /\ body \in [Webhook -> Body \union {NoBody}]
  /\ answer \in [Webhook -> Codes \union {None, Waiting, NoAnswer}]
  /\ log \in [Partition -> Seq(Request)]
  /\ brokerUp \in BOOLEAN
  /\ attempts \in [Webhook -> 0..MaxAttempts]
  /\ refused \subseteq Request
  /\ dropped \subseteq Request

(* An event OpenProject was told is accepted is in the topic or in the     *)
(* buffer of a live process, unless a process was killed with it or it     *)
(* expired in an outage: ending a process in order, with requests in       *)
(* flight and records undelivered, loses nothing.                          *)
AcceptedKept ==
  \A w \in Webhook : Accepted(w) => LastOf(w) \in Logged \union Buffered \union dropped

(* A post that was refused leaves no record behind, so that the retry a    *)
(* refusal invites puts no event into the topic twice, even if answers get *)
(* lost and processes die while a request waits.                           *)
RefusalLeavesNothing == refused \intersect (Logged \union Buffered) = {}

(* What is in the topic went through the whole route: signed, parsed and   *)
(* keyed, whatever the server's life and the retries were like.            *)
OnlyCheckedRecords ==
  \A q \in Logged \union Buffered :
     Authentic(BodyOf(q)) /\ Parses(BodyOf(q)) /\ ~KeyRaises(BodyOf(q))

(* No request is left waiting on a producer that was taken away: the       *)
(* lifespan takes it only after the last request has been answered.        *)
SendHasProducer ==
  \A q \in Request : sender[q] # Nobody =>
     producer[sender[q]] /\ process[sender[q]] \in {"serving", "draining"}

(* ingest.py, _extract_event_key: "We key by event id so retries of the    *)
(* same event hash to the same partition".  The key is computed before     *)
(* the event is, by other code: still, records the consumer will read as   *)
(* the same event are in the same partition.                               *)
SameEventSamePartition ==
  \A p, q \in Partition : \A v \in ToSet(log[p]), w \in ToSet(log[q]) :
     /\ IsEvent(BodyOf(v)) /\ IsEvent(BodyOf(w))
     /\ Transform(BodyOf(v)).id = Transform(BodyOf(w)).id
     => p = q

-----------------------------------------------------------------------------
(* What a document says and the code does not do. *)

(* ingest.py: "OpenProject retries on non-2xx, and the producer already    *)
(* gives us at-least-once semantics via enable_idempotence=True".          *)
AtLeastOnce == \A w \in Webhook : Accepted(w) => LastOf(w) \in Logged \union Buffered
=============================================================================

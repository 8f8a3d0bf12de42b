----------------------------- MODULE IngestProofs -----------------------------
(***************************************************************************)
(* Proofs about Ingest, for every number of servers, webhooks, bodies and  *)
(* partitions, and whatever the bounds.                                    *)
(***************************************************************************)
EXTENDS Ingest, SequenceTheorems, TLAPS

-----------------------------------------------------------------------------
(* Sequences as sets. *)

LEMMA AppendToSet ==
  ASSUME NEW S, NEW q \in Seq(S), NEW x \in S
  PROVE  /\ Append(q, x) \in Seq(S)
         /\ ToSet(Append(q, x)) = ToSet(q) \union {x}
<1>1. /\ Append(q, x) \in Seq(S) /\ Len(Append(q, x)) = Len(q) + 1
      /\ \A i \in 1..Len(q) : Append(q, x)[i] = q[i]
      /\ Append(q, x)[Len(q) + 1] = x
  BY AppendProperties
<1>2. DOMAIN q = 1..Len(q) /\ DOMAIN Append(q, x) = 1..(Len(q) + 1) /\ Len(q) \in Nat
  BY <1>1, LenProperties
<1>3. QED
  BY <1>1, <1>2 DEF ToSet

LEMMA HeadAndTail ==
  ASSUME NEW S, NEW q \in Seq(S), q # << >>
  PROVE  /\ Head(q) \in S /\ Tail(q) \in Seq(S)
         /\ ToSet(q) = {Head(q)} \union ToSet(Tail(q))
<1>1. /\ Head(q) \in S /\ Tail(q) \in Seq(S) /\ Len(Tail(q)) = Len(q) - 1
      /\ \A i \in 1..Len(Tail(q)) : Tail(q)[i] = q[i + 1]
  BY HeadTailProperties
<1>2. Head(q) = q[1] /\ Len(q) \in Nat \ {0}
  BY EmptySeq, LenProperties
<1>3. DOMAIN q = 1..Len(q) /\ DOMAIN Tail(q) = 1..(Len(q) - 1)
  BY <1>1, LenProperties
<1>4. ASSUME NEW x \in ToSet(q) PROVE x \in {Head(q)} \union ToSet(Tail(q))
  <2>1. PICK i \in 1..Len(q) : x = q[i]
    BY <1>3 DEF ToSet
  <2>2. CASE i = 1
    BY <2>1, <2>2, <1>2
  <2>3. CASE i # 1
    <3>1. i - 1 \in 1..(Len(q) - 1) /\ Tail(q)[i - 1] = x
      BY <2>1, <2>3, <1>1, <1>2
    <3>2. QED
      BY <3>1, <1>3 DEF ToSet
  <2>4. QED
    BY <2>2, <2>3
<1>5. ToSet(Tail(q)) \subseteq ToSet(q)
  BY <1>1, <1>2, <1>3 DEF ToSet
<1>6. Head(q) \in ToSet(q)
  BY <1>2, <1>3 DEF ToSet
<1>7. QED
  BY <1>1, <1>4, <1>5, <1>6

LEMMA ToSetOfEmpty == ToSet(<< >>) = {}
BY DEF ToSet

LEMMA InLogged == \A w : w \in Logged <=> \E p \in Partition : w \in ToSet(log[p])
BY DEF Logged

LEMMA InBuffered ==
  \A w : w \in Buffered <=> \E s \in Server, p \in Partition : w \in ToSet(buffer[s][p])
BY DEF Buffered, InBuffer

-----------------------------------------------------------------------------
(* The two readings of a body agree. *)

LEMMA MinIsMember ==
  ASSUME NEW S, S \subseteq 1..2, S # {}
  PROVE  Min(S) \in S
<1>1. \A y \in S : y = 1 \/ y = 2
  OBVIOUS
<1>2. 1 =< 1 /\ 1 =< 2 /\ 2 =< 2
  OBVIOUS
<1>3. \E x \in S : \A y \in S : x =< y
  BY <1>1, <1>2, Zenon
<1>4. QED
  BY <1>3, Zenon DEF Min

(* Where the consumer reads an id, the route has read the same one for the *)
(* key: `a or b or ""` is not empty only if a or b is true, and then it is *)
(* what `a or b` is.                                                       *)
LEMMA KeyIsId ==
  ASSUME NEW b, IsEvent(b)
  PROVE  KeyOf(b) = IdOf(b) /\ KeyOf(b) # Empty
<1> DEFINE two == <<b.id, b.action_id>>
           three == <<b.id, b.action_id, Empty>>
           trueTwo == {i \in 1..Len(two) : two[i] \notin Falsy}
           trueThree == {i \in 1..Len(three) : three[i] \notin Falsy}
<1>1. trueTwo = {i \in 1..2 : two[i] \notin Falsy} /\ trueThree = {i \in 1..3 : three[i] \notin Falsy}
  OBVIOUS
<1>2. trueThree = trueTwo
  BY <1>1 DEF Falsy
<1>3. FirstOf(three) = IF trueThree = {} THEN Empty ELSE three[Min(trueThree)]
  BY DEF FirstOf, Get, Last, Empty, Missing
<1>4. trueThree # {}
  BY <1>3 DEF IsEvent, IdOf
<1>5. FirstOf(two) = two[Min(trueTwo)]
  BY <1>2, <1>4 DEF FirstOf
<1>6. Min(trueTwo) \in trueTwo /\ trueTwo \subseteq 1..2
  BY <1>1, <1>2, <1>4, MinIsMember
<1>7. FirstOf(two) = FirstOf(three) /\ FirstOf(two) \notin Falsy
  BY <1>2, <1>3, <1>4, <1>5, <1>6
<1>8. QED
  BY <1>7 DEF KeyOf, IdOf, IsEvent, Falsy

-----------------------------------------------------------------------------
(* The inductive invariant. *)

\* What the route has checked of a body when it hands it to the producer.
Sound(b) == b \in Body /\ Authentic(b) /\ Parses(b) /\ ~KeyRaises(b)

Recorded == Logged \union Buffered

\* What the system knows of a request it knows of one that was posted.
Counted ==
  \A q \in Request :
     sender[q] # Nobody \/ q \in refused \/ q \in Recorded => q[2] <= attempts[q[1]]

\* A request that waits in send() has been neither refused nor recorded.
WaitingIsOpen == \A q \in Request : sender[q] # Nobody => q \notin refused \union Recorded

\* Senders wait with checked bodies.
SendersSound == \A q \in Request : sender[q] # Nobody => Sound(BodyOf(q))

\* Records are checked bodies, in a partition their key allows.
Placed(b, p) == Sound(b) /\ p \in PartitionsFor(b)

RecordsPlaced ==
  \A p \in Partition :
     /\ \A q \in ToSet(log[p]) : Placed(BodyOf(q), p)
     /\ \A s \in Server : \A q \in ToSet(buffer[s][p]) : Placed(BodyOf(q), p)

RouteInv ==
  /\ TypeOK
  /\ Counted
  /\ WaitingIsOpen
  /\ SendHasProducer
  /\ SendersSound
  /\ RecordsPlaced
  /\ RefusalLeavesNothing

LEMMA RequestParts ==
  ASSUME NEW q \in Request
  PROVE  q[1] \in Webhook /\ q[2] \in 1..MaxAttempts /\ q = <<q[1], q[2]>>
BY DEF Request

LEMMA NoBodyIsNone == NoBody \notin Body
<1>1. NoBody.kind \notin Kinds
  BY DEF NoBody, Kinds
<1>2. QED
  BY <1>1, BodyAssumption

(* What the route refuses nothing of has been checked, and finds a producer. *)
LEMMA NotRefused ==
  ASSUME NEW s \in Server, NEW b \in Body, producer[s] \in BOOLEAN, Refusal(s, b) = {}
  PROVE  Sound(b) /\ producer[s]
<1>1. /\ Authentic(b) \/ SignatureRaises(b)
      /\ ~SignatureRaises(b)
      /\ b.kind # "garbage" /\ b.kind # "binary"
      /\ Parses(b) => producer[s] /\ ~KeyRaises(b)
  BY SMT DEF Refusal, Codes
<1>2. Authentic(b) /\ Parses(b)
  BY <1>1, BodyAssumption DEF Parses, Kinds
<1>3. QED
  BY <1>1, <1>2 DEF Sound

LEMMA PostCases ==
  ASSUME TypeOK, NEW s \in Server, NEW w \in Webhook, NEW b \in Body, Post(s, w, b),
         NEW q, q = <<w, attempts[w] + 1>>
  PROVE  /\ process[s] = "serving"
         /\ q \in Request /\ q[1] = w /\ q[2] = attempts[w] + 1
         /\ attempts[w] \in Nat /\ q[2] \in 1..MaxAttempts
         /\ answer[w] \notin {Waiting, 202}
         /\ body[w] \in {NoBody, b} /\ body' = [body EXCEPT ![w] = b]
         /\ attempts' = [attempts EXCEPT ![w] = q[2]]
         /\ UNCHANGED << process, producer, buffer, log, brokerUp, dropped, bounds >>
         /\ \/ /\ \E code \in Codes : answer' = [answer EXCEPT ![w] = code]
               /\ refused' = refused \union {q}
               /\ sender' = sender
            \/ /\ Sound(b) /\ producer[s]
               /\ answer' = [answer EXCEPT ![w] = Waiting]
               /\ sender' = [sender EXCEPT ![q] = s]
               /\ refused' = refused
<1>1. producer[s] \in BOOLEAN /\ attempts[w] \in 0..MaxAttempts
  BY DEF TypeOK
<1>2. Refusal(s, b) \subseteq Codes
  BY DEF Refusal
<1>3. attempts[w] < MaxAttempts /\ answer[w] \notin {Waiting, 202}
  BY DEF Post, MayPost
<1>4. attempts[w] + 1 \in 1..MaxAttempts /\ attempts[w] \in Nat
  BY <1>1, <1>3, BoundAssumption
<1>5. q \in Request /\ q[1] = w /\ q[2] = attempts[w] + 1
  BY <1>4 DEF Request
<1>6. attempts' = [attempts EXCEPT ![w] = q[2]]
  BY <1>5 DEF Post
<1>7. /\ process[s] = "serving"
      /\ body[w] \in {NoBody, b} /\ body' = [body EXCEPT ![w] = b]
      /\ UNCHANGED << process, producer, buffer, log, brokerUp, dropped, bounds >>
  BY DEF Post, servers, broker
<1>8. \/ /\ \E code \in Refusal(s, b) : answer' = [answer EXCEPT ![w] = code]
         /\ refused' = refused \union {q}
         /\ sender' = sender
      \/ /\ Refusal(s, b) = {}
         /\ answer' = [answer EXCEPT ![w] = Waiting]
         /\ sender' = [sender EXCEPT ![q] = s]
         /\ refused' = refused
  BY DEF Post
<1>9. QED
  BY <1>1, <1>2, <1>3, <1>4, <1>5, <1>6, <1>7, <1>8, NotRefused

(* A body that has been posted is never replaced. *)
LEMMA BodiesStay ==
  ASSUME TypeOK, [Next]_vars, NEW w \in Webhook, body[w] \in Body
  PROVE  body'[w] = body[w]
<1>1. ASSUME NEW s \in Server, NEW v \in Webhook, NEW b \in Body, Post(s, v, b)
      PROVE  body'[w] = body[w]
  BY <1>1, NoBodyIsNone DEF Post, TypeOK
<1>2. QED
  BY <1>1 DEF Next, vars, client, Lifespan, GiveUp, SendReturns, SendRaises, Deliver, Expire,
     BrokerFails, BrokerRecovers, Start, Drain, BeginFlush, Exit, Crash

-----------------------------------------------------------------------------
(* Types. *)

LEMMA BufferAppendType ==
  ASSUME TypeOK, NEW s \in Server, NEW p \in Partition, NEW q \in Request
  PROVE  [buffer EXCEPT ![s][p] = Append(@, q)] \in [Server -> [Partition -> Seq(Request)]]
<1>1. buffer[s] \in [Partition -> Seq(Request)] /\ buffer[s][p] \in Seq(Request)
  BY DEF TypeOK
<1>2. Append(buffer[s][p], q) \in Seq(Request)
  BY <1>1, AppendToSet
<1>3. [buffer[s] EXCEPT ![p] = Append(buffer[s][p], q)] \in [Partition -> Seq(Request)]
  BY <1>1, <1>2
<1>4. QED
  BY <1>3 DEF TypeOK

LEMMA BufferTailType ==
  ASSUME TypeOK, NEW s \in Server, NEW p \in Partition, buffer[s][p] # << >>
  PROVE  /\ [buffer EXCEPT ![s][p] = Tail(@)] \in [Server -> [Partition -> Seq(Request)]]
         /\ Head(buffer[s][p]) \in Request
         /\ Tail(buffer[s][p]) \in Seq(Request)
         /\ ToSet(buffer[s][p]) = {Head(buffer[s][p])} \union ToSet(Tail(buffer[s][p]))
<1>1. buffer[s] \in [Partition -> Seq(Request)] /\ buffer[s][p] \in Seq(Request)
  BY DEF TypeOK
<1>2. /\ Head(buffer[s][p]) \in Request /\ Tail(buffer[s][p]) \in Seq(Request)
      /\ ToSet(buffer[s][p]) = {Head(buffer[s][p])} \union ToSet(Tail(buffer[s][p]))
  BY <1>1, HeadAndTail
<1>3. [buffer[s] EXCEPT ![p] = Tail(buffer[s][p])] \in [Partition -> Seq(Request)]
  BY <1>1, <1>2
<1>4. QED
  BY <1>2, <1>3 DEF TypeOK

LEMMA EmptyBufferType ==
  /\ EmptyBuffer \in [Partition -> Seq(Request)]
  /\ \A p \in Partition : ToSet(EmptyBuffer[p]) = {}
BY EmptySeq, ToSetOfEmpty DEF EmptyBuffer

LEMMA InBufferType == TypeOK => \A s \in Server : InBuffer(s) \subseteq Request
<1> SUFFICES ASSUME TypeOK, NEW s \in Server, NEW p \in Partition
             PROVE  ToSet(buffer[s][p]) \subseteq Request
  BY DEF InBuffer
<1>1. buffer[s][p] \in Seq(Request)
  BY DEF TypeOK
<1>2. QED
  BY <1>1, LenProperties DEF ToSet

LEMMA HearsType ==
  ASSUME TypeOK, NEW q \in Request, NEW code \in Codes, Hears(q, code)
  PROVE  answer' \in [Webhook -> Codes \union {None, Waiting, NoAnswer}]
BY RequestParts DEF Hears, TypeOK

LEMMA TypesStep == TypeOK /\ [Next]_vars => TypeOK'
<1> SUFFICES ASSUME TypeOK, [Next]_vars PROVE TypeOK'
  OBVIOUS
<1>1. ASSUME NEW s \in Server, NEW w \in Webhook, NEW b \in Body, Post(s, w, b)
      PROVE  TypeOK'
  <2>1. PICK q : q = <<w, attempts[w] + 1>>
    OBVIOUS
  <2>2. /\ q \in Request /\ q[2] \in 1..MaxAttempts
        /\ body' = [body EXCEPT ![w] = b] /\ attempts' = [attempts EXCEPT ![w] = q[2]]
        /\ UNCHANGED << process, producer, buffer, log, brokerUp, dropped >>
        /\ \/ /\ \E code \in Codes : answer' = [answer EXCEPT ![w] = code]
              /\ refused' = refused \union {q}
              /\ sender' = sender
           \/ /\ answer' = [answer EXCEPT ![w] = Waiting]
              /\ sender' = [sender EXCEPT ![q] = s]
              /\ refused' = refused
    BY <1>1, <2>1, PostCases
  <2>3. attempts' \in [Webhook -> 0..MaxAttempts]
    <3>1. q[2] \in 0..MaxAttempts
      BY <2>2, BoundAssumption
    <3>2. QED
      BY <2>2, <3>1 DEF TypeOK
  <2>4. body' \in [Webhook -> Body \union {NoBody}]
    BY <2>2 DEF TypeOK
  <2>5. /\ sender' \in [Request -> Server \union {Nobody}]
        /\ answer' \in [Webhook -> Codes \union {None, Waiting, NoAnswer}]
        /\ refused' \subseteq Request
    BY <2>2 DEF TypeOK
  <2>6. QED
    BY <2>2, <2>3, <2>4, <2>5 DEF TypeOK
<1>2. ASSUME NEW w \in Webhook, GiveUp(w)
      PROVE  TypeOK'
  BY <1>2 DEF GiveUp, TypeOK, servers, broker
<1>3. ASSUME NEW q \in Request, NEW p \in Partition, SendReturns(q, p)
      PROVE  TypeOK'
  <2>1. sender[q] \in Server /\ sender[q] # Nobody
    BY <1>3 DEF SendReturns, TypeOK
  <2>2. buffer' \in [Server -> [Partition -> Seq(Request)]]
    BY <1>3, <2>1, BufferAppendType DEF SendReturns
  <2>3. answer' \in [Webhook -> Codes \union {None, Waiting, NoAnswer}]
    BY <1>3, HearsType DEF SendReturns, Codes
  <2>4. QED
    BY <1>3, <2>2, <2>3 DEF SendReturns, TypeOK, broker
<1>4. ASSUME NEW q \in Request, SendRaises(q)
      PROVE  TypeOK'
  <2>1. answer' \in [Webhook -> Codes \union {None, Waiting, NoAnswer}]
    BY <1>4, HearsType DEF SendRaises, Codes
  <2>2. QED
    BY <1>4, <2>1 DEF SendRaises, TypeOK, servers, broker
<1>5. ASSUME NEW s \in Server, NEW p \in Partition, Deliver(s, p)
      PROVE  TypeOK'
  <2>1. log[p] \in Seq(Request)
    BY DEF TypeOK
  <2>2. Append(log[p], Head(buffer[s][p])) \in Seq(Request)
    BY <1>5, <2>1, BufferTailType, AppendToSet DEF Deliver
  <2>3. QED
    BY <1>5, <2>2, BufferTailType DEF Deliver, TypeOK, client
<1>6. ASSUME NEW s \in Server, NEW p \in Partition, Expire(s, p)
      PROVE  TypeOK'
  BY <1>6, BufferTailType DEF Expire, TypeOK, client, broker
<1>7. CASE BrokerFails \/ BrokerRecovers
  BY <1>7 DEF BrokerFails, BrokerRecovers, TypeOK, servers, client
<1>8. ASSUME NEW s \in Server, Lifespan(s)
      PROVE  TypeOK'
  <2>1. CASE Crash(s)
    BY <2>1, EmptyBufferType, InBufferType DEF Crash, TypeOK, broker, Stages
  <2>2. CASE ~Crash(s)
    BY <1>8, <2>2 DEF Lifespan, Start, Drain, BeginFlush, Exit, TypeOK, client, broker, Stages
  <2>3. QED
    BY <2>1, <2>2
<1>9. CASE UNCHANGED vars
  BY <1>9 DEF vars, servers, client, broker, TypeOK
<1>10. QED
  BY <1>1, <1>2, <1>3, <1>4, <1>5, <1>6, <1>7, <1>8, <1>9 DEF Next

-----------------------------------------------------------------------------
(* Requests have a producer and a checked body. *)

LEMMA SendersStep == RouteInv /\ [Next]_vars => SendHasProducer' /\ SendersSound'
<1> SUFFICES ASSUME RouteInv, [Next]_vars, NEW q \in Request, sender'[q] # Nobody
             PROVE  /\ producer'[sender'[q]] /\ process'[sender'[q]] \in {"serving", "draining"}
                    /\ Sound(body'[q[1]])
  BY DEF SendHasProducer, SendersSound, BodyOf
<1>1. TypeOK /\ SendHasProducer /\ SendersSound /\ q[1] \in Webhook
  BY RequestParts DEF RouteInv
<1>2. ASSUME NEW s \in Server, NEW w \in Webhook, NEW b \in Body, Post(s, w, b),
             sender'[q] # sender[q]
      PROVE  /\ producer'[sender'[q]] /\ process'[sender'[q]] \in {"serving", "draining"}
             /\ Sound(body'[q[1]])
  <2>1. PICK r : r = <<w, attempts[w] + 1>>
    OBVIOUS
  <2>2. /\ r \in Request /\ r[1] = w /\ process[s] = "serving"
        /\ body' = [body EXCEPT ![w] = b] /\ UNCHANGED << process, producer >>
        /\ Sound(b) /\ producer[s] /\ sender' = [sender EXCEPT ![r] = s]
    BY <1>1, <1>2, <2>1, PostCases
  <2>3. q = r
    BY <1>1, <1>2, <2>2 DEF TypeOK
  <2>4. QED
    BY <1>1, <2>2, <2>3 DEF TypeOK
<1>3. CASE sender'[q] = sender[q]
  <2>1. Sound(body[q[1]]) /\ body'[q[1]] = body[q[1]]
    BY <1>1, <1>3, BodiesStay DEF SendersSound, Sound, BodyOf
  <2>2. producer[sender[q]] /\ process[sender[q]] \in {"serving", "draining"}
    BY <1>1, <1>3 DEF SendHasProducer
  <2>3. sender[q] \in Server
    BY <1>1, <1>3 DEF TypeOK
  <2>4. ASSUME NEW s \in Server, Lifespan(s)
        PROVE  producer'[sender[q]] /\ process'[sender[q]] \in {"serving", "draining"}
    <3>1. CASE s = sender[q]
      <4>1. ~BeginFlush(s)
        BY <3>1 DEF BeginFlush, InFlight
      <4>2. ~Crash(s)
        BY <1>3, <3>1 DEF Crash
      <4>3. QED
        BY <1>1, <2>2, <2>3, <2>4, <3>1, <4>1, <4>2 DEF Lifespan, Start, Drain, Exit, TypeOK
    <3>2. CASE s # sender[q]
      BY <1>1, <2>2, <2>3, <2>4, <3>2 DEF Lifespan, Start, Drain, BeginFlush, Exit, Crash, TypeOK
    <3>3. QED
      BY <3>1, <3>2
  <2>5. CASE UNCHANGED << process, producer >>
    BY <1>3, <2>1, <2>2, <2>5
  <2>6. CASE \E s \in Server : Lifespan(s)
    BY <1>3, <2>1, <2>4, <2>6
  <2>7. QED
    BY <2>5, <2>6 DEF Next, vars, servers, Post, GiveUp, SendReturns, SendRaises, Deliver, Expire,
       BrokerFails, BrokerRecovers
<1>4. CASE sender'[q] # sender[q] /\ ~\E s \in Server, w \in Webhook, b \in Body : Post(s, w, b)
  <2>1. ASSUME NEW r \in Request, NEW p \in Partition, SendReturns(r, p)
        PROVE  FALSE
    BY <1>1, <1>4, <2>1 DEF SendReturns, TypeOK
  <2>2. ASSUME NEW r \in Request, SendRaises(r) PROVE FALSE
    BY <1>1, <1>4, <2>2 DEF SendRaises, TypeOK
  <2>3. ASSUME NEW s \in Server, Crash(s) PROVE FALSE
    BY <1>1, <1>4, <2>3 DEF Crash, TypeOK
  <2>4. QED
    BY <1>4, <2>1, <2>2, <2>3 DEF Next, vars, Lifespan, Start, Drain, BeginFlush, Exit,
       Deliver, Expire, BrokerFails, BrokerRecovers, GiveUp
<1>5. QED
  BY <1>2, <1>3, <1>4

-----------------------------------------------------------------------------
(* Records: where they are, and that they stay until they are dropped. *)

(* Every record of a buffer or of the topic was there before, or is the    *)
(* one a request has just handed over, whose partition its key allows.     *)
LEMMA RecordCases ==
  ASSUME RouteInv, [Next]_vars, NEW p \in Partition, NEW w
  PROVE  /\ w \in ToSet(log'[p]) =>
              w \in ToSet(log[p]) \/ \E s \in Server : w \in ToSet(buffer[s][p])
         /\ \A s \in Server : w \in ToSet(buffer'[s][p]) =>
              \/ w \in ToSet(buffer[s][p])
              \/ /\ w \in Request /\ sender[w] # Nobody /\ sender'[w] = Nobody
                 /\ p \in PartitionsFor(BodyOf(w))
                 /\ refused' = refused
<1>1. TypeOK
  BY DEF RouteInv
<1>2. ASSUME NEW v \in Request, NEW q \in Partition, SendReturns(v, q)
      PROVE  /\ log' = log
             /\ \A s \in Server : w \in ToSet(buffer'[s][p]) =>
                  \/ w \in ToSet(buffer[s][p])
                  \/ /\ w = v /\ sender[v] # Nobody /\ sender'[v] = Nobody
                     /\ p \in PartitionsFor(BodyOf(v))
                     /\ refused' = refused
  <2>1. /\ log' = log /\ sender[v] \in Server /\ sender[v] # Nobody
        /\ sender'[v] = Nobody /\ refused' = refused
        /\ q \in PartitionsFor(BodyOf(v))
        /\ buffer' = [buffer EXCEPT ![sender[v]][q] = Append(@, v)]
    BY <1>1, <1>2 DEF SendReturns, broker, TypeOK
  <2>2. ToSet(Append(buffer[sender[v]][q], v)) = ToSet(buffer[sender[v]][q]) \union {v}
    BY <1>1, <2>1, AppendToSet DEF TypeOK
  <2>3. QED
    BY <1>1, <2>1, <2>2 DEF TypeOK
<1>3. ASSUME NEW r \in Server, NEW q \in Partition, Deliver(r, q)
      PROVE  /\ w \in ToSet(log'[p]) =>
                  w \in ToSet(log[p]) \/ \E s \in Server : w \in ToSet(buffer[s][p])
             /\ \A s \in Server : w \in ToSet(buffer'[s][p]) => w \in ToSet(buffer[s][p])
  <2>1. /\ log' = [log EXCEPT ![q] = Append(@, Head(buffer[r][q]))]
        /\ buffer' = [buffer EXCEPT ![r][q] = Tail(@)]
        /\ buffer[r][q] # << >>
    BY <1>3 DEF Deliver
  <2>2. /\ Head(buffer[r][q]) \in Request
        /\ ToSet(buffer[r][q]) = {Head(buffer[r][q])} \union ToSet(Tail(buffer[r][q]))
    BY <1>1, <2>1, BufferTailType
  <2>3. ToSet(Append(log[q], Head(buffer[r][q]))) = ToSet(log[q]) \union {Head(buffer[r][q])}
    BY <1>1, <2>2, AppendToSet DEF TypeOK
  <2>4. QED
    BY <1>1, <2>1, <2>2, <2>3 DEF TypeOK
<1>4. ASSUME NEW r \in Server, NEW q \in Partition, Expire(r, q)
      PROVE  /\ log' = log
             /\ \A s \in Server : w \in ToSet(buffer'[s][p]) => w \in ToSet(buffer[s][p])
  <2>1. /\ log' = log /\ buffer' = [buffer EXCEPT ![r][q] = Tail(@)]
        /\ buffer[r][q] # << >>
    BY <1>4 DEF Expire, broker
  <2>2. ToSet(Tail(buffer[r][q])) \subseteq ToSet(buffer[r][q])
    BY <1>1, <2>1, BufferTailType
  <2>3. QED
    BY <1>1, <2>1, <2>2 DEF TypeOK
<1>5. ASSUME NEW r \in Server, Lifespan(r)
      PROVE  /\ log' = log
             /\ \A s \in Server : w \in ToSet(buffer'[s][p]) => w \in ToSet(buffer[s][p])
  BY <1>1, <1>5, EmptyBufferType DEF Lifespan, Start, Drain, BeginFlush, Exit, Crash, broker, TypeOK
<1>6. CASE UNCHANGED << log, buffer >>
  BY <1>6
<1>7. QED
  BY <1>2, <1>3, <1>4, <1>5, <1>6 DEF Next, vars, servers, broker, Post, GiveUp, SendRaises,
     BrokerFails, BrokerRecovers

LEMMA RecordsStep == RouteInv /\ [Next]_vars => RecordsPlaced'
<1> SUFFICES ASSUME RouteInv, [Next]_vars, NEW p \in Partition, NEW q,
                    q \in ToSet(log'[p]) \/ \E s \in Server : q \in ToSet(buffer'[s][p])
             PROVE  Placed(body'[q[1]], p)
  BY DEF RecordsPlaced, BodyOf
<1>1. q \in Request /\ Placed(body[q[1]], p)
  <2>1. CASE q \in ToSet(log[p]) \/ \E s \in Server : q \in ToSet(buffer[s][p])
    <3>1. Placed(body[q[1]], p)
      BY <2>1 DEF RouteInv, RecordsPlaced, BodyOf
    <3>2. log[p] \in Seq(Request) /\ \A s \in Server : buffer[s][p] \in Seq(Request)
      BY DEF RouteInv, TypeOK
    <3>3. q \in Request
      BY <2>1, <3>2, LenProperties DEF ToSet
    <3>4. QED
      BY <3>1, <3>3
  <2>2. CASE q \in Request /\ sender[q] # Nobody /\ p \in PartitionsFor(BodyOf(q))
    BY <2>2 DEF RouteInv, SendersSound, Placed, BodyOf
  <2>3. QED
    BY <2>1, <2>2, RecordCases
<1>2. body'[q[1]] = body[q[1]]
  BY <1>1, BodiesStay, RequestParts DEF RouteInv, Placed, Sound
<1>3. QED
  BY <1>1, <1>2

-----------------------------------------------------------------------------
(* What becomes of a request: it waits, or was refused, or left a record. *)

(* A record is new only as the one a request has just handed over. *)
LEMMA RecordedCases ==
  ASSUME RouteInv, [Next]_vars, NEW q, q \in Recorded'
  PROVE  \/ q \in Recorded
         \/ q \in Request /\ sender[q] # Nobody /\ sender'[q] = Nobody /\ refused' = refused
<1>1. \E p \in Partition : q \in ToSet(log'[p]) \/ \E s \in Server : q \in ToSet(buffer'[s][p])
  BY DEF Recorded, Logged, Buffered, InBuffer
<1>2. PICK p \in Partition :
        q \in ToSet(log'[p]) \/ \E s \in Server : q \in ToSet(buffer'[s][p])
  BY <1>1
<1>3. \/ q \in ToSet(log[p]) \/ \E s \in Server : q \in ToSet(buffer[s][p])
      \/ q \in Request /\ sender[q] # Nobody /\ sender'[q] = Nobody /\ refused' = refused
  BY <1>2, RecordCases
<1>4. QED
  BY <1>3, InLogged, InBuffered DEF Recorded

(* A request that was not known before is the one that is posted now. *)
LEMMA RequestCases ==
  ASSUME RouteInv, [Next]_vars, NEW q \in Request
  PROVE  /\ attempts[q[1]] <= attempts'[q[1]]
         /\ \/ sender'[q] \in {sender[q], Nobody} /\ refused' = refused
            \/ sender'[q] \in {sender[q], Nobody} /\ \E r \in Request :
                 sender[r] # Nobody /\ sender'[r] = Nobody /\ refused' = refused \union {r}
            \/ \E r \in Request :
                 /\ r[2] = attempts[r[1]] + 1 /\ attempts'[r[1]] = r[2]
                 /\ Recorded' = Recorded
                 /\ \/ sender' = sender /\ refused' = refused \union {r}
                    \/ /\ sender'[r] # Nobody /\ refused' = refused
                       /\ q # r => sender'[q] = sender[q]
<1>1. TypeOK /\ q[1] \in Webhook
  BY RequestParts DEF RouteInv
<1>2. attempts[q[1]] \in Nat
  BY <1>1, BoundAssumption DEF TypeOK
<1>3. ASSUME NEW s \in Server, NEW w \in Webhook, NEW b \in Body, Post(s, w, b)
      PROVE  /\ attempts[q[1]] <= attempts'[q[1]]
             /\ \E r \in Request :
                 /\ r[2] = attempts[r[1]] + 1 /\ attempts'[r[1]] = r[2]
                 /\ Recorded' = Recorded
                 /\ \/ sender' = sender /\ refused' = refused \union {r}
                    \/ /\ sender'[r] # Nobody /\ refused' = refused
                       /\ q # r => sender'[q] = sender[q]
  <2>1. PICK r : r = <<w, attempts[w] + 1>>
    OBVIOUS
  <2>2. /\ r \in Request /\ r[1] = w /\ r[2] = attempts[w] + 1
        /\ attempts[w] \in Nat
        /\ attempts' = [attempts EXCEPT ![w] = r[2]]
        /\ UNCHANGED << process, producer, buffer, log, brokerUp, dropped >>
        /\ \/ /\ refused' = refused \union {r}
              /\ sender' = sender
           \/ /\ producer[s]
              /\ sender' = [sender EXCEPT ![r] = s]
              /\ refused' = refused
    BY <1>1, <1>3, <2>1, PostCases
  <2>3. s # Nobody
    BY ServerAssumption
  <2>4. attempts'[r[1]] = r[2] /\ r[2] = attempts[r[1]] + 1
    BY <1>1, <2>2 DEF TypeOK
  <2>5. attempts[q[1]] <= attempts'[q[1]]
    BY <1>1, <1>2, <2>2 DEF TypeOK
  <2>6. Recorded' = Recorded
    BY <2>2 DEF Recorded, Logged, Buffered, InBuffer
  <2>7. \/ sender' = sender /\ refused' = refused \union {r}
        \/ /\ sender'[r] # Nobody /\ refused' = refused
           /\ q # r => sender'[q] = sender[q]
    BY <1>1, <2>2, <2>3 DEF TypeOK
  <2>8. QED
    BY <2>2, <2>4, <2>5, <2>6, <2>7
<1>4. ASSUME NEW r \in Request, SendRaises(r)
      PROVE  /\ attempts' = attempts /\ sender'[q] \in {sender[q], Nobody}
             /\ sender[r] # Nobody /\ sender'[r] = Nobody /\ refused' = refused \union {r}
  BY <1>1, <1>4 DEF SendRaises, TypeOK
<1>5. ASSUME NEW r \in Request, NEW p \in Partition, SendReturns(r, p)
      PROVE  attempts' = attempts /\ sender'[q] \in {sender[q], Nobody} /\ refused' = refused
  BY <1>1, <1>5 DEF SendReturns, TypeOK
<1>6. ASSUME NEW s \in Server, Lifespan(s)
      PROVE  attempts' = attempts /\ sender'[q] \in {sender[q], Nobody} /\ refused' = refused
  BY <1>1, <1>6 DEF Lifespan, Start, Drain, BeginFlush, Exit, Crash, client
<1>7. CASE UNCHANGED << attempts, sender, refused >>
  BY <1>2, <1>7
<1>8. QED
  BY <1>2, <1>3, <1>4, <1>5, <1>6, <1>7 DEF Next, vars, client, GiveUp, Deliver, Expire,
     BrokerFails, BrokerRecovers

LEMMA RequestsStep ==
  RouteInv /\ [Next]_vars => Counted' /\ WaitingIsOpen' /\ RefusalLeavesNothing'
<1> SUFFICES ASSUME RouteInv, [Next]_vars
             PROVE  Counted' /\ WaitingIsOpen' /\ RefusalLeavesNothing'
  OBVIOUS
<1>1. /\ Counted /\ WaitingIsOpen /\ refused \intersect Recorded = {}
      /\ refused \subseteq Request
  BY DEF RouteInv, RefusalLeavesNothing, Recorded, TypeOK
<1>2. ASSUME NEW q \in Request
      PROVE  /\ sender'[q] # Nobody \/ q \in refused' \/ q \in Recorded' =>
                  q[2] <= attempts'[q[1]]
             /\ sender'[q] # Nobody => q \notin refused' \union Recorded'
             /\ ~(q \in refused' /\ q \in Recorded')
  <2>1. /\ q[1] \in Webhook /\ q[2] \in Nat /\ attempts[q[1]] \in Nat /\ attempts'[q[1]] \in Nat
    <3>1. TypeOK /\ TypeOK'
      BY TypesStep DEF RouteInv
    <3>2. QED
      BY <3>1, RequestParts, BoundAssumption DEF TypeOK
  <2>2. /\ sender[q] # Nobody \/ q \in refused \/ q \in Recorded => q[2] <= attempts[q[1]]
        /\ sender[q] # Nobody => q \notin refused \union Recorded
        /\ ~(q \in refused /\ q \in Recorded)
    BY <1>1 DEF Counted, WaitingIsOpen
  <2>3. q \in Recorded' =>
          q \in Recorded \/ (sender[q] # Nobody /\ sender'[q] = Nobody /\ refused' = refused)
    BY RecordedCases
  <2>4. attempts[q[1]] <= attempts'[q[1]]
    BY RequestCases
  <2>5. CASE sender'[q] \in {sender[q], Nobody} /\ refused' = refused
    BY <2>1, <2>2, <2>3, <2>4, <2>5
  <2>6. CASE \E r \in Request :
               /\ sender'[q] \in {sender[q], Nobody}
               /\ sender[r] # Nobody /\ sender'[r] = Nobody /\ refused' = refused \union {r}
    <3>1. PICK r \in Request :
            /\ sender'[q] \in {sender[q], Nobody}
            /\ sender[r] # Nobody /\ sender'[r] = Nobody /\ refused' = refused \union {r}
      BY <2>6
    <3>2. r \notin refused
      BY <3>1, <1>1 DEF WaitingIsOpen
    <3>3. refused' # refused
      BY <3>1, <3>2
    <3>4. QED
      BY <2>1, <2>2, <2>3, <2>4, <3>1, <3>3
  <2>7. CASE \E r \in Request :
               /\ r[2] = attempts[r[1]] + 1 /\ attempts'[r[1]] = r[2]
               /\ Recorded' = Recorded
               /\ \/ sender' = sender /\ refused' = refused \union {r}
                  \/ /\ sender'[r] # Nobody /\ refused' = refused
                     /\ q # r => sender'[q] = sender[q]
    <3>1. PICK r \in Request :
            /\ r[2] = attempts[r[1]] + 1 /\ attempts'[r[1]] = r[2]
            /\ Recorded' = Recorded
            /\ \/ sender' = sender /\ refused' = refused \union {r}
               \/ /\ sender'[r] # Nobody /\ refused' = refused
                  /\ q # r => sender'[q] = sender[q]
      BY <2>7
    <3>2. CASE q # r
      BY <2>1, <2>2, <2>4, <3>1, <3>2
    <3>3. CASE q = r
      <4>1. ~(q[2] <= attempts[q[1]])
        BY <2>1, <3>1, <3>3
      <4>2. sender[q] = Nobody /\ q \notin refused /\ q \notin Recorded
        BY <2>2, <4>1
      <4>3. q[2] <= attempts'[q[1]]
        BY <2>1, <3>1, <3>3
      <4>4. QED
        BY <3>1, <3>3, <4>2, <4>3
    <3>4. QED
      BY <3>2, <3>3
  <2>8. QED
    BY <2>5, <2>6, <2>7, RequestCases
<1>3. Counted' /\ WaitingIsOpen'
  BY <1>2 DEF Counted, WaitingIsOpen
<1>4. refused' \subseteq Request
  BY TypesStep DEF RouteInv, TypeOK
<1>5. QED
  BY <1>2, <1>3, <1>4 DEF RefusalLeavesNothing, Recorded

LEMMA RouteInvariant == Spec => []RouteInv
<1>1. Init => RouteInv
  <2> SUFFICES ASSUME Init PROVE RouteInv
    OBVIOUS
  <2>1. TypeOK
    BY EmptyBufferType, EmptySeq, BoundAssumption DEF Init, TypeOK, Stages
  <2>2. SendHasProducer /\ SendersSound /\ WaitingIsOpen /\ RefusalLeavesNothing
    BY DEF Init, SendHasProducer, SendersSound, WaitingIsOpen, RefusalLeavesNothing
  <2>3. RecordsPlaced
    BY ToSetOfEmpty, EmptyBufferType DEF Init, RecordsPlaced
  <2>4. Recorded = {}
    BY ToSetOfEmpty, EmptyBufferType DEF Init, Recorded, Logged, Buffered, InBuffer
  <2>5. Counted
    BY <2>4 DEF Init, Counted
  <2>6. QED
    BY <2>1, <2>2, <2>3, <2>5 DEF RouteInv
<1>2. RouteInv /\ [Next]_vars => RouteInv'
  BY TypesStep, SendersStep, RecordsStep, RequestsStep DEF RouteInv
<1>3. QED
  BY <1>1, <1>2, PTL DEF Spec

-----------------------------------------------------------------------------
(* A post leaves at most one record. *)

Distinct(s) == \A i, j \in 1..Len(s) : s[i] = s[j] => i = j

LEMMA DistinctAppend ==
  ASSUME NEW S, NEW s \in Seq(S), Distinct(s), NEW x \in S, x \notin ToSet(s)
  PROVE  Distinct(Append(s, x))
<1>1. /\ Len(Append(s, x)) = Len(s) + 1 /\ Len(s) \in Nat
      /\ \A i \in 1..Len(s) : Append(s, x)[i] = s[i] /\ s[i] # x
      /\ Append(s, x)[Len(s) + 1] = x
  BY AppendProperties, LenProperties DEF ToSet
<1>2. QED
  BY <1>1 DEF Distinct

LEMMA DistinctTail ==
  ASSUME NEW S, NEW s \in Seq(S), Distinct(s), s # << >>
  PROVE  Distinct(Tail(s)) /\ Head(s) \notin ToSet(Tail(s))
<1>1. /\ Len(Tail(s)) = Len(s) - 1 /\ Len(s) \in Nat \ {0} /\ Head(s) = s[1]
      /\ \A i \in 1..Len(Tail(s)) : Tail(s)[i] = s[i + 1]
      /\ DOMAIN Tail(s) = 1..Len(Tail(s))
  BY HeadTailProperties, EmptySeq, LenProperties
<1>2. QED
  BY <1>1 DEF Distinct, ToSet

\* No two places in the buffers and in the topic hold the record of one post.
RecordedOnce ==
  /\ \A p \in Partition : Distinct(log[p]) /\ \A s \in Server : Distinct(buffer[s][p])
  /\ \A p, q \in Partition : p # q => ToSet(log[p]) \intersect ToSet(log[q]) = {}
  /\ \A p, q \in Partition, s \in Server : ToSet(log[p]) \intersect ToSet(buffer[s][q]) = {}
  /\ \A p, q \in Partition, s, t \in Server :
        s # t \/ p # q => ToSet(buffer[s][p]) \intersect ToSet(buffer[t][q]) = {}

LEMMA OnceStep == RouteInv /\ RecordedOnce /\ [Next]_vars => RecordedOnce'
<1> SUFFICES ASSUME RouteInv, RecordedOnce, [Next]_vars PROVE RecordedOnce'
  OBVIOUS
<1>1. TypeOK
  BY DEF RouteInv
<1> DEFINE IsDistinct(q) == q \in Seq(Request) /\ Distinct(q)
<1>0. \A p \in Partition : IsDistinct(log[p]) /\ \A s \in Server : IsDistinct(buffer[s][p])
  BY <1>1 DEF TypeOK, RecordedOnce
<1>2. ASSUME NEW v \in Request, NEW q \in Partition, SendReturns(v, q) PROVE RecordedOnce'
  <2>1. /\ log' = log /\ sender[v] \in Server
        /\ buffer' = [buffer EXCEPT ![sender[v]][q] = Append(@, v)]
    BY <1>1, <1>2 DEF SendReturns, broker, TypeOK
  <2>2. v \notin Recorded
    BY <1>2 DEF SendReturns, RouteInv, WaitingIsOpen
  <2>3. \A p \in Partition : v \notin ToSet(log[p]) /\ \A s \in Server : v \notin ToSet(buffer[s][p])
    BY <2>2, InLogged, InBuffered DEF Recorded
  <2>4. /\ ToSet(Append(buffer[sender[v]][q], v)) = ToSet(buffer[sender[v]][q]) \union {v}
        /\ Distinct(Append(buffer[sender[v]][q], v))
    BY <1>1, <2>1, <2>3, AppendToSet, DistinctAppend DEF TypeOK, RecordedOnce
  <2>5. \A s \in Server, p \in Partition :
          \/ buffer'[s][p] = buffer[s][p]
          \/ s = sender[v] /\ p = q /\ buffer'[s][p] = Append(buffer[s][p], v)
    BY <1>1, <2>1 DEF TypeOK
  <2>6. \A s \in Server, p \in Partition :
          \/ ToSet(buffer'[s][p]) = ToSet(buffer[s][p])
          \/ s = sender[v] /\ p = q /\ ToSet(buffer'[s][p]) = ToSet(buffer[s][p]) \union {v}
    BY <2>4, <2>5
  <2>7. \A p \in Partition, s \in Server : Distinct(buffer'[s][p])
    <3> SUFFICES ASSUME NEW p \in Partition, NEW s \in Server PROVE Distinct(buffer'[s][p])
      OBVIOUS
    <3>1. CASE buffer'[s][p] = buffer[s][p]
      BY <1>0, <3>1
    <3>2. CASE buffer'[s][p] = Append(buffer[sender[v]][q], v)
      BY <2>4, <3>2
    <3>3. QED
      BY <2>5, <3>1, <3>2
  <2>8. \A p, q1 \in Partition, s \in Server : ToSet(log[p]) \intersect ToSet(buffer'[s][q1]) = {}
    BY <2>3, <2>6 DEF RecordedOnce
  <2>9. \A p, q1 \in Partition, s, t \in Server :
          s # t \/ p # q1 => ToSet(buffer'[s][p]) \intersect ToSet(buffer'[t][q1]) = {}
    BY <2>3, <2>6 DEF RecordedOnce
  <2>10. QED
    BY <2>1, <2>7, <2>8, <2>9 DEF RecordedOnce
<1>3. ASSUME NEW r \in Server, NEW q \in Partition, Deliver(r, q) PROVE RecordedOnce'
  <2> DEFINE h == Head(buffer[r][q])
  <2>1. /\ log' = [log EXCEPT ![q] = Append(@, h)]
        /\ buffer' = [buffer EXCEPT ![r][q] = Tail(@)]
        /\ buffer[r][q] # << >>
    BY <1>3 DEF Deliver
  <2>2. /\ h \in Request
        /\ ToSet(buffer[r][q]) = {h} \union ToSet(Tail(buffer[r][q]))
        /\ Distinct(Tail(buffer[r][q])) /\ h \notin ToSet(Tail(buffer[r][q]))
    BY <1>0, <1>1, <2>1, BufferTailType, DistinctTail
  <2>3. \A p \in Partition : h \notin ToSet(log[p])
    BY <2>2 DEF RecordedOnce
  <2>4. ToSet(Append(log[q], h)) = ToSet(log[q]) \union {h} /\ Distinct(Append(log[q], h))
    BY <1>1, <2>2, <2>3, AppendToSet, DistinctAppend DEF TypeOK, RecordedOnce
  <2> HIDE DEF h
  <2>5. \A s \in Server, p \in Partition :
          /\ h \notin ToSet(buffer'[s][p]) /\ Distinct(buffer'[s][p])
          /\ ToSet(buffer'[s][p]) \subseteq ToSet(buffer[s][p])
    <3> SUFFICES ASSUME NEW s \in Server, NEW p \in Partition
                 PROVE  /\ h \notin ToSet(buffer'[s][p]) /\ Distinct(buffer'[s][p])
                        /\ ToSet(buffer'[s][p]) \subseteq ToSet(buffer[s][p])
      OBVIOUS
    <3>1. CASE s = r /\ p = q
      BY <1>1, <2>1, <2>2, <3>1 DEF TypeOK
    <3>2. CASE s # r \/ p # q
      <4>1. buffer'[s][p] = buffer[s][p]
        BY <1>1, <2>1, <3>2 DEF TypeOK
      <4>2. h \notin ToSet(buffer[s][p]) /\ Distinct(buffer[s][p])
        BY <2>2, <3>2 DEF RecordedOnce
      <4>3. QED
        BY <4>1, <4>2
    <3>3. QED
      BY <3>1, <3>2
  <2>6. \A p \in Partition :
          \/ p # q /\ log'[p] = log[p]
          \/ p = q /\ log'[p] = Append(log[q], h)
    BY <1>1, <2>1 DEF TypeOK
  <2>7. \A p \in Partition :
          /\ Distinct(log'[p])
          /\ \/ p # q /\ ToSet(log'[p]) = ToSet(log[p])
             \/ p = q /\ ToSet(log'[p]) = ToSet(log[p]) \union {h}
    BY <2>4, <2>6 DEF RecordedOnce
  <2>8. \A p, q1 \in Partition : p # q1 => ToSet(log'[p]) \intersect ToSet(log'[q1]) = {}
    BY <2>3, <2>7 DEF RecordedOnce
  <2>9. \A p, q1 \in Partition, s \in Server : ToSet(log'[p]) \intersect ToSet(buffer'[s][q1]) = {}
    BY <2>5, <2>7 DEF RecordedOnce
  <2>10. \A p, q1 \in Partition, s, t \in Server :
          s # t \/ p # q1 => ToSet(buffer'[s][p]) \intersect ToSet(buffer'[t][q1]) = {}
    BY <2>5 DEF RecordedOnce
  <2>11. QED
    BY <2>5, <2>7, <2>8, <2>9, <2>10 DEF RecordedOnce
<1>4. ASSUME log' = log,
             \A s \in Server, p \in Partition :
               Distinct(buffer'[s][p]) /\ ToSet(buffer'[s][p]) \subseteq ToSet(buffer[s][p])
      PROVE  RecordedOnce'
  <2>1. \A p, q \in Partition, s \in Server : ToSet(log[p]) \intersect ToSet(buffer'[s][q]) = {}
    BY <1>4 DEF RecordedOnce
  <2>2. \A p, q \in Partition, s, t \in Server :
          s # t \/ p # q => ToSet(buffer'[s][p]) \intersect ToSet(buffer'[t][q]) = {}
    BY <1>4 DEF RecordedOnce
  <2>3. QED
    BY <1>4, <2>1, <2>2 DEF RecordedOnce
<1>5. ASSUME NEW r \in Server, NEW q \in Partition, Expire(r, q) PROVE RecordedOnce'
  <2>1. log' = log /\ buffer' = [buffer EXCEPT ![r][q] = Tail(@)] /\ buffer[r][q] # << >>
    BY <1>5 DEF Expire, broker
  <2>2. /\ ToSet(Tail(buffer[r][q])) \subseteq ToSet(buffer[r][q])
        /\ Distinct(Tail(buffer[r][q]))
    BY <1>0, <1>1, <2>1, BufferTailType, DistinctTail
  <2>3. \A s \in Server, p \in Partition :
          Distinct(buffer'[s][p]) /\ ToSet(buffer'[s][p]) \subseteq ToSet(buffer[s][p])
    BY <1>1, <2>1, <2>2 DEF TypeOK, RecordedOnce
  <2>4. QED
    BY <1>4, <2>1, <2>3
<1>6. ASSUME NEW r \in Server, Crash(r) PROVE RecordedOnce'
  <2>1. log' = log /\ buffer' = [buffer EXCEPT ![r] = EmptyBuffer]
    BY <1>6 DEF Crash, broker
  <2>2. \A p \in Partition : EmptyBuffer[p] = << >> /\ Distinct(EmptyBuffer[p])
    BY EmptySeq DEF EmptyBuffer, Distinct
  <2>3. \A s \in Server, p \in Partition :
          Distinct(buffer'[s][p]) /\ ToSet(buffer'[s][p]) \subseteq ToSet(buffer[s][p])
    BY <1>1, <2>1, <2>2, ToSetOfEmpty DEF TypeOK, RecordedOnce
  <2>4. QED
    BY <1>4, <2>1, <2>3
<1>7. CASE UNCHANGED << log, buffer >>
  BY <1>7 DEF RecordedOnce
<1>8. QED
  BY <1>2, <1>3, <1>5, <1>6, <1>7 DEF Next, vars, servers, broker, Lifespan, Post,
     GiveUp, SendRaises, BrokerFails, BrokerRecovers, Start, Drain, BeginFlush, Exit

-----------------------------------------------------------------------------
(* The theorems. *)

(* Every variable keeps its type. *)
THEOREM TypeCorrect == Spec => []TypeOK
<1>1. RouteInv => TypeOK
  BY DEF RouteInv
<1>2. QED
  BY <1>1, RouteInvariant, PTL

(* No request ever waits on a producer that was taken away. *)
THEOREM SendersHaveProducers == Spec => []SendHasProducer
<1>1. RouteInv => SendHasProducer
  BY DEF RouteInv
<1>2. QED
  BY <1>1, RouteInvariant, PTL

(* No post gets into the topic twice, whatever dies and is posted again:   *)
(* what OpenProject repeats is another post, with a record of its own.     *)
THEOREM PostsAreRecordedOnce == Spec => []RecordedOnce
<1>1. Init => RecordedOnce
  BY ToSetOfEmpty, EmptyBufferType, EmptySeq DEF Init, RecordedOnce, Distinct, EmptyBuffer
<1>2. QED
  BY <1>1, OnceStep, RouteInvariant, PTL DEF Spec

(* What was refused is in no buffer and not in the topic, whatever answers *)
(* get lost and whoever gives up waiting while the route is still at it:   *)
(* a request is refused or handed to the producer, once, and its number    *)
(* tells it from every other post of its webhook.                          *)
THEOREM RefusalsLeaveNothing == Spec => []RefusalLeavesNothing
<1>1. RouteInv => RefusalLeavesNothing
  BY DEF RouteInv
<1>2. QED
  BY <1>1, RouteInvariant, PTL

(* Nothing gets into a buffer or the topic that the route has not checked. *)
THEOREM RecordsAreChecked == Spec => []OnlyCheckedRecords
<1>1. RouteInv => OnlyCheckedRecords
  BY InLogged, InBuffered DEF RouteInv, RecordsPlaced, Placed, Sound, OnlyCheckedRecords
<1>2. QED
  BY <1>1, RouteInvariant, PTL

(* What the consumer reads as one event is in one partition, for all       *)
(* bodies: the two readings of a body agree wherever it matters.           *)
THEOREM EventsKeepTheirPartition == Spec => []SameEventSamePartition
<1>1. RouteInv => SameEventSamePartition
  <2> SUFFICES ASSUME RouteInv, NEW p \in Partition, NEW q \in Partition,
                      NEW v \in ToSet(log[p]), NEW w \in ToSet(log[q]),
                      IsEvent(BodyOf(v)), IsEvent(BodyOf(w)),
                      Transform(BodyOf(v)).id = Transform(BodyOf(w)).id
               PROVE  p = q
    BY DEF SameEventSamePartition
  <2>1. p \in PartitionsFor(BodyOf(v)) /\ q \in PartitionsFor(BodyOf(w))
    BY DEF RouteInv, RecordsPlaced, Placed
  <2>2. IdOf(BodyOf(v)) = IdOf(BodyOf(w))
    BY DEF Transform
  <2>3. /\ KeyOf(BodyOf(v)) = KeyOf(BodyOf(w))
        /\ KeyOf(BodyOf(v)) # Empty /\ KeyOf(BodyOf(w)) # Empty
    BY <2>2, KeyIsId
  <2>4. QED
    BY <2>1, <2>3 DEF PartitionsFor
<1>2. QED
  BY <1>1, RouteInvariant, PTL

\* w has a record, or had one that was dropped.
Kept(w) == w \in Logged \union Buffered \union dropped

(* A record does not vanish: it moves from its buffer into the topic, or   *)
(* is counted as dropped.  An orderly end drops nothing, since it flushes. *)
LEMMA KeptStays ==
  ASSUME TypeOK, [Next]_vars, NEW w, Kept(w)
  PROVE  Kept(w)'
<1> DEFINE Stored == \/ \E p \in Partition : w \in ToSet(log'[p])
                     \/ \E s \in Server, p \in Partition : w \in ToSet(buffer'[s][p])
                     \/ w \in dropped'
<1>1. Stored => Kept(w)'
  BY DEF Kept, Logged, Buffered, InBuffer
<1>2. \/ \E p \in Partition : w \in ToSet(log[p])
      \/ \E s \in Server, p \in Partition : w \in ToSet(buffer[s][p])
      \/ w \in dropped
  BY InLogged, InBuffered DEF Kept
<1>3. ASSUME NEW v \in Request, NEW q \in Partition, SendReturns(v, q)
      PROVE  Stored
  <2>1. /\ log' = log /\ dropped' = dropped /\ sender[v] \in Server
        /\ buffer' = [buffer EXCEPT ![sender[v]][q] = Append(@, v)]
    BY <1>3 DEF SendReturns, broker, TypeOK
  <2>2. ToSet(Append(buffer[sender[v]][q], v)) = ToSet(buffer[sender[v]][q]) \union {v}
    BY <2>1, AppendToSet DEF TypeOK
  <2>3. QED
    BY <1>2, <2>1, <2>2 DEF TypeOK
<1>4. ASSUME NEW r \in Server, NEW q \in Partition, Deliver(r, q)
      PROVE  Stored
  <2>1. /\ log' = [log EXCEPT ![q] = Append(@, Head(buffer[r][q]))]
        /\ buffer' = [buffer EXCEPT ![r][q] = Tail(@)]
        /\ buffer[r][q] # << >> /\ dropped' = dropped
    BY <1>4 DEF Deliver
  <2>2. /\ Head(buffer[r][q]) \in Request
        /\ ToSet(buffer[r][q]) = {Head(buffer[r][q])} \union ToSet(Tail(buffer[r][q]))
    BY <2>1, BufferTailType
  <2>3. ToSet(Append(log[q], Head(buffer[r][q]))) = ToSet(log[q]) \union {Head(buffer[r][q])}
    BY <2>2, AppendToSet DEF TypeOK
  <2>4. QED
    BY <1>2, <2>1, <2>2, <2>3 DEF TypeOK
<1>5. ASSUME NEW r \in Server, NEW q \in Partition, Expire(r, q)
      PROVE  Stored
  <2>1. /\ log' = log /\ buffer' = [buffer EXCEPT ![r][q] = Tail(@)]
        /\ buffer[r][q] # << >> /\ dropped' = dropped \union {Head(buffer[r][q])}
    BY <1>5 DEF Expire, broker
  <2>2. ToSet(buffer[r][q]) = {Head(buffer[r][q])} \union ToSet(Tail(buffer[r][q]))
    BY <2>1, BufferTailType
  <2>3. QED
    BY <1>2, <2>1, <2>2 DEF TypeOK
<1>6. ASSUME NEW r \in Server, Crash(r)
      PROVE  Stored
  <2>1. /\ log' = log /\ buffer' = [buffer EXCEPT ![r] = EmptyBuffer]
        /\ dropped' = dropped \union InBuffer(r)
    BY <1>6 DEF Crash, broker
  <2>2. \A p \in Partition : ToSet(buffer[r][p]) \subseteq dropped'
    BY <2>1 DEF InBuffer
  <2>3. QED
    BY <1>2, <2>1, <2>2 DEF TypeOK
<1>7. CASE UNCHANGED << log, buffer, dropped >>
  BY <1>1, <1>2, <1>7
<1>8. QED
  BY <1>1, <1>3, <1>4, <1>5, <1>6, <1>7 DEF Next, vars, servers, broker, Lifespan, Post,
     GiveUp, SendRaises, BrokerFails, BrokerRecovers, Start, Drain, BeginFlush, Exit

(* What OpenProject was told is accepted is in the topic, in the buffer of *)
(* a process, or was dropped by a crash or an outage.                      *)
THEOREM AcceptedIsKept == Spec => []AcceptedKept
<1>1. Init => AcceptedKept
  BY DEF Init, AcceptedKept, Accepted, None
<1>2. RouteInv /\ AcceptedKept /\ [Next]_vars => AcceptedKept'
  <2> SUFFICES ASSUME TypeOK, AcceptedKept, [Next]_vars,
                      NEW w \in Webhook, answer'[w] = 202
               PROVE  <<w, attempts'[w]>> \in Logged' \union Buffered' \union dropped'
    BY DEF RouteInv, AcceptedKept, Accepted, LastOf
  <2>1. CASE answer[w] = 202
    <3>1. attempts'[w] = attempts[w]
      <4>1. ASSUME NEW s \in Server, NEW v \in Webhook, NEW b \in Body, Post(s, v, b)
            PROVE  attempts'[w] = attempts[w]
        BY <2>1, <4>1 DEF Post, MayPost, TypeOK
      <4>2. QED
        BY <4>1 DEF Next, vars, client, Lifespan, GiveUp, SendReturns, SendRaises, Deliver, Expire,
           BrokerFails, BrokerRecovers, Start, Drain, BeginFlush, Exit, Crash
    <3>2. PICK q : q = <<w, attempts[w]>>
      OBVIOUS
    <3>3. Kept(q)
      BY <2>1, <3>2 DEF AcceptedKept, Accepted, Kept, LastOf
    <3>4. Kept(q)'
      BY <3>3, KeptStays
    <3>5. QED
      BY <3>1, <3>2, <3>4 DEF Kept
  <2>2. CASE answer[w] # 202
    <3>1. PICK q \in Request, p \in Partition : SendReturns(q, p) /\ q = <<w, attempts[w]>>
      <4>1. ASSUME NEW s \in Server, NEW v \in Webhook, NEW b \in Body, Post(s, v, b)
            PROVE  FALSE
        BY <2>2, <4>1 DEF Post, Refusal, TypeOK, Waiting
      <4>2. ASSUME NEW q \in Request, SendRaises(q) PROVE FALSE
        BY <2>2, <4>2 DEF SendRaises, Hears, TypeOK
      <4>3. ASSUME NEW s \in Server, Crash(s) PROVE FALSE
        BY <2>2, <4>3 DEF Crash, TypeOK, NoAnswer
      <4>4. ASSUME NEW v \in Webhook, GiveUp(v) PROVE FALSE
        BY <2>2, <4>4 DEF GiveUp, TypeOK, NoAnswer
      <4>5. answer' # answer
        BY <2>2
      <4>6. PICK q \in Request, p \in Partition : SendReturns(q, p)
        BY <4>1, <4>2, <4>3, <4>4, <4>5 DEF Next, vars, client, Lifespan, Start, Drain,
           BeginFlush, Exit, Deliver, Expire, BrokerFails, BrokerRecovers
      <4>7. q[1] = w /\ q = LastOf(w)
        BY <2>2, <4>6, RequestParts DEF SendReturns, Hears, TypeOK
      <4>8. QED
        BY <4>6, <4>7 DEF LastOf
    <3>2. /\ sender[q] \in Server /\ attempts' = attempts
          /\ buffer' = [buffer EXCEPT ![sender[q]][p] = Append(@, q)]
      BY <3>1 DEF SendReturns, TypeOK
    <3>3. ToSet(Append(buffer[sender[q]][p], q)) = ToSet(buffer[sender[q]][p]) \union {q}
      BY <3>2, AppendToSet DEF TypeOK
    <3>4. buffer'[sender[q]][p] = Append(buffer[sender[q]][p], q)
      BY <3>2 DEF TypeOK
    <3>5. q \in ToSet(buffer'[sender[q]][p])
      BY <3>3, <3>4
    <3>6. q \in Buffered'
      BY <3>2, <3>5 DEF Buffered, InBuffer
    <3>7. q = <<w, attempts'[w]>>
      BY <3>1, <3>2
    <3>8. QED
      BY <3>6, <3>7
  <2>3. QED
    BY <2>1, <2>2
<1>3. QED
  BY <1>1, <1>2, RouteInvariant, PTL DEF Spec
=============================================================================

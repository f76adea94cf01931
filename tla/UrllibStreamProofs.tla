-------------------------- MODULE UrllibStreamProofs --------------------------
(* Theorems about UrllibStream, for every size of the queue and of a read.   *)
EXTENDS UrllibStream, TLAPS

(* While the consumer listens, what lies between it and the thread continues *)
(* the body where the consumer stands, up to what the thread has read: the    *)
(* chunks of the queue, then the item being put.                             *)

\* Where the body stands before place i of the queue.
Before(i) == IF i = 1 THEN yielded ELSE queue[i - 1].upto

\* Everything that was read lies before place i.
AllRead(i) ==
  Before(i) = read /\ (i > 1 => queue[i - 1].kind = "chunk")

\* The thread has read the body to its end.
Complete == wire = "closed" /\ sent = read

\* The thread reads no more.
ReadingOver == reader \in {"closing", "over"} \/ (reader = "putting" /\ item.kind = "end")

QueueInv ==
  \A i \in 1..Len(queue) :
    /\ queue[i].kind = "chunk" =>
         /\ queue[i].from = Before(i) + 1 /\ queue[i].upto <= read
         /\ i > 1 => queue[i - 1].kind = "chunk"
    /\ queue[i].kind = "error" => AllRead(i) /\ ReadingOver
    /\ queue[i].kind = "end" =>
         /\ i = Len(queue) /\ reader = "over"
         /\ (AllRead(i) /\ Complete) \/ (i > 1 /\ queue[i - 1].kind = "error")

\* What the thread goes on from, or is about to put.
ReaderInv ==
  LET next == Len(queue) + 1
  IN /\ reader \in {"opening", "looping", "reading"} => AllRead(next)
     /\ reader = "putting" /\ item.kind = "error" => AllRead(next)
     /\ reader = "putting" /\ item.kind = "chunk" =>
          /\ item.from = Before(next) + 1 /\ item.upto = read
          /\ next > 1 => queue[next - 1].kind = "chunk"
     /\ reader = "closing" \/ (reader = "putting" /\ item.kind = "end") =>
          (AllRead(next) /\ Complete) \/ (next > 1 /\ queue[next - 1].kind = "error")
     /\ response = "closed" => ReadingOver /\ reader # "closing"

ConsumerInv ==
  /\ stop <=> consumer.at \notin Listening
  /\ consumer.how # "none" <=> consumer.at \notin Listening
  /\ consumer.how = "ended" => wire = "closed" /\ yielded = sent
  /\ consumer.how = "raised" => yielded = read /\ ReadingOver

Inv == TypeOK /\ ConsumerInv /\ (~stop => QueueInv /\ ReaderInv)
-----------------------------------------------------------------------------
(* What the queue holds. *)
LEMMA QueueItems ==
  ASSUME queue \in Seq(Items), NEW i \in 1..Len(queue)
  PROVE  /\ queue[i] \in Items
         /\ queue[i].from \in Nat /\ queue[i].upto \in Nat
         /\ queue[i].kind \in {"chunk", "error", "end"}
<1>1. queue[i] \in Items
  OBVIOUS
<1>2. QED
  BY <1>1 DEF Items

LEMMA InitInv == Init => Inv
<1> SUFFICES ASSUME Init PROVE Inv
  OBVIOUS
<1>1. TypeOK
  <2>1. item \in Items /\ queue \in Seq(Items) /\ Len(queue) <= QueueMax
    BY QueueAssumption DEF Init, Finish, Items
  <2>2. consumer \in [at : Listening \cup {"closing", "joining", "over"},
                      how : Outcomes \cup {"none"}]
    BY DEF Init, Listening
  <2>3. read = 0 /\ sent = 0 /\ yielded = 0
    BY DEF Init
  <2>4. read \in 0..sent /\ yielded \in 0..read /\ sent \in Nat
    BY <2>3
  <2>5. stop \in BOOLEAN /\ reader = "opening" /\ response = "none" /\ wire = "open"
    BY DEF Init
  <2>6. QED
    BY <2>1, <2>2, <2>4, <2>5 DEF TypeOK
<1>2. ConsumerInv
  BY DEF Init, ConsumerInv, Listening
<1>3. QueueInv
  BY DEF Init, QueueInv
<1>4. ReaderInv
  BY DEF Init, ReaderInv, AllRead, Before
<1>5. QED
  BY <1>1, <1>2, <1>3, <1>4 DEF Inv

(* A step of the thread that leaves the queue alone. *)
LEMMA ReaderKeepsInv ==
  ASSUME Inv, OpenFails \/ Open \/ Loop \/ ReadFails \/ CloseResponse
  PROVE  Inv'
<1> USE DEF Inv, TypeOK, ConsumerInv, QueueInv, ReaderInv, AllRead, Before,
            ReadingOver, Complete, Listening, Outcomes, Items, Error, Finish, Put
<1>1. CASE OpenFails
  BY <1>1 DEF OpenFails
<1>2. CASE Open
  BY <1>2 DEF Open
<1>3. CASE Loop
  BY <1>3 DEF Loop
<1>4. CASE ReadFails
  BY <1>4 DEF ReadFails
<1>5. CASE CloseResponse
  BY <1>5 DEF CloseResponse
<1>6. QED
  BY <1>1, <1>2, <1>3, <1>4, <1>5

LEMMA ReadKeepsInv == ASSUME Inv, Read PROVE Inv'
<1> USE DEF Inv, TypeOK, ConsumerInv, QueueInv, ReaderInv, AllRead, Before,
            ReadingOver, Complete, Listening, Outcomes, Items, Chunk, Put
<1>1. CASE reader' = "closing"
  BY <1>1 DEF Read
<1>2. CASE reader' = "putting"
  <2>1. /\ read < read' /\ read' <= sent /\ read' \in Nat /\ read \in Nat
        /\ item' = [kind |-> "chunk", from |-> read + 1, upto |-> read']
    BY <1>2, ReadAssumption DEF Read
  <2>2. TypeOK'
    BY <1>2, <2>1 DEF Read
  <2>3. ConsumerInv'
    BY <1>2, <2>1 DEF Read
  <2>4. ASSUME ~stop' PROVE QueueInv'
    <3>1. UNCHANGED <<queue, yielded, stop>> /\ reader = "reading" /\ QueueInv
      BY <1>2, <2>4 DEF Read
    <3>2. ASSUME NEW i \in 1..Len(queue)
          PROVE  /\ queue[i].kind = "chunk" /\ queue[i].upto <= read
                 /\ queue[i].from = Before(i) + 1
                 /\ i > 1 => queue[i - 1].kind = "chunk"
      <4>1. queue[i].kind \in {"chunk", "error", "end"}
        BY QueueItems
      <4>2. queue[i].kind = "chunk"
        BY <3>1, <4>1
      <4>3. QED
        BY <3>1, <4>2
    <3>3. ASSUME NEW i \in 1..Len(queue) PROVE queue[i].upto <= read'
      <4>1. queue[i].upto \in Nat
        BY QueueItems
      <4>2. QED
        BY <3>2, <4>1, <2>1
    <3>4. QED
      BY <3>1, <3>2, <3>3
  <2>5. ASSUME ~stop' PROVE ReaderInv'
    BY <1>2, <2>1, <2>5 DEF Read
  <2>6. QED
    BY <2>2, <2>3, <2>4, <2>5
<1>3. QED
  BY <1>1, <1>2 DEF Read

LEMMA EnqueueKeepsInv == ASSUME Inv, Enqueue PROVE Inv'
<1>1. /\ queue \in Seq(Items) /\ item \in Items /\ queue' = Append(queue, item)
      /\ Len(queue) < QueueMax /\ reader = "putting" /\ PutReturns
      /\ UNCHANGED <<item, read, consumer, yielded, stop, response, wire, sent>>
  BY DEF Enqueue, Inv, TypeOK
<1>2. /\ Len(queue) \in Nat /\ Len(queue') = Len(queue) + 1
      /\ queue'[Len(queue) + 1] = item
      /\ queue' \in Seq(Items)
  BY <1>1
<1>3. \A i \in 1..Len(queue) : queue'[i] = queue[i]
  BY <1>1
<1>4. item.kind \in {"chunk", "error", "end"} /\ item.from \in Nat /\ item.upto \in Nat
  BY <1>1 DEF Items
<1>5. TypeOK'
  <2>1. reader' \in {"looping", "closing", "over"}
    BY <1>1, <1>4 DEF PutReturns
  <2>2. Len(queue') <= QueueMax
    BY <1>1, <1>2, QueueAssumption
  <2>3. QED
    BY <1>1, <1>2, <2>1, <2>2 DEF Inv, TypeOK
<1>6. ReadingOver => ReadingOver'
  BY <1>1, <1>4 DEF ReadingOver, PutReturns
<1>7. ConsumerInv'
  BY <1>1, <1>6 DEF Inv, ConsumerInv
<1>8. ASSUME ~stop' PROVE QueueInv' /\ ReaderInv'
  <2>1. QueueInv /\ ReaderInv
    BY <1>1, <1>8 DEF Inv
  <2>2. \A i \in 1..(Len(queue) + 1) : Before(i)' = Before(i)
    <3> SUFFICES ASSUME NEW i \in 1..(Len(queue) + 1) PROVE Before(i)' = Before(i)
      OBVIOUS
    <3>1. CASE i = 1
      BY <1>1, <3>1 DEF Before
    <3>2. CASE i # 1
      <4>1. i - 1 \in 1..Len(queue)
        BY <1>2, <3>2
      <4>2. QED
        BY <1>1, <1>3, <3>2, <4>1 DEF Before
    <3>3. QED
      BY <3>1, <3>2
  <2>3. \A i \in 1..(Len(queue) + 1) : AllRead(i) => AllRead(i)'
    <3> SUFFICES ASSUME NEW i \in 1..(Len(queue) + 1), AllRead(i) PROVE AllRead(i)'
      OBVIOUS
    <3>1. i > 1 => i - 1 \in 1..Len(queue)
      BY <1>2
    <3>2. QED
      BY <1>1, <1>3, <2>2, <3>1 DEF AllRead
  <2>4. QueueInv'
    <3> SUFFICES ASSUME NEW i \in 1..(Len(queue) + 1)
                 PROVE  /\ queue'[i].kind = "chunk" =>
                             /\ queue'[i].from = Before(i)' + 1 /\ queue'[i].upto <= read'
                             /\ i > 1 => queue'[i - 1].kind = "chunk"
                        /\ queue'[i].kind = "error" => AllRead(i)' /\ ReadingOver'
                        /\ queue'[i].kind = "end" =>
                             /\ i = Len(queue') /\ reader' = "over"
                             /\ \/ AllRead(i)' /\ Complete'
                                \/ i > 1 /\ queue'[i - 1].kind = "error"
      BY <1>2 DEF QueueInv
    <3>1. CASE i = Len(queue) + 1
      BY <1>1, <1>2, <1>3, <1>4, <2>1, <2>2, <2>3, <3>1
         DEF ReaderInv, ReadingOver, Complete, PutReturns, Inv, TypeOK
    <3>2. CASE i \in 1..Len(queue)
      <4>1. i > 1 => i - 1 \in 1..Len(queue)
        BY <1>2, <3>2
      <4>2. queue[i].kind # "end"
        BY <1>1, <2>1, <3>2 DEF QueueInv
      <4>3. QED
        BY <1>1, <1>3, <1>6, <2>1, <2>2, <2>3, <3>2, <4>1, <4>2 DEF QueueInv
    <3>3. QED
      BY <1>2, <3>1, <3>2
  <2>5. ReaderInv'
    <3>1. PICK n \in Nat : n = Len(queue) + 2
      BY <1>2
    <3>2. queue'[n - 1] = item /\ n > 1 /\ Len(queue') + 1 = n
      BY <1>1, <1>2, <3>1
    <3>3. Before(n)' = item.upto
      BY <3>1, <3>2 DEF Before
    <3>4. item.kind = "chunk" => AllRead(n)'
      BY <1>1, <2>1, <3>2, <3>3 DEF ReaderInv, AllRead
    <3>5. response' = "closed" => ReadingOver' /\ reader' # "closing"
      BY <1>1, <1>4, <2>1 DEF ReaderInv, ReadingOver, PutReturns
    <3>6. reader' \in {"looping", "closing", "over"}
      BY <1>1, <1>4 DEF PutReturns
    <3>7. reader' = "looping" => AllRead(n)'
      BY <1>1, <1>4, <3>4 DEF PutReturns
    <3>8. reader' = "closing" => queue'[n - 1].kind = "error"
      BY <1>1, <1>4, <3>2 DEF PutReturns
    <3>9. QED
      BY <3>2, <3>5, <3>6, <3>7, <3>8 DEF ReaderInv
  <2>6. QED
    BY <2>4, <2>5
<1>9. QED
  BY <1>5, <1>7, <1>8 DEF Inv

(* A put given up: the consumer has left, and nothing is said of the queue. *)
LEMMA GivesUpKeepsInv == ASSUME Inv, GivesUp PROVE Inv'
<1>1. item.kind \in {"chunk", "error", "end"}
  BY DEF Inv, TypeOK, Items
<1>2. TypeOK'
  BY <1>1 DEF Inv, TypeOK, GivesUp, PutReturns
<1>3. ConsumerInv'
  BY <1>1 DEF Inv, ConsumerInv, GivesUp, PutReturns, ReadingOver
<1>4. QED
  BY <1>2, <1>3 DEF Inv, GivesUp

(* The consumer takes the head of the queue. *)
LEMMA GetKeepsInv ==
  ASSUME Inv, Get
  PROVE  Inv' /\ (yielded' # yielded => Head(queue).from = yielded + 1)
<1>1. /\ queue \in Seq(Items) /\ queue # <<>> /\ queue' = Tail(queue)
      /\ consumer.at = "getting" /\ ~stop /\ QueueInv /\ ReaderInv
      /\ UNCHANGED <<reader, item, read, response, wire, sent>>
  BY DEF Get, Inv, TypeOK, ConsumerInv, Listening
<1>2. /\ Len(queue) \in Nat \ {0} /\ Len(queue') = Len(queue) - 1
      /\ queue' \in Seq(Items) /\ Head(queue) = queue[1]
  BY <1>1
<1>3. \A i \in 1..Len(queue') : queue'[i] = queue[i + 1]
  BY <1>1
<1>4. /\ queue[1].kind \in {"chunk", "error", "end"}
      /\ queue[1].from \in Nat /\ queue[1].upto \in Nat
  BY <1>1, <1>2, QueueItems
<1>5. queue' \in Seq(Items) /\ Len(queue') <= QueueMax
  BY <1>1, <1>2, QueueAssumption DEF Inv, TypeOK
<1>6. consumer' \in [at : Listening \cup {"closing", "joining", "over"},
                    how : Outcomes \cup {"none"}]
  <2>1. CASE queue[1].kind = "chunk"
    <3>1. consumer' = [consumer EXCEPT !.at = "consuming"]
      BY <1>2, <2>1 DEF Get
    <3>2. QED
      BY <3>1 DEF Inv, TypeOK, Listening
  <2>2. CASE queue[1].kind # "chunk"
    <3>1. Leave("raised") \/ Leave("ended")
      BY <1>2, <1>4, <2>2 DEF Get
    <3>2. QED
      BY <3>1 DEF Leave, Outcomes
  <2>3. QED
    BY <2>1, <2>2
<1>7. CASE queue[1].kind = "chunk"
  <2>1. /\ consumer' = [consumer EXCEPT !.at = "consuming"] /\ UNCHANGED stop
        /\ yielded' = queue[1].upto
    BY <1>2, <1>7 DEF Get
  <2>2. queue[1].from = yielded + 1 /\ queue[1].upto <= read
    <3>1. 1 \in 1..Len(queue) /\ Before(1) = yielded
      BY <1>2 DEF Before
    <3>2. QED
      BY <1>1, <1>7, <3>1 DEF QueueInv
  <2>3. TypeOK'
    <3>1. yielded' \in 0..read'
      BY <1>1, <1>4, <2>1, <2>2 DEF Inv, TypeOK
    <3>2. QED
      BY <1>1, <1>5, <1>6, <2>1, <3>1 DEF Inv, TypeOK
  <2>4. ConsumerInv'
    BY <1>1, <2>1 DEF Inv, TypeOK, ConsumerInv, Listening
  <2>5. \A i \in 1..(Len(queue') + 1) : Before(i)' = Before(i + 1)
    <3> SUFFICES ASSUME NEW i \in 1..(Len(queue') + 1) PROVE Before(i)' = Before(i + 1)
      OBVIOUS
    <3>1. CASE i = 1
      BY <2>1, <3>1 DEF Before
    <3>2. CASE i # 1
      <4>1. i - 1 \in 1..Len(queue') /\ (i - 1) + 1 = i /\ (i + 1) - 1 = i /\ i + 1 # 1
        BY <1>2, <3>2
      <4>2. queue'[i - 1] = queue[i]
        BY <1>3, <4>1
      <4>3. QED
        BY <3>2, <4>1, <4>2 DEF Before
    <3>3. QED
      BY <3>1, <3>2
  <2>6. \A i \in 1..(Len(queue') + 1) : i > 1 => queue'[i - 1] = queue[i]
    <3> SUFFICES ASSUME NEW i \in 1..(Len(queue') + 1), i > 1
                 PROVE  queue'[i - 1] = queue[i]
      OBVIOUS
    <3>1. i - 1 \in 1..Len(queue') /\ (i - 1) + 1 = i
      BY <1>2
    <3>2. QED
      BY <1>3, <3>1
  <2>7. \A i \in 1..(Len(queue') + 1) : AllRead(i + 1) => AllRead(i)'
    <3> SUFFICES ASSUME NEW i \in 1..(Len(queue') + 1), AllRead(i + 1) PROVE AllRead(i)'
      OBVIOUS
    <3>1. (i + 1) - 1 = i /\ i + 1 > 1
      BY <1>2
    <3>2. QED
      BY <1>1, <2>5, <2>6, <3>1 DEF AllRead
  <2>8. QueueInv'
    <3> SUFFICES ASSUME NEW i \in 1..Len(queue')
                 PROVE  /\ queue'[i].kind = "chunk" =>
                             /\ queue'[i].from = Before(i)' + 1 /\ queue'[i].upto <= read'
                             /\ i > 1 => queue'[i - 1].kind = "chunk"
                        /\ queue'[i].kind = "error" => AllRead(i)' /\ ReadingOver'
                        /\ queue'[i].kind = "end" =>
                             /\ i = Len(queue') /\ reader' = "over"
                             /\ \/ AllRead(i)' /\ Complete'
                                \/ i > 1 /\ queue'[i - 1].kind = "error"
      BY DEF QueueInv
    <3>1. PICK k \in 1..Len(queue) : k = i + 1
      BY <1>2
    <3>2. k - 1 = i /\ k > 1 /\ i \in 1..(Len(queue') + 1)
      BY <1>2, <3>1
    <3>3. queue'[i] = queue[k] /\ Before(i)' = Before(k) /\ (AllRead(k) => AllRead(i)')
      BY <1>3, <2>5, <2>7, <3>1, <3>2
    <3>4. i > 1 => queue'[i - 1] = queue[k - 1]
      BY <2>6, <3>2
    <3>5. i = 1 => queue[k - 1].kind # "error"
      BY <1>7, <3>2
    <3>6. k = Len(queue) => i = Len(queue')
      BY <1>2, <3>1
    <3>7. (ReadingOver => ReadingOver') /\ (Complete => Complete')
      BY <1>1 DEF ReadingOver, Complete
    <3>8. QED
      BY <1>1, <3>2, <3>3, <3>4, <3>5, <3>6, <3>7 DEF QueueInv
  <2>9. ReaderInv'
    <3>1. PICK n \in 1..(Len(queue') + 1) : n = Len(queue') + 1
      BY <1>2
    <3>2. n + 1 = Len(queue) + 1 /\ (n + 1) - 1 = n /\ n + 1 > 1
      BY <1>2, <3>1
    <3>3. Before(n)' = Before(n + 1) /\ (AllRead(n + 1) => AllRead(n)')
      BY <2>5, <2>7
    <3>4. n > 1 => queue'[n - 1] = queue[n]
      BY <2>6
    <3>5. n = 1 => queue[n].kind = "chunk"
      BY <1>7
    <3>6. (ReadingOver => ReadingOver') /\ (Complete => Complete')
      BY <1>1 DEF ReadingOver, Complete
    <3>7. QED
      BY <1>1, <3>1, <3>2, <3>3, <3>4, <3>5, <3>6 DEF ReaderInv
  <2>10. QED
    BY <1>2, <2>2, <2>3, <2>4, <2>8, <2>9 DEF Inv
<1>8. CASE queue[1].kind # "chunk"
  <2>1. PICK how \in {"raised", "ended"} :
          /\ Leave(how) /\ UNCHANGED yielded
          /\ how = "raised" <=> queue[1].kind = "error"
    BY <1>2, <1>4, <1>8 DEF Get
  <2>2. TypeOK'
    BY <1>1, <1>5, <1>6, <2>1 DEF Leave, Inv, TypeOK
  <2> 1 \in 1..Len(queue) /\ (AllRead(1) => yielded = read)
    BY <1>2 DEF AllRead, Before
  <2>3. queue[1].kind = "error" => yielded = read /\ ReadingOver
    BY <1>1 DEF QueueInv
  <2>4. queue[1].kind = "end" => yielded = read /\ Complete
    BY <1>1 DEF QueueInv
  <2>5. ConsumerInv'
    BY <1>1, <1>4, <1>8, <2>1, <2>3, <2>4 DEF ConsumerInv, Leave, Listening, ReadingOver, Complete
  <2>6. stop' /\ yielded' = yielded
    BY <2>1 DEF Leave
  <2>7. QED
    BY <2>2, <2>5, <2>6 DEF Inv
<1>9. QED
  BY <1>7, <1>8

(* The other steps of the consumer. *)
LEMMA ConsumerKeepsInv ==
  ASSUME Inv, Resume \/ Abandon \/ CloseByConsumer \/ Join
  PROVE  Inv'
<1>1. CASE Resume
  <2>1. TypeOK'
    BY <1>1 DEF Resume, Inv, TypeOK, Listening
  <2>2. ConsumerInv'
    BY <1>1 DEF Resume, Inv, TypeOK, ConsumerInv, Listening, ReadingOver
  <2>3. ASSUME ~stop' PROVE QueueInv' /\ ReaderInv'
    BY <1>1, <2>3 DEF Resume, Inv, QueueInv, ReaderInv, AllRead, Before, Complete, ReadingOver
  <2>4. QED
    BY <2>1, <2>2, <2>3 DEF Inv
<1>2. CASE Abandon
  <2>1. TypeOK'
    BY <1>2 DEF Abandon, Leave, Inv, TypeOK, Outcomes
  <2>2. ConsumerInv'
    BY <1>2 DEF Abandon, Leave, ConsumerInv, Listening
  <2>3. QED
    BY <1>2, <2>1, <2>2 DEF Inv, Abandon, Leave
<1>3. CASE CloseByConsumer
  <2>1. stop /\ UNCHANGED stop
    BY <1>3 DEF CloseByConsumer, Inv, ConsumerInv, Listening
  <2>2. TypeOK'
    BY <1>3 DEF CloseByConsumer, Inv, TypeOK
  <2>3. ConsumerInv'
    BY <1>3 DEF CloseByConsumer, Inv, TypeOK, ConsumerInv, Listening, ReadingOver
  <2>4. QED
    BY <2>1, <2>2, <2>3 DEF Inv
<1>4. CASE Join
  <2>1. stop /\ UNCHANGED stop
    BY <1>4 DEF Join, Inv, ConsumerInv, Listening
  <2>2. TypeOK'
    BY <1>4 DEF Join, Inv, TypeOK
  <2>3. ConsumerInv'
    BY <1>4 DEF Join, Inv, TypeOK, ConsumerInv, Listening, ReadingOver
  <2>4. QED
    BY <2>1, <2>2, <2>3 DEF Inv
<1>5. QED
  BY <1>1, <1>2, <1>3, <1>4

(* The server sends or leaves only while the body is not complete. *)
LEMMA ServerKeepsInv ==
  ASSUME Inv, ServerSends \/ ServerLeaves
  PROVE  Inv'
<1>1. /\ wire = "open" /\ sent \in Nat /\ read \in 0..sent
      /\ sent' \in {sent, sent + 1} /\ wire' \in {"open", "closed", "broken"}
      /\ UNCHANGED <<reader, item, read, queue, consumer, yielded, stop, response>>
  BY DEF ServerSends, ServerLeaves, Inv, TypeOK
<1>2. read' \in 0..sent' /\ sent' \in Nat
  BY <1>1
<1>3. TypeOK'
  BY <1>1, <1>2 DEF Inv, TypeOK
<1>4. ConsumerInv'
  BY <1>1 DEF Inv, ConsumerInv, ReadingOver
<1>5. ASSUME ~stop' PROVE QueueInv' /\ ReaderInv'
  BY <1>1, <1>5 DEF Inv, QueueInv, ReaderInv, AllRead, Before, Complete, ReadingOver
<1>6. QED
  BY <1>3, <1>4, <1>5 DEF Inv

LEMMA StutterKeepsInv == ASSUME Inv, UNCHANGED vars PROVE Inv'
BY DEF vars, Inv, TypeOK, ConsumerInv, QueueInv, ReaderInv, AllRead, Before,
       Complete, ReadingOver

THEOREM InvHolds == Spec => []Inv
<1>1. Inv /\ [Next]_vars => Inv'
  BY ReaderKeepsInv, ReadKeepsInv, EnqueueKeepsInv, GivesUpKeepsInv, GetKeepsInv,
     ConsumerKeepsInv, ServerKeepsInv, StutterKeepsInv DEF Next, Reader, Consumer
<1>2. QED
  BY InitInv, <1>1, PTL DEF Spec
-----------------------------------------------------------------------------
(* Every variable of a stream stays within its type: the queue within its    *)
(* bound, and neither side ahead of the one it gets its data from.           *)
THEOREM StreamTypeCorrect == Spec => []TypeOK
<1>1. Inv => TypeOK
  BY DEF Inv
<1>2. QED
  BY InvHolds, <1>1, PTL

(* The generator that ends without an exception has yielded the whole body.  *)
THEOREM EndIsHonest == Spec => []EndIsTheEnd
<1>1. Inv => EndIsTheEnd
  BY DEF Inv, ConsumerInv, EndIsTheEnd
<1>2. QED
  BY InvHolds, <1>1, PTL

(* The exception of the thread overtakes no chunk. *)
THEOREM ErrorOvertakesNothing == Spec => []ErrorComesLast
<1>1. Inv => ErrorComesLast
  BY DEF Inv, ConsumerInv, ErrorComesLast
<1>2. QED
  BY InvHolds, <1>1, PTL

(* The generator yields the body in order and without a gap. *)
THEOREM BodyHasNoGap == Spec => NoGap
<1>1. Inv /\ [Next]_vars => [yielded' # yielded => Head(queue).from = yielded + 1]_vars
  <2> SUFFICES ASSUME Inv, Next PROVE yielded' # yielded => Head(queue).from = yielded + 1
    OBVIOUS
  <2>1. CASE Get
    BY <2>1, GetKeepsInv
  <2>2. CASE ~Get
    BY <2>2 DEF Next, Reader, Consumer, OpenFails, Open, Loop, Read, ReadFails, Enqueue,
                GivesUp, CloseResponse, Resume, Abandon, CloseByConsumer, Join,
                ServerSends, ServerLeaves
  <2>3. QED
    BY <2>1, <2>2
<1>2. QED
  BY InvHolds, <1>1, PTL DEF Spec, NoGap
-----------------------------------------------------------------------------
(* The consumer that leaves.  A thread that was asked to stop has at most     *)
(* nine steps left, whichever way its read and its put turn out, and the      *)
(* generator two: that every step is followed by one with less left is the    *)
(* safety core of NothingLeaks.                                               *)

PutLeft ==
  CASE item.kind = "chunk" -> 7
    [] item.kind = "error" -> 5
    [] item.kind = "end"   -> 3

ReaderLeft ==
  CASE reader = "opening" -> 9
    [] reader = "reading" -> 8
    [] reader = "putting" -> PutLeft
    [] reader = "looping" -> 6
    [] reader = "closing" -> 4
    [] reader = "over"    -> 0

ConsumerLeft ==
  CASE consumer.at = "closing" -> 2
    [] consumer.at = "joining" -> 1
    [] consumer.at = "over"    -> 0
    [] consumer.at \in Listening -> 3

\* After stop_requested.set() a step of the thread or of the generator leaves it
\* less to do, nothing gives either of them more, and nobody clears the event.
RunsOut ==
  stop => /\ stop'
          /\ Reader => ReaderLeft' < ReaderLeft /\ UNCHANGED ConsumerLeft
          /\ ~Reader => UNCHANGED ReaderLeft
          /\ Consumer => ConsumerLeft' < ConsumerLeft
          /\ ~Consumer => UNCHANGED ConsumerLeft

\* The thread passed its finally clause: the response, if any, is closed.
ClosedBehind ==
  reader = "over" \/ (reader = "putting" /\ item.kind = "end") => response # "open"

\* All is done when neither has a step left.
NothingLeft ==
  stop /\ ReaderLeft = 0 /\ ConsumerLeft = 0 =>
    consumer.at = "over" /\ reader = "over" /\ response # "open"

LEMMA LeftIsBounded ==
  ASSUME TypeOK
  PROVE  /\ ReaderLeft \in 0..9 /\ ConsumerLeft \in 0..3
         /\ ReaderLeft = 0 <=> reader = "over"
         /\ ConsumerLeft = 0 <=> consumer.at = "over"
<1>1. /\ reader \in {"opening", "looping", "reading", "putting", "closing", "over"}
      /\ item.kind \in {"chunk", "error", "end"}
      /\ consumer.at \in Listening \cup {"closing", "joining", "over"}
  BY DEF TypeOK, Items
<1>2. PutLeft \in {7, 5, 3}
  BY <1>1 DEF PutLeft
<1>3. ReaderLeft \in 0..9 /\ (ReaderLeft = 0 <=> reader = "over")
  BY <1>1, <1>2 DEF ReaderLeft
<1>4. ConsumerLeft \in 0..3 /\ (ConsumerLeft = 0 <=> consumer.at = "over")
  BY <1>1 DEF ConsumerLeft, Listening
<1>5. QED
  BY <1>3, <1>4

LEMMA PutWearsOut ==
  ASSUME TypeOK, stop, Enqueue \/ GivesUp
  PROVE  ReaderLeft' < ReaderLeft
<1>1. /\ reader = "putting" /\ item.kind \in {"chunk", "error", "end"}
      /\ reader' = CASE item.kind = "chunk" -> "looping"
                     [] item.kind = "error" -> "closing"
                     [] item.kind = "end"   -> "over"
  BY DEF Enqueue, GivesUp, PutReturns, TypeOK, Items
<1>2. CASE item.kind = "chunk"
  BY <1>1, <1>2 DEF ReaderLeft, PutLeft
<1>3. CASE item.kind = "error"
  BY <1>1, <1>3 DEF ReaderLeft, PutLeft
<1>4. CASE item.kind = "end"
  BY <1>1, <1>4 DEF ReaderLeft, PutLeft
<1>5. QED
  BY <1>1, <1>2, <1>3, <1>4

LEMMA ReaderWearsOut ==
  ASSUME TypeOK, stop, Reader
  PROVE  ReaderLeft' < ReaderLeft
<1>1. CASE OpenFails
  BY <1>1 DEF OpenFails, Put, Error, ReaderLeft, PutLeft
<1>2. CASE Open
  BY <1>2 DEF Open, ReaderLeft
<1>3. CASE Loop
  BY <1>3 DEF Loop, ReaderLeft
<1>4. CASE Read
  <2>1. /\ reader = "reading"
        /\ \/ reader' = "putting" /\ item'.kind = "chunk"
           \/ reader' = "closing"
    BY <1>4 DEF Read, Put, Chunk
  <2>2. QED
    BY <2>1 DEF ReaderLeft, PutLeft
<1>5. CASE ReadFails
  BY <1>5 DEF ReadFails, Put, Error, ReaderLeft, PutLeft
<1>6. CASE CloseResponse
  BY <1>6 DEF CloseResponse, Put, Finish, ReaderLeft, PutLeft
<1>7. QED
  BY <1>1, <1>2, <1>3, <1>4, <1>5, <1>6, PutWearsOut DEF Reader

LEMMA RunsOutStep == Inv /\ [Next]_vars => [RunsOut]_vars
<1> SUFFICES ASSUME Inv, Next, stop
             PROVE  /\ stop'
                    /\ Reader => ReaderLeft' < ReaderLeft /\ UNCHANGED ConsumerLeft
                    /\ ~Reader => UNCHANGED ReaderLeft
                    /\ Consumer => ConsumerLeft' < ConsumerLeft
                    /\ ~Consumer => UNCHANGED ConsumerLeft
  BY DEF RunsOut
<1>1. consumer.at \in {"closing", "joining", "over"} /\ TypeOK
  BY DEF Inv, TypeOK, ConsumerInv
<1>2. CASE Reader
  <2>1. UNCHANGED <<consumer, stop>>
    BY <1>2 DEF Reader, OpenFails, Open, Loop, Read, ReadFails, Enqueue, GivesUp, CloseResponse
  <2>2. ~Consumer
    BY <1>1, <2>1 DEF Consumer, Get, CloseByConsumer, Join, Listening, Leave, TypeOK
  <2>3. QED
    BY <1>1, <1>2, <2>1, <2>2, ReaderWearsOut DEF ConsumerLeft
<1>3. CASE CloseByConsumer \/ Join
  <2>1. UNCHANGED <<reader, item, stop>>
    BY <1>3 DEF CloseByConsumer, Join
  <2>2. \/ consumer.at = "closing" /\ consumer'.at = "joining"
        \/ consumer.at = "joining" /\ consumer'.at = "over"
    BY <1>1, <1>3 DEF CloseByConsumer, Join, TypeOK
  <2>3. UNCHANGED ReaderLeft
    BY <2>1 DEF ReaderLeft, PutLeft
  <2>4. ConsumerLeft' < ConsumerLeft
    BY <2>2 DEF ConsumerLeft, Listening
  <2>5. ~Reader
    BY <1>1, <2>3, ReaderWearsOut, LeftIsBounded
  <2>6. QED
    BY <1>3, <2>1, <2>3, <2>4, <2>5 DEF Consumer
<1>4. CASE ServerSends \/ ServerLeaves
  <2>1. UNCHANGED <<reader, item, consumer, stop>>
    BY <1>4 DEF ServerSends, ServerLeaves
  <2>2. UNCHANGED ReaderLeft /\ UNCHANGED ConsumerLeft
    BY <2>1 DEF ReaderLeft, PutLeft, ConsumerLeft
  <2>3. ~Reader
    BY <1>1, <2>2, ReaderWearsOut, LeftIsBounded
  <2>4. ~Consumer
    BY <1>1, <2>1 DEF Consumer, Get, CloseByConsumer, Join, Listening, TypeOK
  <2>5. QED
    BY <2>1, <2>2, <2>3, <2>4
<1>5. ~Get /\ ~Resume /\ ~Abandon
  BY <1>1 DEF Get, Resume, Abandon, Listening
<1>6. QED
  BY <1>2, <1>3, <1>4, <1>5 DEF Next, Consumer

LEMMA ClosedStep == ClosedBehind /\ TypeOK /\ [Next]_vars => ClosedBehind'
<1> SUFFICES ASSUME ClosedBehind, TypeOK, [Next]_vars
             PROVE  ClosedBehind'
  OBVIOUS
<1>1. CASE Enqueue \/ GivesUp
  BY <1>1 DEF Enqueue, GivesUp, PutReturns, ClosedBehind, TypeOK, Items
<1>2. CASE Read
  BY <1>2 DEF Read, Put, Chunk, ClosedBehind
<1>3. CASE OpenFails \/ Open \/ Loop \/ ReadFails
  BY <1>3 DEF OpenFails, Open, Loop, ReadFails, Put, Error, ClosedBehind
<1>4. CASE CloseResponse \/ CloseByConsumer
  BY <1>4 DEF CloseResponse, CloseByConsumer, ClosedBehind
<1>5. CASE Get \/ Resume \/ Abandon \/ Join \/ ServerSends \/ ServerLeaves
  BY <1>5 DEF Get, Resume, Abandon, Join, ServerSends, ServerLeaves, ClosedBehind
<1>6. CASE UNCHANGED vars
  BY <1>6 DEF vars, ClosedBehind
<1>7. QED
  BY <1>1, <1>2, <1>3, <1>4, <1>5, <1>6 DEF Next, Reader, Consumer

(* Once the consumer has left, the thread gets to its end and closes the      *)
(* response in at most nine steps of its own, the generator in two, and       *)
(* neither the server nor a full queue can add to them: when no step is left  *)
(* the thread is over, the generator gone and the response closed.  What      *)
(* NothingLeaks leaves to fairness is that the steps are taken.               *)
THEOREM LeavingRunsOut ==
  Spec => /\ [](ReaderLeft \in 0..9 /\ ConsumerLeft \in 0..3)
          /\ [][RunsOut]_vars
          /\ []ClosedBehind
          /\ []NothingLeft
<1>1. Inv => TypeOK /\ ReaderLeft \in 0..9 /\ ConsumerLeft \in 0..3
  BY LeftIsBounded DEF Inv
<1>2. Init => ClosedBehind
  BY DEF Init, ClosedBehind
<1>3. Inv /\ ClosedBehind => NothingLeft
  BY LeftIsBounded DEF Inv, ClosedBehind, NothingLeft
<1>4. QED
  BY <1>1, <1>2, <1>3, InvHolds, RunsOutStep, ClosedStep, PTL DEF Spec
=============================================================================

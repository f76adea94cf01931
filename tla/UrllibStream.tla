---------------------------- MODULE UrllibStream ----------------------------
(***************************************************************************)
(* UrllibAsyncTransport.stream in transport.py: a thread reads the body of *)
(* the response and puts it, chunk by chunk, into the bounded queue of the *)
(* event loop, from which the consumer's generator takes it.  The consumer *)
(* may leave at any time; it then asks the thread to stop and closes the   *)
(* response.  The body is counted in units; a chunk is an interval of it.  *)
(***************************************************************************)
EXTENDS Integers, Sequences

CONSTANTS QueueMax,  \* STREAM_QUEUE_MAX_CHUNKS
          ReadSize,  \* units asked for by one stream.read
          MaxSent    \* bound: units the server sends

ASSUME QueueAssumption == QueueMax \in Nat \ {0}
ASSUME ReadAssumption == ReadSize \in Nat \ {0} /\ MaxSent \in Nat

VARIABLES reader,   \* where the thread stands
          item,     \* what it is putting into the queue
          read,     \* units it has read
          queue,
          consumer, \* where the generator stands
          yielded,  \* units it has yielded
          stop,     \* stop_requested
          response, \* "none" before it is opened, then "open" or "closed"
          wire,     \* the server's end: "open", "closed" or "broken"
          sent      \* units the server has sent

vars == <<reader, item, read, queue, consumer, yielded, stop, response, wire, sent>>

Chunk(from, upto) == [kind |-> "chunk", from |-> from, upto |-> upto]
Error == [kind |-> "error", from |-> 0, upto |-> 0]
Finish == [kind |-> "end", from |-> 0, upto |-> 0]
Items == [kind : {"chunk", "error", "end"}, from : Nat, upto : Nat]

Listening == {"getting", "consuming"}
Outcomes == {"ended", "raised", "left"}

TypeOK ==
  /\ reader \in {"opening", "looping", "reading", "putting", "closing", "over"}
  /\ item \in Items
  /\ read \in 0..sent
  /\ queue \in Seq(Items) /\ Len(queue) <= QueueMax
  /\ consumer \in [at : Listening \cup {"closing", "joining", "over"},
                   how : Outcomes \cup {"none"}]
  /\ yielded \in 0..read
  /\ stop \in BOOLEAN
  /\ response \in {"none", "open", "closed"}
  /\ wire \in {"open", "closed", "broken"}
  /\ sent \in Nat

Init ==
  /\ reader = "opening" /\ item = Finish /\ read = 0
  /\ queue = <<>>
  /\ consumer = [at |-> "getting", how |-> "none"] /\ yielded = 0
  /\ stop = FALSE /\ response = "none"
  /\ wire = "open" /\ sent = 0

-----------------------------------------------------------------------------
(* The thread: read_stream and enqueue.                                    *)

\* enqueue(what): the put is scheduled on the loop.
Put(what) == reader' = "putting" /\ item' = what

\* _open_stream_sync raises: HTTPStreamOpenError, NetworkTimeout, ...
OpenFails ==
  /\ reader = "opening"
  /\ Put(Error)
  /\ UNCHANGED <<read, queue, consumer, yielded, stop, response, wire, sent>>

Open ==
  /\ reader = "opening"
  /\ reader' = "looping" /\ response' = "open"
  /\ UNCHANGED <<item, read, queue, consumer, yielded, stop, wire, sent>>

\* `while not stop_requested.is_set()`
Loop ==
  /\ reader = "looping"
  /\ reader' = IF stop THEN "closing" ELSE "reading"
  /\ UNCHANGED <<item, read, queue, consumer, yielded, stop, response, wire, sent>>

\* stream.read returns what it was asked for, or all there is before the end
\* of the body, or nothing.
Read ==
  /\ reader = "reading"
  /\ \/ /\ response = "open"
        /\ \/ sent - read >= ReadSize
           \/ wire = "closed" /\ sent > read
        /\ read' = IF sent - read >= ReadSize THEN read + ReadSize ELSE sent
        /\ Put(Chunk(read + 1, read'))
     \/ /\ response = "closed" \/ (wire = "closed" /\ sent = read)
        /\ reader' = "closing"
        /\ UNCHANGED <<item, read>>
  /\ UNCHANGED <<queue, consumer, yielded, stop, response, wire, sent>>

\* Mutant: a failure is taken for the end of the body.
ReadFailsSilently ==
  /\ reader = "reading" /\ response = "open" /\ wire # "closed"
  /\ reader' = "closing"
  /\ UNCHANGED <<item, read, queue, consumer, yielded, stop, response, wire, sent>>
\* The connection breaks, or is silent for timeout_seconds.
ReadFails ==
  /\ reader = "reading" /\ response = "open" /\ wire # "closed"
  /\ Put(Error)
  /\ UNCHANGED <<read, queue, consumer, yielded, stop, response, wire, sent>>

\* The put is done, or has been given up: on to the next read, the end of
\* the stream, or the end of the thread.
PutReturns ==
  reader' = CASE item.kind = "chunk" -> "looping"
              [] item.kind = "error" -> "closing"
              [] item.kind = "end"   -> "over"

\* Mutant: the bound of the queue is not looked at.
EnqueueUnbounded ==
  /\ reader = "putting"
  /\ queue' = Append(queue, item)
  /\ PutReturns
  /\ UNCHANGED <<item, read, consumer, yielded, stop, response, wire, sent>>
Enqueue ==
  /\ reader = "putting" /\ Len(queue) < QueueMax
  /\ queue' = Append(queue, item)
  /\ PutReturns
  /\ UNCHANGED <<item, read, consumer, yielded, stop, response, wire, sent>>

\* Mutants: a put that waits too long is dropped, or is never given up.
GivesUpAnyTime ==
  /\ reader = "putting"
  /\ PutReturns
  /\ UNCHANGED <<item, read, queue, consumer, yielded, stop, response, wire, sent>>
GivesUpNever == FALSE /\ UNCHANGED vars
\* The put is not done in time and the consumer has left.
GivesUp ==
  /\ reader = "putting" /\ stop
  /\ PutReturns
  /\ UNCHANGED <<item, read, queue, consumer, yielded, stop, response, wire, sent>>

\* The finally clause of read_stream.
CloseResponse ==
  /\ reader = "closing"
  /\ Put(Finish)
  /\ response' = IF response = "none" THEN "none" ELSE "closed"
  /\ UNCHANGED <<read, queue, consumer, yielded, stop, wire, sent>>

Reader ==
  \/ OpenFails \/ Open \/ Loop \/ Read \/ ReadFails
  \/ Enqueue \/ GivesUp \/ CloseResponse

-----------------------------------------------------------------------------
(* The consumer: the generator.                                            *)

\* Its finally clause begins.
Leave(how) == consumer' = [at |-> "closing", how |-> how] /\ stop' = TRUE

Get ==
  /\ consumer.at = "getting" /\ queue # <<>>
  /\ queue' = Tail(queue)
  /\ CASE Head(queue).kind = "chunk" ->
            /\ consumer' = [consumer EXCEPT !.at = "consuming"]
            /\ yielded' = Head(queue).upto
            /\ UNCHANGED stop
       [] Head(queue).kind = "error" -> Leave("raised") /\ UNCHANGED yielded
       [] Head(queue).kind = "end"   -> Leave("ended") /\ UNCHANGED yielded
  /\ UNCHANGED <<reader, item, read, response, wire, sent>>

Resume ==
  /\ consumer.at = "consuming"
  /\ consumer' = [consumer EXCEPT !.at = "getting"]
  /\ UNCHANGED <<reader, item, read, queue, yielded, stop, response, wire, sent>>

\* aclose(), or cancellation of the task.
Abandon ==
  /\ consumer.at \in Listening
  /\ Leave("left")
  /\ UNCHANGED <<reader, item, read, queue, yielded, response, wire, sent>>

\* stream_ref[0].close(), which waits for a read that is under way; there is
\* nothing to close when the response is not open yet.
CloseByConsumer ==
  /\ consumer.at = "closing" /\ reader # "reading"
  /\ consumer' = [consumer EXCEPT !.at = "joining"]
  /\ response' = IF response = "none" THEN "none" ELSE "closed"
  /\ UNCHANGED <<reader, item, read, queue, yielded, stop, wire, sent>>

\* reader.join(1.0) returns, whether the thread is over or not.
Join ==
  /\ consumer.at = "joining"
  /\ consumer' = [consumer EXCEPT !.at = "over"]
  /\ UNCHANGED <<reader, item, read, queue, yielded, stop, response, wire, sent>>

Consumer == Get \/ CloseByConsumer \/ Join

-----------------------------------------------------------------------------
ServerSends ==
  /\ wire = "open" /\ response = "open" /\ sent < MaxSent
  /\ sent' = sent + 1
  /\ UNCHANGED <<reader, item, read, queue, consumer, yielded, stop, response, wire>>

ServerLeaves ==
  /\ wire = "open" /\ response = "open"
  /\ wire' \in {"closed", "broken"}
  /\ UNCHANGED <<reader, item, read, queue, consumer, yielded, stop, response, sent>>

Next == Reader \/ Consumer \/ Resume \/ Abandon \/ ServerSends \/ ServerLeaves

Spec == Init /\ [][Next]_vars

\* The thread and the event loop run, and a silent read times out.
FairSpec == Spec /\ WF_vars(Reader) /\ WF_vars(Consumer)

-----------------------------------------------------------------------------
\* The consumer is given the body in order and without a gap, however long a
\* full queue keeps the thread waiting.
NoGap == [][yielded' # yielded => Head(queue).from = yielded + 1]_vars

\* A stream that ends without an exception was read and yielded to its end.
EndIsTheEnd ==
  consumer.how = "ended" => wire = "closed" /\ yielded = sent

\* An exception reaches the consumer after everything that was read.
ErrorComesLast == consumer.how = "raised" => yielded = read

\* The consumer that leaves gets away, and the thread ends and closes the
\* response even if nobody empties the queue.
NothingLeaks ==
  consumer.at = "closing" ~>
    (consumer.at = "over" /\ reader = "over" /\ response # "open")

\* A read that times out while the connection is open leaves nothing behind:
\* what the server sent before it failed has been read.  Nothing is read after
\* a failed read, so what it leaves behind is lost.
TimeoutLosesNothing == [][ReadFails /\ wire = "open" => read = sent]_vars

=============================================================================

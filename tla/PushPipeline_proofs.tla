------------------------- MODULE PushPipeline_proofs -------------------------
(***************************************************************************)
(* A push for any number of workers, any queue, batch and file: its types, *)
(* what it reports when it fails, and that it keeps the promise of module  *)
(* Transfer.                                                               *)
(***************************************************************************)
EXTENDS PushPipeline, FiniteSetTheorems, TLAPS

USE DEF queueVars, fileVars

-----------------------------------------------------------------------------
(* Sequences and their elements.                                           *)

LEMMA ElemsEmpty == Elems(<<>>) = {}
  BY DEF Elems

LEMMA ElemsOf ==
    ASSUME NEW S, NEW s \in Seq(S)
    PROVE  Elems(s) \subseteq S /\ (s # <<>> => s[1] \in Elems(s))
  BY DEF Elems

LEMMA ElemsAppend ==
    ASSUME NEW S, NEW s \in Seq(S), NEW e \in S
    PROVE  Append(s, e) \in Seq(S) /\ Elems(Append(s, e)) = Elems(s) \cup {e}
<1>1. /\ Append(s, e) \in Seq(S) /\ Len(Append(s, e)) = Len(s) + 1
      /\ \A i \in 1..Len(s) : Append(s, e)[i] = s[i]
      /\ Append(s, e)[Len(s) + 1] = e
  OBVIOUS
<1>2. ASSUME NEW x \in Elems(Append(s, e)) PROVE x \in Elems(s) \cup {e}
  BY <1>1, <1>2 DEF Elems
<1>3. ASSUME NEW x \in Elems(s) PROVE x \in Elems(Append(s, e))
  <2>1. PICK i \in 1..Len(s) : x = s[i]
    BY <1>3 DEF Elems
  <2>2. i \in DOMAIN Append(s, e) /\ Append(s, e)[i] = x
    BY <1>1, <2>1
  <2> QED  BY <2>2 DEF Elems
<1>4. e \in Elems(Append(s, e))
  BY <1>1 DEF Elems
<1> QED  BY <1>1, <1>2, <1>3, <1>4

LEMMA ElemsTail ==
    ASSUME NEW S, NEW s \in Seq(S), s # <<>>
    PROVE  /\ Head(s) \in S /\ Tail(s) \in Seq(S)
           /\ Elems(s) = {Head(s)} \cup Elems(Tail(s))
<1>1. /\ Len(s) \in Nat \ {0} /\ Head(s) = s[1] /\ Head(s) \in S
      /\ Tail(s) \in Seq(S) /\ Len(Tail(s)) = Len(s) - 1
      /\ \A i \in 1..(Len(s) - 1) : Tail(s)[i] = s[i + 1]
  OBVIOUS
<1>2. ASSUME NEW x \in Elems(s) PROVE x \in {Head(s)} \cup Elems(Tail(s))
  <2>1. PICK i \in 1..Len(s) : x = s[i]
    BY <1>2 DEF Elems
  <2>2. CASE i = 1
    BY <1>1, <2>1, <2>2
  <2>3. CASE i # 1
    <3>1. i - 1 \in DOMAIN Tail(s) /\ Tail(s)[i - 1] = x
      BY <1>1, <2>1, <2>3
    <3> QED  BY <3>1 DEF Elems
  <2> QED  BY <2>2, <2>3
<1>3. ASSUME NEW x \in Elems(Tail(s)) PROVE x \in Elems(s)
  <2>1. PICK i \in 1..(Len(s) - 1) : x = Tail(s)[i]
    BY <1>1, <1>3 DEF Elems
  <2>2. i + 1 \in DOMAIN s /\ s[i + 1] = x
    BY <1>1, <2>1
  <2> QED  BY <2>2 DEF Elems
<1>4. Head(s) \in Elems(s)
  BY <1>1 DEF Elems
<1> QED  BY <1>1, <1>2, <1>3, <1>4

\* The chunks of the part of the file that was not read.
Unread(r) == UNION {Elems(r[i]) : i \in DOMAIN r}

LEMMA UnreadTail ==
    ASSUME NEW r \in Seq(Seq(Chunks)), r # <<>>
    PROVE  Unread(r) = Elems(Head(r)) \cup Unread(Tail(r))
<1>1. /\ Len(r) \in Nat \ {0} /\ Head(r) = r[1] /\ DOMAIN r = 1..Len(r)
      /\ Tail(r) \in Seq(Seq(Chunks)) /\ Len(Tail(r)) = Len(r) - 1
      /\ DOMAIN Tail(r) = 1..(Len(r) - 1)
      /\ \A i \in 1..(Len(r) - 1) : Tail(r)[i] = r[i + 1]
  OBVIOUS
<1>2. ASSUME NEW x \in Unread(r) PROVE x \in Elems(Head(r)) \cup Unread(Tail(r))
  <2>1. PICK i \in DOMAIN r : x \in Elems(r[i])
    BY <1>2 DEF Unread
  <2>2. CASE i = 1
    <3>1. r[i] = Head(r)
      BY <1>1, <2>2
    <3> QED  BY <2>1, <3>1
  <2>3. CASE i # 1
    <3>1. i - 1 \in DOMAIN Tail(r) /\ Tail(r)[i - 1] = r[i]
      BY <1>1, <2>1, <2>3
    <3> QED  BY <2>1, <3>1 DEF Unread
  <2> QED  BY <2>2, <2>3
<1>3. ASSUME NEW x \in Unread(Tail(r)) PROVE x \in Unread(r)
  <2>1. PICK i \in 1..(Len(r) - 1) : x \in Elems(Tail(r)[i])
    <3>1. PICK i \in DOMAIN Tail(r) : x \in Elems(Tail(r)[i])
      BY <1>3 DEF Unread
    <3> QED  BY <3>1, <1>1
  <2>2. i + 1 \in DOMAIN r /\ r[i + 1] = Tail(r)[i]
    BY <1>1, <2>1
  <2> QED  BY <2>1, <2>2 DEF Unread
<1>4. Elems(Head(r)) \subseteq Unread(r)
  <2>1. 1 \in DOMAIN r /\ Elems(r[1]) = Elems(Head(r))
    BY <1>1
  <2> QED  BY <2>1 DEF Unread
<1> QED  BY <1>2, <1>3, <1>4

-----------------------------------------------------------------------------
(* Types.                                                                  *)

\* The parts of the assumption the proofs use.
LEMMA Assumed ==
    /\ Producer \notin Workers /\ Workers # {}
    /\ \A c \in Chunks : Desired[c] \in Seq(Nodes)
    /\ Reads \in Seq(Seq(Chunks)) /\ Rest \in Seq(Chunks)
    /\ Capacity \in Nat \ {0} /\ BatchSize \in Nat \ {0}
  BY PipelineAssumption

LEMMA TypeInit == Init => PipelineTypeOK
<1>1. <<>> \in Seq(Chunks) /\ Len(<<>>) = 0
  OBVIOUS
<1> SUFFICES ASSUME Init PROVE PipelineTypeOK
  OBVIOUS
<1>2. /\ pc \in [Workers \cup {Producer} -> ProducerPlaces \cup WorkerPlaces]
      /\ pc[Producer] \in ProducerPlaces
      /\ \A w \in Workers : pc[w] \in WorkerPlaces
  BY Assumed DEF Init, ProducerPlaces, WorkerPlaces
<1>3. task \in [Workers -> Tasks \cup {NoTask}]
  BY DEF Init
<1>4. /\ items \in Seq(Chunks) /\ Len(items) <= Capacity
      /\ pending \in Seq(Chunks) /\ staging \in Seq(Chunks) /\ batch \in Seq(Chunks)
      /\ reads \in Seq(Seq(Chunks))
  BY <1>1, Assumed DEF Init
<1>5. /\ closed \in BOOLEAN /\ cancelled \in BOOLEAN /\ parked = {} /\ seen = {} /\ stored = {}
      /\ failure = "none" /\ outcome = "running"
  BY DEF Init
<1> QED  BY <1>2, <1>3, <1>4, <1>5 DEF PipelineTypeOK

\* A thread that moves stays where threads of its kind can be.
LEMMA GotoType ==
    ASSUME PipelineTypeOK
    PROVE  /\ \A p \in ProducerPlaces : Goto(Producer, p) =>
                  /\ pc' \in [Workers \cup {Producer} -> ProducerPlaces \cup WorkerPlaces]
                  /\ pc'[Producer] = p
                  /\ \A w \in Workers : pc'[w] = pc[w]
           /\ \A w \in Workers, p \in WorkerPlaces : Goto(w, p) =>
                  /\ pc' \in [Workers \cup {Producer} -> ProducerPlaces \cup WorkerPlaces]
                  /\ pc'[Producer] = pc[Producer]
                  /\ pc'[w] = p
                  /\ \A v \in Workers \ {w} : pc'[v] = pc[v]
  BY Assumed DEF PipelineTypeOK, Goto

LEMMA TypeStep == PipelineTypeOK /\ [Next]_vars => PipelineTypeOK'
<1> SUFFICES ASSUME PipelineTypeOK, [Next]_vars
             PROVE  PipelineTypeOK'
  OBVIOUS
<1>0. /\ Producer \notin Workers
      /\ ProducerPlaces = {"spawn", "read", "record", "finish", "cancel", "join", "gone"}
      /\ WorkerPlaces = {"unborn", "pop", "work", "cancel", "gone"}
      /\ <<>> \in Seq(Chunks) /\ Len(<<>>) = 0
  BY Assumed DEF ProducerPlaces, WorkerPlaces
<1>t. ASSUME NEW what \in Failures, Throws(what) PROVE PipelineTypeOK'
  BY <1>t, <1>0, GotoType DEF PipelineTypeOK, Throws, record_failure, queueVars, fileVars
<1>1. ASSUME NEW w \in Workers, Spawn(w) PROVE PipelineTypeOK'
  BY <1>1, <1>0, GotoType DEF PipelineTypeOK, Spawn, Goto, queueVars, fileVars
<1>2. CASE SpawnEnds
  <2>1. CASE Throws("source")
    BY <1>t, <2>1 DEF Failures
  <2>2. CASE ~Throws("source")
    BY <1>2, <2>2, <1>0, GotoType DEF PipelineTypeOK, SpawnEnds, queueVars, fileVars
  <2> QED  BY <2>1, <2>2
<1>3. CASE Read
  <2>1. CASE Throws("source") \/ Throws("cancelled")
    BY <1>t, <2>1 DEF Failures
  <2>2. CASE reads # <<>> /\ reads' = Tail(reads) /\ pending' = Head(reads)
             /\ Goto(Producer, "record")
             /\ UNCHANGED <<queueVars, parked, failure, task, seen, staging, batch, stored, outcome>>
    <3>1. Tail(reads) \in Seq(Seq(Chunks)) /\ Head(reads) \in Seq(Chunks)
      BY <2>2, ElemsTail DEF PipelineTypeOK
    <3> QED  BY <2>2, <3>1, <1>0, GotoType DEF PipelineTypeOK, queueVars
  <2>3. CASE UNCHANGED reads /\ pending' = Rest /\ Goto(Producer, "finish")
             /\ UNCHANGED <<queueVars, parked, failure, task, seen, staging, batch, stored, outcome>>
    BY <2>3, <1>0, GotoType, Assumed DEF PipelineTypeOK, queueVars
  <2> QED  BY <1>3, <2>1, <2>2, <2>3 DEF Read
<1>4. CASE Record
  <2>1. Head(pending) \in Chunks /\ Tail(pending) \in Seq(Chunks)
    BY <1>4, ElemsTail DEF PipelineTypeOK, Record
  <2>2. Append(staging, Head(pending)) \in Seq(Chunks)
    BY <2>1, ElemsAppend DEF PipelineTypeOK
  <2> QED  BY <1>4, <2>1, <2>2, <1>0 DEF PipelineTypeOK, Record, record_chunk, queueVars
<1>5. CASE Recorded
  BY <1>5, <1>0, GotoType DEF PipelineTypeOK, Recorded, queueVars, fileVars
<1>6. CASE Flush
  BY <1>6, <1>0 DEF PipelineTypeOK, Flush, queueVars
<1>7. CASE Close
  BY <1>7, <1>0, GotoType DEF PipelineTypeOK, Close, close, notify_everyone, fileVars
<1>8. CASE NegotiateFails
  BY <1>8, <1>t DEF NegotiateFails, Failures
<1>9. CASE push
  <2>1. CASE Throws("cancelled")
    BY <1>t, <2>1 DEF Failures
  <2>2. CASE /\ has_room /\ batch # <<>>
             /\ items' = Append(items, Head(batch)) /\ batch' = Tail(batch)
             /\ notify_not_empty
             /\ UNCHANGED <<closed, cancelled, failure, pc, task, reads, pending, seen, staging,
                            stored, outcome>>
    <3>1. Head(batch) \in Chunks /\ Tail(batch) \in Seq(Chunks)
      BY <2>2, ElemsTail DEF PipelineTypeOK
    <3>2. Append(items, Head(batch)) \in Seq(Chunks)
          /\ Len(Append(items, Head(batch))) <= Capacity
      BY <2>2, <3>1, Assumed DEF PipelineTypeOK, has_room
    <3>3. parked' \subseteq Workers \cup {Producer}
      BY <2>2 DEF PipelineTypeOK, notify_not_empty
    <3> QED  BY <2>2, <3>1, <3>2, <3>3 DEF PipelineTypeOK
  <2>3. CASE /\ parked' = parked \cup {Producer}
             /\ UNCHANGED <<queueVars, failure, pc, task, fileVars, stored, outcome>>
    BY <2>3 DEF PipelineTypeOK, queueVars, fileVars
  <2> QED  BY <1>9, <2>1, <2>2, <2>3 DEF push, Negotiating
<1>10. CASE Cancel
  BY <1>10, <1>0, GotoType, Assumed DEF PipelineTypeOK, Cancel, cancel, notify_everyone, fileVars
<1>11. CASE Join
  BY <1>11, <1>0, GotoType DEF PipelineTypeOK, Join, queueVars, fileVars
<1>12. ASSUME NEW w \in Workers, pop(w) PROVE PipelineTypeOK'
  <2>1. /\ Head(items) \in Chunks /\ Tail(items) \in Seq(Chunks)
        /\ Len(Tail(items)) <= Capacity
    BY <1>12, Assumed DEF PipelineTypeOK, pop
  <2>2. [chunk |-> Head(items), left |-> Desired[Head(items)]] \in Tasks
    BY <2>1, Assumed DEF Tasks
  <2> QED  BY <1>12, <2>1, <2>2, <1>0, GotoType
              DEF PipelineTypeOK, pop, notify_not_full, fileVars
<1>13. ASSUME NEW w \in Workers, PopWaits(w) PROVE PipelineTypeOK'
  BY <1>13 DEF PipelineTypeOK, PopWaits, queueVars, fileVars
<1>14. ASSUME NEW w \in Workers, PopEnds(w) PROVE PipelineTypeOK'
  BY <1>14, <1>0, GotoType DEF PipelineTypeOK, PopEnds, queueVars, fileVars
<1>15. ASSUME NEW w \in Workers, Upload(w) PROVE PipelineTypeOK'
  <2>1. task[w] \in Tasks
    BY <1>15 DEF PipelineTypeOK, Upload, NoTask
  <2>2. /\ task[w].chunk \in Chunks /\ Head(task[w].left) \in Nodes
        /\ [task[w] EXCEPT !.left = Tail(@)] \in Tasks
    BY <1>15, <2>1, ElemsTail DEF Tasks, Upload
  <2>3. task' \in [Workers -> Tasks \cup {NoTask}]
    BY <1>15, <2>2 DEF PipelineTypeOK, Upload
  <2> QED  BY <1>15, <2>2, <2>3 DEF PipelineTypeOK, Upload, queueVars, fileVars
<1>16. ASSUME NEW w \in Workers, UploadFails(w) PROVE PipelineTypeOK'
  BY <1>16, <1>0, GotoType DEF PipelineTypeOK, UploadFails, record_failure, Failures,
                               queueVars, fileVars
<1>17. ASSUME NEW w \in Workers, Uploaded(w) PROVE PipelineTypeOK'
  BY <1>17, <1>0, GotoType DEF PipelineTypeOK, Uploaded, queueVars, fileVars
<1>18. ASSUME NEW w \in Workers, WorkerCancels(w) PROVE PipelineTypeOK'
  <2>1. items' \in Seq(Chunks) /\ Len(items') <= Capacity
    BY <1>18, <1>0, Assumed DEF WorkerCancels, cancel
  <2>2. /\ pc' \in [Workers \cup {Producer} -> ProducerPlaces \cup WorkerPlaces]
        /\ pc'[Producer] \in ProducerPlaces
        /\ \A v \in Workers : pc'[v] \in WorkerPlaces
    BY <1>18, <1>0, GotoType DEF PipelineTypeOK, WorkerCancels
  <2> QED  BY <1>18, <2>1, <2>2 DEF PipelineTypeOK, WorkerCancels, cancel, notify_everyone, fileVars
<1>19. CASE UNCHANGED vars
  BY <1>19 DEF PipelineTypeOK, vars, queueVars, fileVars
<1> QED
  BY <1>1, <1>2, <1>3, <1>4, <1>5, <1>6, <1>7, <1>8, <1>9, <1>10, <1>11, <1>12, <1>13, <1>14,
     <1>15, <1>16, <1>17, <1>18, <1>19 DEF Next, ProducerStep, WorkerStep

\* The state of a push has its types.
THEOREM PipelineTypeHolds == Spec => []PipelineTypeOK
  BY TypeInit, TypeStep, PTL DEF Spec
-----------------------------------------------------------------------------
(* The cause that is reported. A queue is cancelled, and a thread is about *)
(* to cancel it, only when a failure is on record; and the queue closes    *)
(* without one only after the producer's last push.                        *)

CauseInv ==
    /\ failure # "cancelled"
    /\ cancelled => failure # "none"
    /\ \A t \in Workers \cup {Producer} : pc[t] = "cancel" => failure # "none"
    /\ closed /\ ~cancelled => pc[Producer] \in {"join", "gone"}

LEMMA CauseInit == Init => CauseInv
  BY DEF Init, CauseInv

LEMMA CauseStep == PipelineTypeOK /\ CauseInv /\ [Next]_vars => CauseInv'
<1> SUFFICES ASSUME PipelineTypeOK, CauseInv, [Next]_vars
             PROVE  CauseInv'
  OBVIOUS
<1>0. /\ Producer \notin Workers
      /\ ProducerPlaces = {"spawn", "read", "record", "finish", "cancel", "join", "gone"}
      /\ WorkerPlaces = {"unborn", "pop", "work", "cancel", "gone"}
  BY Assumed DEF ProducerPlaces, WorkerPlaces
<1>t. ASSUME NEW what \in Failures, Throws(what), what # "cancelled" \/ failure # "none",
             ~cancelled => ~closed
      PROVE  CauseInv'
  BY <1>t, <1>0, GotoType DEF CauseInv, Throws, record_failure, Failures, queueVars, fileVars
<1>1. ASSUME NEW w \in Workers, Spawn(w) PROVE CauseInv'
  BY <1>1, <1>0, GotoType DEF CauseInv, Spawn, At, queueVars, fileVars
<1>2. CASE SpawnEnds
  <2>1. CASE Throws("source")
    BY <1>2, <2>1, <1>t DEF SpawnEnds, At, CauseInv, Failures
  <2>2. CASE ~Throws("source")
    BY <1>2, <2>2, <1>0, GotoType DEF CauseInv, SpawnEnds, At, queueVars, fileVars
  <2> QED  BY <2>1, <2>2
<1>3. CASE Read
  <2>1. CASE Throws("source")
    BY <1>3, <2>1, <1>t DEF Read, At, CauseInv, Failures
  <2>2. CASE cancelled /\ Throws("cancelled")
    BY <1>3, <2>2, <1>t DEF Read, At, CauseInv, Failures
  <2>3. CASE /\ Goto(Producer, "record") \/ Goto(Producer, "finish")
             /\ UNCHANGED <<queueVars, parked, failure, task, seen, staging, batch, stored, outcome>>
    BY <1>3, <2>3, <1>0, GotoType DEF CauseInv, Read, At, queueVars
  <2>4. CASE reads # <<>>
    BY <1>3, <2>1, <2>2, <2>3, <2>4 DEF Read
  <2>5. CASE reads = <<>>
    BY <1>3, <2>1, <2>2, <2>3, <2>5 DEF Read
  <2> QED  BY <2>4, <2>5
<1>4. CASE Record
  BY <1>4, <1>0, GotoType DEF CauseInv, Record, At, queueVars, fileVars
<1>5. CASE Recorded
  BY <1>5, <1>0, GotoType DEF CauseInv, Recorded, At, queueVars, fileVars
<1>6. CASE Flush
  BY <1>6, <1>0, GotoType DEF CauseInv, Flush, At, queueVars, fileVars
<1>7. CASE Close
  BY <1>7, <1>0, GotoType DEF CauseInv, Close, At, queueVars, fileVars, close
<1>8. CASE NegotiateFails
  BY <1>8, <1>t DEF NegotiateFails, At, CauseInv, Failures
<1>9. CASE push
  <2>1. CASE Throws("cancelled") /\ (cancelled \/ closed)
    BY <1>9, <2>1, <1>t DEF push, At, CauseInv, Failures
  <2>2. CASE UNCHANGED <<closed, cancelled, failure, pc>>
    BY <2>2 DEF CauseInv
  <2> QED  BY <1>9, <2>1, <2>2 DEF push, queueVars
<1>10. CASE Cancel
  BY <1>10, <1>0, GotoType DEF CauseInv, Cancel, At, queueVars, fileVars, cancel
<1>11. CASE Join
  BY <1>11, <1>0, GotoType DEF CauseInv, Join, At, queueVars, fileVars
<1>12. ASSUME NEW w \in Workers, pop(w) PROVE CauseInv'
  BY <1>12, <1>0, GotoType DEF CauseInv, pop, At, queueVars, fileVars
<1>13. ASSUME NEW w \in Workers, PopWaits(w) PROVE CauseInv'
  BY <1>13, <1>0, GotoType DEF CauseInv, PopWaits, At, queueVars, fileVars
<1>14. ASSUME NEW w \in Workers, PopEnds(w) PROVE CauseInv'
  BY <1>14, <1>0, GotoType DEF CauseInv, PopEnds, At, queueVars, fileVars
<1>15. ASSUME NEW w \in Workers, Upload(w) PROVE CauseInv'
  BY <1>15, <1>0, GotoType DEF CauseInv, Upload, At, queueVars, fileVars
<1>16. ASSUME NEW w \in Workers, UploadFails(w) PROVE CauseInv'
  BY <1>16, <1>0, GotoType DEF CauseInv, UploadFails, At, queueVars, fileVars, record_failure
<1>17. ASSUME NEW w \in Workers, Uploaded(w) PROVE CauseInv'
  BY <1>17, <1>0, GotoType DEF CauseInv, Uploaded, At, queueVars, fileVars
<1>18. ASSUME NEW w \in Workers, WorkerCancels(w) PROVE CauseInv'
  BY <1>18, <1>0, GotoType DEF CauseInv, WorkerCancels, At, queueVars, fileVars, cancel
<1>19. CASE UNCHANGED vars
  BY <1>19 DEF CauseInv, vars, queueVars
<1> QED
  BY <1>1, <1>2, <1>3, <1>4, <1>5, <1>6, <1>7, <1>8, <1>9, <1>10, <1>11, <1>12, <1>13, <1>14,
     <1>15, <1>16, <1>17, <1>18, <1>19 DEF Next, ProducerStep, WorkerStep

LEMMA CauseHolds == Spec => []CauseInv
  BY PipelineTypeHolds, CauseInit, CauseStep, PTL DEF Spec

\* What push rethrows is the failure that stopped it, never the cancellation that followed.
THEOREM RootCauseHolds == Spec => []RootCauseReported
<1>1. CauseInv => RootCauseReported
  BY DEF CauseInv, RootCauseReported
<1> QED  BY <1>1, CauseHolds, PTL
-----------------------------------------------------------------------------
(* How a push ends. The queue closes without a failure only when the file  *)
(* is read, recorded and queued; a worker leaves then only an empty queue; *)
(* and push returns after every worker has left.                           *)

EndInv ==
    /\ pc[Producer] \in {"spawn", "read"} => pending = <<>>
    /\ pc[Producer] = "finish" => reads = <<>>
    /\ failure = "none" /\ pc[Producer] \in {"join", "gone"} =>
           /\ closed /\ reads = <<>> /\ pending = <<>> /\ staging = <<>> /\ batch = <<>>
    /\ \A w \in Workers :
           /\ failure = "none" /\ pc[w] = "gone" => closed /\ items = <<>>
           /\ failure = "none" /\ pc[w] = "unborn" => pc[Producer] = "spawn"
           /\ pc[Producer] = "gone" => pc[w] \in {"unborn", "gone"}
    /\ outcome = "running" <=> pc[Producer] # "gone"

LEMMA EndInit == Init => EndInv
  BY Assumed DEF Init, EndInv

LEMMA EndStep == PipelineTypeOK /\ CauseInv /\ EndInv /\ [Next]_vars => EndInv'
<1> SUFFICES ASSUME PipelineTypeOK, CauseInv, EndInv, [Next]_vars
             PROVE  EndInv'
  OBVIOUS
<1>0. /\ Producer \notin Workers
      /\ ProducerPlaces = {"spawn", "read", "record", "finish", "cancel", "join", "gone"}
      /\ WorkerPlaces = {"unborn", "pop", "work", "cancel", "gone"}
  BY Assumed DEF ProducerPlaces, WorkerPlaces
<1>t. ASSUME NEW what \in Failures, Throws(what), pc[Producer] # "gone" PROVE EndInv'
  BY <1>t, <1>0, GotoType DEF EndInv, Throws, record_failure, Failures, queueVars, fileVars
<1>1. ASSUME NEW w \in Workers, Spawn(w) PROVE EndInv'
  BY <1>1, <1>0, GotoType DEF EndInv, CauseInv, Spawn, At, queueVars, fileVars
<1>2. CASE SpawnEnds
  <2>1. CASE Throws("source")
    BY <1>2, <2>1, <1>t DEF SpawnEnds, At, Failures
  <2>2. CASE ~Throws("source")
    BY <1>2, <2>2, <1>0, GotoType DEF EndInv, SpawnEnds, At, queueVars, fileVars
  <2> QED  BY <2>1, <2>2
<1>3. CASE Read
  <2>1. CASE Throws("source") \/ Throws("cancelled")
    BY <1>3, <2>1, <1>t DEF Read, At, Failures
  <2>2. CASE /\ Goto(Producer, "record")
             /\ UNCHANGED <<queueVars, parked, failure, task, seen, staging, batch, stored, outcome>>
    BY <1>3, <2>2, <1>0, GotoType DEF EndInv, Read, At, queueVars
  <2>3. CASE /\ reads = <<>> /\ UNCHANGED reads /\ Goto(Producer, "finish")
             /\ UNCHANGED <<queueVars, parked, failure, task, seen, staging, batch, stored, outcome>>
    BY <1>3, <2>3, <1>0, GotoType DEF EndInv, Read, At, queueVars
  <2>4. CASE reads # <<>>
    BY <1>3, <2>1, <2>2, <2>4 DEF Read
  <2>5. CASE reads = <<>>
    BY <1>3, <2>1, <2>3, <2>5 DEF Read
  <2> QED  BY <2>4, <2>5
<1>4. CASE Record
  BY <1>4, <1>0, GotoType DEF EndInv, CauseInv, Record, At, queueVars, fileVars, record_chunk
<1>5. CASE Recorded
  BY <1>5, <1>0, GotoType DEF EndInv, CauseInv, Recorded, At, queueVars, fileVars
<1>6. CASE Flush
  BY <1>6, <1>0, GotoType DEF EndInv, CauseInv, Flush, At, queueVars, fileVars
<1>7. CASE Close
  BY <1>7, <1>0, GotoType DEF EndInv, CauseInv, Close, At, queueVars, fileVars, close, Negotiating
<1>8. CASE NegotiateFails
  BY <1>8, <1>t DEF NegotiateFails, At, Failures
<1>9. CASE push
  <2>1. CASE Throws("cancelled")
    BY <1>9, <2>1, <1>t DEF push, At, Failures
  <2>2. CASE /\ ~closed
             /\ UNCHANGED <<closed, cancelled, failure, pc, task, reads, pending, seen, staging,
                            stored, outcome>>
    BY <1>9, <2>2 DEF EndInv, push, At
  <2>3. CASE UNCHANGED <<queueVars, failure, pc, task, fileVars, stored, outcome>>
    BY <2>3 DEF EndInv, queueVars, fileVars
  <2> QED  BY <1>9, <2>1, <2>2, <2>3 DEF push
<1>10. CASE Cancel
  BY <1>10, <1>0, GotoType DEF EndInv, CauseInv, Cancel, At, queueVars, fileVars, cancel
<1>11. CASE Join
  BY <1>11, <1>0, GotoType DEF EndInv, CauseInv, Join, At, queueVars, fileVars
<1>12. ASSUME NEW w \in Workers, pop(w) PROVE EndInv'
  BY <1>12, <1>0, GotoType DEF EndInv, CauseInv, pop, At, queueVars, fileVars
<1>13. ASSUME NEW w \in Workers, PopWaits(w) PROVE EndInv'
  BY <1>13, <1>0, GotoType DEF EndInv, CauseInv, PopWaits, At, queueVars, fileVars
<1>14. ASSUME NEW w \in Workers, PopEnds(w) PROVE EndInv'
  BY <1>14, <1>0, GotoType DEF EndInv, CauseInv, PopEnds, At, queueVars, fileVars
<1>15. ASSUME NEW w \in Workers, Upload(w) PROVE EndInv'
  BY <1>15, <1>0, GotoType DEF EndInv, CauseInv, Upload, At, queueVars, fileVars
<1>16. ASSUME NEW w \in Workers, UploadFails(w) PROVE EndInv'
  BY <1>16, <1>0, GotoType DEF EndInv, CauseInv, UploadFails, At, queueVars, fileVars, record_failure, Failures
<1>17. ASSUME NEW w \in Workers, Uploaded(w) PROVE EndInv'
  BY <1>17, <1>0, GotoType DEF EndInv, CauseInv, Uploaded, At, queueVars, fileVars
<1>18. ASSUME NEW w \in Workers, WorkerCancels(w) PROVE EndInv'
  BY <1>18, <1>0, GotoType DEF EndInv, CauseInv, WorkerCancels, At, queueVars, fileVars, cancel
<1>19. CASE UNCHANGED vars
  BY <1>19 DEF EndInv, vars, queueVars, fileVars
<1> QED
  BY <1>1, <1>2, <1>3, <1>4, <1>5, <1>6, <1>7, <1>8, <1>9, <1>10, <1>11, <1>12, <1>13, <1>14,
     <1>15, <1>16, <1>17, <1>18, <1>19 DEF Next, ProducerStep, WorkerStep

LEMMA EndHolds == Spec => []EndInv
  BY PipelineTypeHolds, CauseHolds, EndInit, EndStep, PTL DEF Spec
-----------------------------------------------------------------------------
(* What moves is of the file.                                              *)

LEMMA FileChunksOf ==
    /\ FileChunks = Elems(Rest) \cup Unread(Reads)
    /\ FileChunks \subseteq Chunks
<1>1. FileChunks = Elems(Rest) \cup Unread(Reads)
  BY DEF FileChunks, Unread
<1>2. \A i \in DOMAIN Reads : Elems(Reads[i]) \subseteq Chunks
  <2> SUFFICES ASSUME NEW i \in DOMAIN Reads PROVE Elems(Reads[i]) \subseteq Chunks
    OBVIOUS
  <2>1. Reads[i] \in Seq(Chunks)
    BY Assumed
  <2> QED  BY <2>1, ElemsOf
<1>3. Elems(Rest) \subseteq Chunks
  BY Assumed, ElemsOf
<1> QED  BY <1>1, <1>2, <1>3 DEF Unread

SourceInv ==
    /\ Unread(reads) \subseteq FileChunks
    /\ Elems(pending) \subseteq FileChunks
    /\ Elems(staging) \subseteq FileChunks
    /\ Elems(batch) \subseteq FileChunks
    /\ Elems(items) \subseteq FileChunks

LEMMA SourceInit == Init => SourceInv
<1>1. Init => Unread(reads) \subseteq FileChunks
  BY FileChunksOf DEF Init
<1> QED  BY <1>1, ElemsEmpty DEF Init, SourceInv

LEMMA SourceStep == PipelineTypeOK /\ SourceInv /\ [Next]_vars => SourceInv'
<1> SUFFICES ASSUME PipelineTypeOK, SourceInv, [Next]_vars
             PROVE  SourceInv'
  OBVIOUS
<1>0. ASSUME UNCHANGED <<reads, pending, staging, batch>>, items' = items \/ items' = <<>>
      PROVE  SourceInv'
  BY <1>0, ElemsEmpty DEF SourceInv
<1>t. ASSUME NEW what, Throws(what) PROVE SourceInv'
  BY <1>t, <1>0 DEF Throws, queueVars, fileVars
<1>1. CASE Read
  <2>1. CASE Throws("source") \/ Throws("cancelled")
    BY <2>1, <1>t
  <2>2. CASE /\ reads # <<>> /\ reads' = Tail(reads) /\ pending' = Head(reads)
             /\ UNCHANGED <<queueVars, parked, failure, task, seen, staging, batch, stored, outcome>>
    <3>1. Unread(reads) = Elems(Head(reads)) \cup Unread(Tail(reads))
      BY <2>2, UnreadTail DEF PipelineTypeOK
    <3> QED  BY <2>2, <3>1 DEF SourceInv, queueVars
  <2>3. CASE /\ UNCHANGED reads /\ pending' = Rest
             /\ UNCHANGED <<queueVars, parked, failure, task, seen, staging, batch, stored, outcome>>
    BY <2>3, FileChunksOf DEF SourceInv, queueVars
  <2>4. CASE reads # <<>>
    BY <1>1, <2>1, <2>2, <2>4 DEF Read
  <2>5. CASE reads = <<>>
    BY <1>1, <2>1, <2>3, <2>5 DEF Read
  <2> QED  BY <2>4, <2>5
<1>2. CASE Record
  <2>1. Head(pending) \in FileChunks /\ Elems(Tail(pending)) \subseteq FileChunks
    BY <1>2, ElemsTail DEF PipelineTypeOK, SourceInv, Record
  <2>2. Elems(Append(staging, Head(pending))) \subseteq FileChunks
    BY <2>1, ElemsAppend, FileChunksOf DEF PipelineTypeOK, SourceInv
  <2> QED  BY <1>2, <2>1, <2>2, ElemsEmpty DEF SourceInv, Record, record_chunk, queueVars
<1>3. CASE Flush
  BY <1>3, ElemsEmpty DEF SourceInv, Flush, queueVars
<1>4. CASE push
  <2>1. CASE Throws("cancelled")
    BY <2>1, <1>t
  <2>2. CASE /\ batch # <<>> /\ items' = Append(items, Head(batch)) /\ batch' = Tail(batch)
             /\ UNCHANGED <<closed, cancelled, failure, pc, task, reads, pending, seen, staging,
                            stored, outcome>>
    <3>1. /\ Head(batch) \in FileChunks /\ Head(batch) \in Chunks
          /\ Elems(Tail(batch)) \subseteq FileChunks
      BY <2>2, ElemsTail DEF PipelineTypeOK, SourceInv
    <3>2. Elems(Append(items, Head(batch))) \subseteq FileChunks
      BY <3>1, ElemsAppend DEF PipelineTypeOK, SourceInv
    <3> QED  BY <2>2, <3>1, <3>2 DEF SourceInv
  <2>3. CASE UNCHANGED <<queueVars, failure, pc, task, fileVars, stored, outcome>>
    BY <2>3, <1>0 DEF queueVars, fileVars
  <2> QED  BY <1>4, <2>1, <2>2, <2>3 DEF push, Negotiating
<1>5. ASSUME NEW w \in Workers, pop(w) PROVE SourceInv'
  <2>1. Elems(Tail(items)) \subseteq FileChunks
    BY <1>5, ElemsTail DEF PipelineTypeOK, SourceInv, pop
  <2> QED  BY <1>5, <2>1 DEF SourceInv, pop, fileVars
<1>6. CASE SpawnEnds
  BY <1>6, <1>0, <1>t DEF SpawnEnds, queueVars, fileVars
<1>7. CASE Recorded \/ Close \/ NegotiateFails \/ Cancel \/ Join
  BY <1>7, <1>0, <1>t DEF Recorded, Close, close, NegotiateFails, Cancel, cancel, Join,
                          queueVars, fileVars
<1>8. ASSUME NEW w \in Workers,
             \/ Spawn(w) \/ PopWaits(w) \/ PopEnds(w) \/ Upload(w) \/ UploadFails(w)
             \/ Uploaded(w) \/ WorkerCancels(w)
      PROVE  SourceInv'
  BY <1>8, <1>0 DEF Spawn, PopWaits, PopEnds, Upload, UploadFails, Uploaded, WorkerCancels,
                    cancel, queueVars, fileVars
<1>9. CASE UNCHANGED vars
  BY <1>9, <1>0 DEF vars, queueVars, fileVars
<1> QED
  BY <1>1, <1>2, <1>3, <1>4, <1>5, <1>6, <1>7, <1>8, <1>9 DEF Next, ProducerStep, WorkerStep
-----------------------------------------------------------------------------
(* What a worker still owes, and what was stored.                          *)

Replicas(c) == {c} \X Elems(Desired[c])

TaskInv ==
    /\ \A w \in Workers : pc[w] = "work" =>
           /\ task[w] \in Tasks /\ task[w].chunk \in FileChunks
           /\ Elems(task[w].left) \subseteq Elems(Desired[task[w].chunk])
           /\ \A n \in Elems(Desired[task[w].chunk]) :
                  n \in Elems(task[w].left) \/ <<task[w].chunk, n>> \in stored
    /\ stored \subseteq FileReplicas

LEMMA ReplicaOfFile ==
    ASSUME NEW c \in FileChunks, NEW n \in Elems(Desired[c])
    PROVE  <<c, n>> \in FileReplicas
<1>1. <<c, n>> \in {c} \X Elems(Desired[c])
  OBVIOUS
<1> QED  BY <1>1 DEF FileReplicas

LEMMA TaskInit == Init => TaskInv
  BY Assumed DEF Init, TaskInv

LEMMA TaskStep == PipelineTypeOK /\ SourceInv /\ TaskInv /\ [Next]_vars => TaskInv'
<1> SUFFICES ASSUME PipelineTypeOK, SourceInv, TaskInv, [Next]_vars
             PROVE  TaskInv'
  OBVIOUS
<1>0. ASSUME UNCHANGED <<task, stored>>, \A w \in Workers : pc'[w] = "work" => pc[w] = "work"
      PROVE  TaskInv'
  BY <1>0 DEF TaskInv
<1>p. /\ ProducerPlaces = {"spawn", "read", "record", "finish", "cancel", "join", "gone"}
      /\ WorkerPlaces = {"unborn", "pop", "work", "cancel", "gone"}
  BY DEF ProducerPlaces, WorkerPlaces
<1>t. ASSUME NEW what, Throws(what) PROVE TaskInv'
  BY <1>t, <1>0, <1>p, GotoType DEF Throws, queueVars, fileVars
<1>1. ASSUME NEW w \in Workers, pop(w) PROVE TaskInv'
  <2> DEFINE c == Head(items)
  <2>1. c \in Chunks /\ c \in FileChunks /\ Desired[c] \in Seq(Nodes)
    BY <1>1, ElemsTail, Assumed DEF PipelineTypeOK, SourceInv, pop
  <2>2. /\ task'[w] = [chunk |-> c, left |-> Desired[c]]
        /\ \A v \in Workers \ {w} : task'[v] = task[v]
    BY <1>1 DEF PipelineTypeOK, pop
  <2>3. \A v \in Workers \ {w} : pc'[v] = pc[v]
    BY <1>1, <1>p, GotoType DEF pop
  <2>4. task'[w] \in Tasks /\ task'[w].chunk = c /\ task'[w].left = Desired[c]
    BY <2>1, <2>2 DEF Tasks
  <2>5. stored' = stored
    BY <1>1 DEF pop
  <2> QED  BY <2>1, <2>2, <2>3, <2>4, <2>5 DEF TaskInv
<1>2. ASSUME NEW w \in Workers, Upload(w) PROVE TaskInv'
  <2> DEFINE c == task[w].chunk
             n == Head(task[w].left)
  <2>1. /\ task[w] \in Tasks /\ task[w].left \in Seq(Nodes) /\ task[w].left # <<>>
        /\ c \in FileChunks
    BY <1>2 DEF TaskInv, Tasks, Upload, At
  <2>2. /\ Elems(task[w].left) = {n} \cup Elems(Tail(task[w].left))
        /\ Tail(task[w].left) \in Seq(Nodes)
    BY <2>1, ElemsTail
  <2>3. n \in Elems(Desired[c]) /\ <<c, n>> \in FileReplicas
    BY <1>2, <2>1, <2>2, ReplicaOfFile DEF TaskInv, Upload, At
  <2>4. /\ task'[w].chunk = c /\ task'[w].left = Tail(task[w].left) /\ task'[w] \in Tasks
        /\ \A v \in Workers \ {w} : task'[v] = task[v]
    BY <1>2, <2>1, <2>2 DEF PipelineTypeOK, Upload, Tasks
  <2>5. stored' = stored \cup {<<c, n>>} /\ pc' = pc
    BY <1>2 DEF Upload
  <2>6. \A m \in Elems(Desired[c]) :
            m \in Elems(task'[w].left) \/ <<c, m>> \in stored'
    BY <1>2, <2>2, <2>4, <2>5 DEF TaskInv, Upload, At
  <2>7. /\ Elems(task'[w].left) \subseteq Elems(Desired[c])
        /\ stored' \subseteq FileReplicas
    BY <1>2, <2>2, <2>3, <2>4, <2>5 DEF TaskInv, Upload, At
  <2>8. ASSUME NEW v \in Workers \ {w}, pc'[v] = "work"
        PROVE  /\ task'[v] \in Tasks /\ task'[v].chunk \in FileChunks
               /\ Elems(task'[v].left) \subseteq Elems(Desired[task'[v].chunk])
               /\ \A m \in Elems(Desired[task'[v].chunk]) :
                      m \in Elems(task'[v].left) \/ <<task'[v].chunk, m>> \in stored'
    BY <2>4, <2>5, <2>8 DEF TaskInv
  <2> QED  BY <2>1, <2>4, <2>6, <2>7, <2>8 DEF TaskInv
<1>3. ASSUME NEW w \in Workers, Uploaded(w) PROVE TaskInv'
  <2>1. /\ pc'[w] = "pop" /\ stored' = stored
        /\ \A v \in Workers \ {w} : pc'[v] = pc[v] /\ task'[v] = task[v]
    BY <1>3, <1>p, GotoType DEF PipelineTypeOK, Uploaded
  <2> QED  BY <2>1 DEF TaskInv
<1>4. CASE SpawnEnds \/ Recorded \/ Close \/ NegotiateFails \/ Cancel \/ Join
  BY <1>4, <1>0, <1>p, <1>t, GotoType
     DEF SpawnEnds, Recorded, Close, NegotiateFails, Cancel, Join, fileVars, queueVars
<1>5. CASE Read
  <2>1. CASE Throws("source") \/ Throws("cancelled")
    BY <2>1, <1>t
  <2>2. CASE /\ Goto(Producer, "record") \/ Goto(Producer, "finish")
             /\ UNCHANGED <<queueVars, parked, failure, task, seen, staging, batch, stored, outcome>>
    BY <2>2, <1>0, <1>p, GotoType
  <2>3. CASE reads # <<>>
    BY <1>5, <2>1, <2>2, <2>3 DEF Read
  <2>4. CASE reads = <<>>
    BY <1>5, <2>1, <2>2, <2>4 DEF Read
  <2> QED  BY <2>3, <2>4
<1>6. CASE Record \/ Flush
  BY <1>6, <1>0 DEF Record, Flush
<1>7. CASE push
  <2>1. CASE Throws("cancelled")
    BY <2>1, <1>t
  <2>2. CASE UNCHANGED <<pc, task, stored>>
    BY <2>2, <1>0
  <2> QED  BY <1>7, <2>1, <2>2 DEF push
<1>8. ASSUME NEW w \in Workers,
             Spawn(w) \/ PopWaits(w) \/ PopEnds(w) \/ UploadFails(w) \/ WorkerCancels(w)
      PROVE  TaskInv'
  <2>1. CASE Spawn(w)
    <3>1. /\ UNCHANGED <<task, stored>> /\ pc'[w] = "pop"
          /\ \A v \in Workers \ {w} : pc'[v] = pc[v]
      BY <2>1 DEF PipelineTypeOK, Spawn
    <3> QED  BY <3>1, <1>0
  <2>2. CASE PopWaits(w) \/ PopEnds(w) \/ UploadFails(w) \/ WorkerCancels(w)
    BY <2>2, <1>0, <1>p, GotoType DEF PopWaits, PopEnds, UploadFails, WorkerCancels, fileVars
  <2> QED  BY <1>8, <2>1, <2>2
<1>9. CASE UNCHANGED vars
  BY <1>9, <1>0 DEF vars
<1> QED
  BY <1>1, <1>2, <1>3, <1>4, <1>5, <1>6, <1>7, <1>8, <1>9 DEF Next, ProducerStep, WorkerStep
-----------------------------------------------------------------------------
(* Where every chunk of the file is while no failure is on record: still   *)
(* to be recorded, or seen; and when seen it is staged, in the batch, in   *)
(* the queue or with a worker, unless all its replicas are stored.         *)

ToRecord == Unread(reads) \cup Elems(pending)
            \cup (IF pc[Producer] \in {"spawn", "read", "record"} THEN Elems(Rest) ELSE {})

Lined(c) == c \in Elems(staging) \cup Elems(batch) \cup Elems(items)
Worked(c) == \E w \in Workers : pc[w] = "work" /\ task[w].chunk = c
Placed(c) == Replicas(c) \subseteq stored

AccountInv == failure = "none" =>
    /\ FileChunks \subseteq ToRecord \cup seen
    /\ \A c \in seen : Lined(c) \/ Worked(c) \/ Placed(c)

LEMMA AccountInit == Init => AccountInv
<1> SUFFICES ASSUME Init PROVE AccountInv
  OBVIOUS
<1>1. pc[Producer] = "spawn" /\ seen = {} /\ reads = Reads
  BY DEF Init
<1>2. FileChunks \subseteq ToRecord
  BY <1>1, FileChunksOf DEF ToRecord
<1> QED  BY <1>1, <1>2 DEF AccountInv

LEMMA AccountStep ==
    PipelineTypeOK /\ CauseInv /\ EndInv /\ TaskInv /\ AccountInv /\ [Next]_vars => AccountInv'
<1> SUFFICES ASSUME PipelineTypeOK, CauseInv, EndInv, TaskInv, AccountInv, [Next]_vars,
                    failure' = "none"
             PROVE  /\ FileChunks \subseteq ToRecord' \cup seen'
                    /\ \A c \in seen' : Lined(c)' \/ Worked(c)' \/ Placed(c)'
  BY DEF AccountInv
<1> DEFINE Goal == /\ FileChunks \subseteq ToRecord' \cup seen'
                   /\ \A c \in seen' : Lined(c)' \/ Worked(c)' \/ Placed(c)'
<1>p. /\ ProducerPlaces = {"spawn", "read", "record", "finish", "cancel", "join", "gone"}
      /\ WorkerPlaces = {"unborn", "pop", "work", "cancel", "gone"}
      /\ Producer \notin Workers
  BY Assumed DEF ProducerPlaces, WorkerPlaces
<1>t. ~ \E what \in Failures : Throws(what)
  BY DEF Throws, record_failure, Failures
<1>f. ~ (\E w \in Workers : UploadFails(w))
  BY DEF UploadFails, record_failure
<1>a. failure = "none" => /\ FileChunks \subseteq ToRecord \cup seen
                          /\ \A c \in seen : Lined(c) \/ Worked(c) \/ Placed(c)
  BY DEF AccountInv
<1>0. ASSUME failure = "none", UNCHANGED <<items, task, fileVars, stored>>,
             \A w \in Workers : pc[w] = "work" => pc'[w] = "work",
             \/ pc'[Producer] = pc[Producer]
             \/ pc[Producer] # "record" /\ pc'[Producer] \in {"read", "record"}
             \/ pc[Producer] = "record" /\ pc'[Producer] = "read"
             \/ pc[Producer] \notin {"spawn", "read", "record"}
      PROVE  Goal
  BY <1>0, <1>a DEF ToRecord, Lined, Worked, Placed, fileVars
<1>1. CASE SpawnEnds
  BY <1>1, <1>0, <1>t, <1>p, GotoType DEF SpawnEnds, At, Failures, queueVars
<1>2. CASE Read
  <2>1. failure = "none" /\ pending = <<>> /\ pc[Producer] = "read" /\ seen' = seen
        /\ ~Throws("source") /\ ~Throws("cancelled")
    BY <1>2, <1>t DEF Read, At, EndInv, Failures
  <2>2. \A c \in seen : Lined(c)' \/ Worked(c)' \/ Placed(c)'
    <3>1. UNCHANGED <<items, task, staging, batch, stored>>
      BY <1>2, <2>1 DEF Read, queueVars
    <3>2. \A w \in Workers : pc'[w] = pc[w]
      BY <1>2, <2>1, <1>p, GotoType DEF Read
    <3> QED  BY <1>a, <2>1, <3>1, <3>2 DEF Lined, Worked, Placed
  <2>3. CASE reads # <<>>
    <3>1. reads' = Tail(reads) /\ pending' = Head(reads) /\ pc'[Producer] = "record"
      BY <1>2, <2>1, <2>3, <1>p, GotoType DEF Read
    <3>2. Unread(reads) = Elems(Head(reads)) \cup Unread(Tail(reads))
      BY <2>3, UnreadTail DEF PipelineTypeOK
    <3>3. ToRecord' = ToRecord
      BY <2>1, <3>1, <3>2, ElemsEmpty DEF ToRecord
    <3> QED  BY <1>a, <2>1, <2>2, <3>3
  <2>4. CASE reads = <<>>
    <3>1. reads' = reads /\ pending' = Rest /\ pc'[Producer] = "finish"
      BY <1>2, <2>1, <2>4, <1>p, GotoType DEF Read
    <3>2. ToRecord' = ToRecord
      BY <2>1, <3>1, ElemsEmpty DEF ToRecord
    <3> QED  BY <1>a, <2>1, <2>2, <3>2
  <2> QED  BY <2>3, <2>4
<1>3. CASE Record
  <2> DEFINE c == Head(pending)
  <2>1. /\ failure = "none" /\ seen' = seen \cup {c} /\ pending' = Tail(pending) /\ batch = <<>>
        /\ UNCHANGED <<items, pc, task, reads, stored>>
    BY <1>3 DEF Record, record_chunk, Negotiating, queueVars
  <2>2. c \in Chunks /\ Elems(pending) = {c} \cup Elems(Tail(pending))
    BY <1>3, ElemsTail DEF Record, PipelineTypeOK
  <2>3. FileChunks \subseteq ToRecord' \cup seen'
    BY <1>a, <2>1, <2>2 DEF ToRecord
  <2>4. /\ Elems(staging) \subseteq Elems(staging') \cup Elems(batch')
        /\ c \notin seen => c \in Elems(staging') \cup Elems(batch')
    <3>1. Elems(Append(staging, c)) = Elems(staging) \cup {c}
      BY <2>2, ElemsAppend DEF PipelineTypeOK
    <3> QED  BY <1>3, <3>1 DEF Record, record_chunk
  <2>5. \A d \in seen' : Lined(d)' \/ Worked(d)' \/ Placed(d)'
    BY <1>a, <2>1, <2>4, ElemsEmpty DEF Lined, Worked, Placed
  <2> QED  BY <2>3, <2>5
<1>4. CASE Recorded
  BY <1>4, <1>0, <1>p, GotoType DEF Recorded, At, queueVars
<1>5. CASE Flush
  <2>1. /\ failure = "none" /\ batch = <<>> /\ batch' = staging /\ staging' = <<>>
        /\ UNCHANGED <<items, pc, task, reads, pending, seen, stored>>
    BY <1>5 DEF Flush, Negotiating, queueVars
  <2> QED  BY <1>a, <2>1, ElemsEmpty DEF ToRecord, Lined, Worked, Placed
<1>6. CASE Close
  BY <1>6, <1>0, <1>p, GotoType DEF Close, close, At
<1>7. CASE NegotiateFails
  BY <1>7, <1>t DEF NegotiateFails, Failures
<1>8. CASE push
  <2>1. CASE /\ batch # <<>> /\ items' = Append(items, Head(batch)) /\ batch' = Tail(batch)
             /\ UNCHANGED <<closed, cancelled, failure, pc, task, reads, pending, seen, staging,
                            stored, outcome>>
    <3>1. /\ Head(batch) \in Chunks
          /\ Elems(batch) = {Head(batch)} \cup Elems(Tail(batch))
      BY <2>1, ElemsTail DEF PipelineTypeOK
    <3>2. Elems(items') = Elems(items) \cup {Head(batch)}
      BY <2>1, <3>1, ElemsAppend DEF PipelineTypeOK
    <3> QED  BY <1>a, <2>1, <3>1, <3>2 DEF ToRecord, Lined, Worked, Placed
  <2>2. CASE UNCHANGED <<queueVars, failure, pc, task, fileVars, stored, outcome>>
    BY <2>2, <1>0 DEF queueVars
  <2> QED  BY <1>8, <1>t, <2>1, <2>2 DEF push, Negotiating, Failures
<1>9. CASE Cancel
  BY <1>9, <1>p DEF Cancel, At, CauseInv
<1>10. CASE Join
  BY <1>10, <1>0, <1>p, GotoType DEF Join, At, queueVars
<1>11. ASSUME NEW w \in Workers, Spawn(w) PROVE Goal
  <2>1. /\ failure = "none" /\ UNCHANGED <<items, task, fileVars, stored>>
        /\ pc'[Producer] = pc[Producer]
        /\ \A v \in Workers : pc[v] = "work" => pc'[v] = "work"
    BY <1>11, <1>p DEF PipelineTypeOK, Spawn, queueVars
  <2> QED  BY <2>1, <1>0
<1>12. ASSUME NEW w \in Workers, pop(w) PROVE Goal
  <2>1. /\ failure = "none" /\ items' = Tail(items) /\ UNCHANGED <<fileVars, stored>>
        /\ task'[w].chunk = Head(items)
        /\ \A v \in Workers \ {w} : task'[v] = task[v]
    BY <1>12 DEF PipelineTypeOK, pop
  <2>2. /\ pc'[Producer] = pc[Producer] /\ pc[w] = "pop" /\ pc'[w] = "work"
        /\ \A v \in Workers \ {w} : pc'[v] = pc[v]
    BY <1>12, <1>p, GotoType DEF pop, At
  <2>3. Elems(items) = {Head(items)} \cup Elems(Tail(items))
    BY <1>12, ElemsTail DEF PipelineTypeOK, pop
  <2> QED  BY <1>a, <2>1, <2>2, <2>3 DEF ToRecord, Lined, Worked, Placed, fileVars
<1>13. ASSUME NEW w \in Workers, PopWaits(w) PROVE Goal
  BY <1>13, <1>0 DEF PopWaits, queueVars
<1>14. ASSUME NEW w \in Workers, PopEnds(w) PROVE Goal
  BY <1>14, <1>0, <1>p, GotoType DEF PopEnds, At, queueVars
<1>15. ASSUME NEW w \in Workers, Upload(w) PROVE Goal
  <2>1. /\ failure = "none" /\ UNCHANGED <<items, pc, fileVars>> /\ stored \subseteq stored'
        /\ task[w] \in Tasks /\ \A v \in Workers \ {w} : task'[v] = task[v]
    BY <1>15 DEF PipelineTypeOK, TaskInv, Upload, At, queueVars
  <2>2. task'[w].chunk = task[w].chunk
    BY <1>15, <2>1 DEF PipelineTypeOK, Upload, Tasks
  <2> QED  BY <1>a, <2>1, <2>2 DEF ToRecord, Lined, Worked, Placed, fileVars
<1>16. ASSUME NEW w \in Workers, Uploaded(w) PROVE Goal
  <2> DEFINE c == task[w].chunk
  <2>1. /\ failure = "none" /\ UNCHANGED <<items, fileVars, stored>>
        /\ pc'[Producer] = pc[Producer]
        /\ \A v \in Workers \ {w} : pc'[v] = pc[v] /\ task'[v] = task[v]
    BY <1>16, <1>p, GotoType DEF PipelineTypeOK, Uploaded, queueVars
  <2>2. Placed(c)
    BY <1>16, ElemsEmpty DEF TaskInv, Uploaded, At, Placed, Replicas
  <2> QED  BY <1>a, <2>1, <2>2 DEF ToRecord, Lined, Worked, Placed, fileVars
<1>17. ASSUME NEW w \in Workers, WorkerCancels(w) PROVE Goal
  BY <1>17 DEF WorkerCancels, At, CauseInv
<1>18. CASE UNCHANGED vars
  BY <1>18, <1>0 DEF vars, queueVars
<1> QED
  BY <1>f, <1>1, <1>2, <1>3, <1>4, <1>5, <1>6, <1>7, <1>8, <1>9, <1>10, <1>11, <1>12, <1>13,
     <1>14, <1>15, <1>16, <1>17, <1>18 DEF Next, ProducerStep, WorkerStep
-----------------------------------------------------------------------------
(* The promise of Transfer.                                                *)

PushInv == PipelineTypeOK /\ CauseInv /\ EndInv /\ SourceInv /\ TaskInv /\ AccountInv

LEMMA PushInvHolds == Spec => []PushInv
<1>1. Init => PushInv
  BY TypeInit, CauseInit, EndInit, SourceInit, TaskInit, AccountInit DEF PushInv
<1>2. PushInv /\ [Next]_vars => PushInv'
  BY TypeStep, CauseStep, EndStep, SourceStep, TaskStep, AccountStep DEF PushInv
<1> QED  BY <1>1, <1>2, PTL DEF Spec

LEMMA PromiseInit == Init => TransferOf!Init
  BY DEF Init, TransferOf!Init

\* When push returns without a failure nothing is left to do, so every replica is stored.
LEMMA AllStored ==
    ASSUME PushInv, Join, failure = "none"
    PROVE  stored = FileReplicas
<1>1. /\ reads = <<>> /\ pending = <<>> /\ staging = <<>> /\ batch = <<>>
      /\ pc[Producer] = "join"
  BY DEF PushInv, EndInv, Join, At
<1>2. \A w \in Workers : pc[w] = "gone" /\ items = <<>>
  BY <1>1 DEF PushInv, EndInv, Join
<1>3. items = <<>>
  BY <1>2, Assumed
<1>4. ASSUME NEW c \in FileChunks PROVE Replicas(c) \subseteq stored
  <2>1. Unread(reads) = {}
    BY <1>1 DEF Unread
  <2>2. c \in seen
    BY <1>1, <1>4, <2>1, ElemsEmpty DEF PushInv, AccountInv, ToRecord
  <2>3. ~Lined(c) /\ ~Worked(c)
    BY <1>1, <1>2, <1>3, ElemsEmpty DEF Lined, Worked
  <2> QED  BY <2>2, <2>3 DEF PushInv, AccountInv, Placed
<1>5. FileReplicas = UNION {Replicas(c) : c \in FileChunks}
  BY DEF FileReplicas, Replicas
<1>6. FileReplicas \subseteq stored
  BY <1>4, <1>5
<1> QED  BY <1>6 DEF PushInv, TaskInv

LEMMA PromiseStep ==
    ASSUME PushInv, PushInv', [Next]_vars
    PROVE  [TransferOf!Next]_<<stored, outcome>>
<1>1. CASE Join
  <2>1. outcome = "running" /\ stored' = stored
    BY <1>1 DEF PushInv, EndInv, Join, At
  <2>2. CASE failure = "none"
    BY <1>1, <2>1, <2>2, AllStored DEF Join, TransferOf!Next, TransferOf!Prepare
  <2>3. CASE failure # "none"
    BY <1>1, <2>1, <2>3 DEF Join, TransferOf!Next, TransferOf!Fail
  <2> QED  BY <2>2, <2>3
<1>2. ASSUME NEW w \in Workers, Upload(w)
      PROVE  [TransferOf!Next]_<<stored, outcome>>
  <2> DEFINE r == <<task[w].chunk, Head(task[w].left)>>
  <2>1. stored' = stored \cup {r} /\ outcome' = outcome
    BY <1>2 DEF Upload
  <2>2. outcome = "running"
    BY <1>2 DEF PushInv, EndInv, Upload, At
  <2>3. r \in FileReplicas
    BY <2>1 DEF PushInv, TaskInv
  <2>4. CASE r \in stored
    BY <2>1, <2>4
  <2>5. CASE r \notin stored
    BY <2>1, <2>2, <2>3, <2>5 DEF TransferOf!Next, TransferOf!Store
  <2> QED  BY <2>4, <2>5
<1>3. CASE ~Join /\ ~ \E w \in Workers : Upload(w)
  <2>1. UNCHANGED <<stored, outcome>>
    <3>t. ASSUME NEW what, Throws(what) PROVE UNCHANGED <<stored, outcome>>
      BY <3>t DEF Throws
    <3>1. CASE SpawnEnds \/ Record \/ Recorded \/ Flush \/ Close \/ NegotiateFails \/ Cancel
      BY <3>1, <3>t DEF SpawnEnds, Record, Recorded, Flush, Close, NegotiateFails, Cancel
    <3>2. CASE Read \/ push
      BY <3>2, <3>t DEF Read, push
    <3>3. ASSUME NEW w \in Workers,
                 \/ Spawn(w) \/ pop(w) \/ PopWaits(w) \/ PopEnds(w) \/ UploadFails(w)
                 \/ Uploaded(w) \/ WorkerCancels(w)
          PROVE  UNCHANGED <<stored, outcome>>
      BY <3>3 DEF Spawn, pop, PopWaits, PopEnds, UploadFails, Uploaded, WorkerCancels
    <3>4. CASE UNCHANGED vars
      BY <3>4 DEF vars
    <3> QED
      BY <1>3, <3>1, <3>2, <3>3, <3>4 DEF Next, ProducerStep, WorkerStep
  <2> QED  BY <2>1
<1> QED  BY <1>1, <1>2, <1>3

\* A push that returns a layout has stored every replica of every chunk of the file, and a push
\* that has returned stores nothing more, whatever its threads did before.
THEOREM TransferPromiseHolds == Spec => TransferPromise
<1>1. PushInv /\ PushInv' /\ [Next]_vars => [TransferOf!Next]_<<stored, outcome>>
  BY PromiseStep
<1> QED  BY <1>1, PushInvHolds, PromiseInit, PTL DEF Spec, TransferPromise, TransferOf!Spec
-----------------------------------------------------------------------------
(* A chunk is in one place at a time: what is staged, in the batch, in the *)
(* queue or with a worker has been seen, and record_chunk stages a chunk   *)
(* only once.                                                              *)

Distinct(s) == \A i, j \in DOMAIN s : s[i] = s[j] => i = j

With(w) == {task[w].chunk} \cap Chunks

HeldInv ==
    /\ Distinct(staging) /\ Distinct(batch) /\ Distinct(items)
    /\ Elems(staging) \cap Elems(batch) = {}
    /\ Elems(staging) \cap Elems(items) = {}
    /\ Elems(batch) \cap Elems(items) = {}
    /\ Elems(staging) \cup Elems(batch) \cup Elems(items) \subseteq seen
    /\ \A w \in Workers :
          /\ With(w) \subseteq seen \ (Elems(staging) \cup Elems(batch) \cup Elems(items))
          /\ \A v \in Workers \ {w} : With(w) \cap With(v) = {}

LEMMA DistinctEmpty == Distinct(<<>>)
  BY DEF Distinct

LEMMA DistinctAppend ==
    ASSUME NEW S, NEW s \in Seq(S), NEW e \in S, Distinct(s), e \notin Elems(s)
    PROVE  Distinct(Append(s, e))
<1>1. /\ DOMAIN Append(s, e) = 1..(Len(s) + 1) /\ DOMAIN s = 1..Len(s)
      /\ \A i \in 1..Len(s) : Append(s, e)[i] = s[i]
      /\ Append(s, e)[Len(s) + 1] = e
  OBVIOUS
<1>2. \A i \in 1..Len(s) : s[i] # e
  BY <1>1 DEF Elems
<1> QED  BY <1>1, <1>2 DEF Distinct

LEMMA DistinctTail ==
    ASSUME NEW S, NEW s \in Seq(S), s # <<>>, Distinct(s)
    PROVE  Distinct(Tail(s)) /\ Head(s) \notin Elems(Tail(s))
<1>1. /\ Len(s) \in Nat \ {0} /\ Head(s) = s[1] /\ DOMAIN s = 1..Len(s)
      /\ DOMAIN Tail(s) = 1..(Len(s) - 1)
      /\ \A i \in 1..(Len(s) - 1) : Tail(s)[i] = s[i + 1]
  OBVIOUS
<1>2. Distinct(Tail(s))
  <2> SUFFICES ASSUME NEW i \in DOMAIN Tail(s), NEW j \in DOMAIN Tail(s), Tail(s)[i] = Tail(s)[j]
               PROVE  i = j
    BY DEF Distinct
  <2>1. i + 1 \in DOMAIN s /\ j + 1 \in DOMAIN s /\ s[i + 1] = s[j + 1]
    BY <1>1
  <2> QED  BY <1>1, <2>1 DEF Distinct
<1>3. ASSUME NEW i \in DOMAIN Tail(s) PROVE Tail(s)[i] # Head(s)
  <2>1. i + 1 \in DOMAIN s /\ 1 \in DOMAIN s /\ i + 1 # 1 /\ Tail(s)[i] = s[i + 1]
    BY <1>1
  <2> QED  BY <1>1, <2>1 DEF Distinct
<1> QED  BY <1>2, <1>3 DEF Elems

\* How often a chunk is in a sequence without repetitions.
LEMMA CountDistinct ==
    ASSUME NEW S, NEW s \in Seq(S), NEW c, Distinct(s)
    PROVE  Cardinality({i \in DOMAIN s : s[i] = c}) = IF c \in Elems(s) THEN 1 ELSE 0
<1> DEFINE At_c == {i \in DOMAIN s : s[i] = c}
<1>1. CASE c \in Elems(s)
  <2>1. PICK i \in DOMAIN s : s[i] = c
    BY <1>1 DEF Elems
  <2>2. At_c = {i}
    BY <2>1 DEF Distinct
  <2> HIDE DEF At_c
  <2>3. Cardinality(At_c) = 1
    BY <2>2, FS_Singleton
  <2> QED  BY <1>1, <2>3 DEF At_c
<1>2. CASE c \notin Elems(s)
  <2>1. At_c = {}
    BY <1>2 DEF Elems
  <2> HIDE DEF At_c
  <2>2. Cardinality(At_c) = 0
    BY <2>1, FS_EmptySet
  <2> QED  BY <1>2, <2>2 DEF At_c
<1> QED  BY <1>1, <1>2

LEMMA HeldInit == Init => HeldInv
<1> SUFFICES ASSUME Init PROVE HeldInv
  OBVIOUS
<1>1. \A w \in Workers : With(w) = {}
  BY PipelineAssumption DEF Init, With, NoTask
<1> QED  BY <1>1, ElemsEmpty, DistinctEmpty DEF Init, HeldInv

LEMMA HeldStep == PipelineTypeOK /\ HeldInv /\ [Next]_vars => HeldInv'
<1> SUFFICES ASSUME PipelineTypeOK, HeldInv, [Next]_vars
             PROVE  HeldInv'
  OBVIOUS
<1>0. /\ items \in Seq(Chunks) /\ batch \in Seq(Chunks) /\ staging \in Seq(Chunks)
      /\ pending \in Seq(Chunks) /\ task \in [Workers -> Tasks \cup {NoTask}]
  BY DEF PipelineTypeOK
<1>n. NoTask.chunk \notin Chunks
  BY PipelineAssumption DEF NoTask
\* Whoever does none of these leaves the chunks where they are, or empties the queue.
<1>1. ASSUME items' \in {items, <<>>}, UNCHANGED <<staging, batch, seen>>,
             \A w \in Workers : With(w)' \subseteq With(w)
      PROVE  HeldInv'
  <2>1. Distinct(items') /\ Elems(items') \subseteq Elems(items)
    BY <1>1, DistinctEmpty, ElemsEmpty DEF HeldInv
  <2>2. /\ Distinct(staging') /\ Distinct(batch')
        /\ Elems(staging') = Elems(staging) /\ Elems(batch') = Elems(batch) /\ seen' = seen
    BY <1>1 DEF HeldInv
  <2> QED  BY <1>1, <2>1, <2>2 DEF HeldInv
<1>2. CASE Record
  <2> DEFINE c == Head(pending)
             staged == IF c \in seen THEN staging ELSE Append(staging, c)
  <2>1. /\ c \in Chunks /\ batch = <<>> /\ seen' = seen \cup {c} /\ UNCHANGED <<items, task>>
        /\ \/ staging' = staged /\ batch' = <<>>
           \/ staging' = <<>> /\ batch' = staged
    BY <1>2, <1>0, ElemsTail DEF Record, record_chunk, Negotiating, queueVars
  <2>2. Distinct(staged) /\ Elems(staged) = IF c \in seen THEN Elems(staging) ELSE Elems(staging) \cup {c}
    <3>1. CASE c \in seen
      BY <3>1 DEF HeldInv
    <3>2. CASE c \notin seen
      <4>1. c \notin Elems(staging)
        BY <3>2 DEF HeldInv
      <4> QED  BY <1>0, <2>1, <3>2, <4>1, DistinctAppend, ElemsAppend DEF HeldInv
    <3> QED  BY <3>1, <3>2
  <2>3. \A w \in Workers : With(w)' = With(w)
    BY <2>1 DEF With
  <2> HIDE DEF c, staged
  <2> QED  BY <2>1, <2>2, <2>3, DistinctEmpty, ElemsEmpty DEF HeldInv
<1>3. CASE Flush
  <2>1. batch = <<>> /\ batch' = staging /\ staging' = <<>> /\ UNCHANGED <<items, task, seen>>
    BY <1>3 DEF Flush, Negotiating, queueVars
  <2>2. \A w \in Workers : With(w)' = With(w)
    BY <2>1 DEF With
  <2> QED  BY <2>1, <2>2, DistinctEmpty, ElemsEmpty DEF HeldInv
<1>4. CASE push
  <2>1. CASE /\ batch # <<>> /\ items' = Append(items, Head(batch)) /\ batch' = Tail(batch)
             /\ UNCHANGED <<task, seen, staging>>
    <3>1. /\ Head(batch) \in Chunks /\ Elems(batch) = {Head(batch)} \cup Elems(Tail(batch))
          /\ Distinct(Tail(batch)) /\ Head(batch) \notin Elems(Tail(batch))
      BY <1>0, <2>1, ElemsTail, DistinctTail DEF HeldInv
    <3>2. Distinct(items') /\ Elems(items') = Elems(items) \cup {Head(batch)}
      BY <1>0, <2>1, <3>1, ElemsAppend, DistinctAppend DEF HeldInv
    <3>3. \A w \in Workers : With(w)' = With(w)
      BY <2>1 DEF With
    <3>4. /\ Distinct(batch') /\ Elems(batch) = {Head(batch)} \cup Elems(batch')
          /\ Head(batch) \notin Elems(batch')
      BY <2>1, <3>1
    <3> QED  BY <2>1, <3>2, <3>3, <3>4 DEF HeldInv
  <2>2. CASE UNCHANGED <<queueVars, task, fileVars>>
    BY <2>2, <1>1 DEF queueVars, fileVars, With
  <2> QED  BY <1>4, <2>1, <2>2 DEF push, Throws, Negotiating
<1>5. ASSUME NEW w \in Workers, pop(w) PROVE HeldInv'
  <2> DEFINE c == Head(items)
  <2>1. /\ c \in Chunks /\ Elems(items) = {c} \cup Elems(items')
        /\ Distinct(items') /\ c \notin Elems(items')
        /\ UNCHANGED <<staging, batch, seen>>
    BY <1>0, <1>5, ElemsTail, DistinctTail DEF HeldInv, pop, fileVars
  <2>2. With(w)' = {c} /\ \A v \in Workers \ {w} : With(v)' = With(v)
    BY <1>0, <1>5, <2>1 DEF pop, With
  <2> HIDE DEF c
  <2> QED  BY <2>1, <2>2 DEF HeldInv
<1>6. ASSUME NEW w \in Workers, Upload(w) \/ Uploaded(w) PROVE HeldInv'
  <2>1. \A v \in Workers : With(v)' \subseteq With(v)
    <3>1. ASSUME Upload(w), NEW v \in Workers PROVE task'[v].chunk = task[v].chunk
      <4>1. task[w] \in Tasks
        BY <1>0, <3>1 DEF Upload, NoTask
      <4>2. [task[w] EXCEPT !.left = Tail(@)].chunk = task[w].chunk
        BY <4>1 DEF Tasks
      <4> QED  BY <1>0, <3>1, <4>2 DEF Upload
    <3>2. ASSUME Uploaded(w), NEW v \in Workers PROVE task'[v] \in {task[v], NoTask}
      BY <1>0, <3>2 DEF Uploaded
    <3>3. CASE Upload(w)
      BY <3>1, <3>3 DEF With
    <3>4. CASE Uploaded(w)
      BY <3>2, <3>4, <1>n DEF With
    <3> QED  BY <1>6, <3>3, <3>4
  <2> QED  BY <1>1, <1>6, <2>1 DEF Upload, Uploaded, queueVars, fileVars
<1>7. CASE Close \/ Cancel \/ \E w \in Workers : WorkerCancels(w)
  BY <1>1, <1>7 DEF Close, close, Cancel, WorkerCancels, cancel, fileVars, With
<1>8. CASE UNCHANGED <<queueVars, task, seen, staging, batch>>
  BY <1>1, <1>8 DEF queueVars, With
<1> QED
  BY <1>2, <1>3, <1>4, <1>5, <1>6, <1>7, <1>8
     DEF Next, ProducerStep, WorkerStep, Spawn, SpawnEnds, Read, Recorded, NegotiateFails, Join,
         PopWaits, PopEnds, UploadFails, Throws, vars, queueVars, fileVars

\* No chunk is with two threads, or twice on its way to them: a worker that uploads a chunk is
\* the only one that does, for any repetitions in the file (record_chunk, BoundedQueue).
THEOREM UploadsDisjointHolds == Spec => []UploadsDisjoint
<1>1. PipelineTypeOK /\ HeldInv => UploadsDisjoint
  <2> SUFFICES ASSUME PipelineTypeOK, HeldInv, NEW c \in Chunks
               PROVE  Cardinality({i \in DOMAIN staging : staging[i] = c})
                      + Cardinality({i \in DOMAIN batch : batch[i] = c})
                      + Cardinality({i \in DOMAIN items : items[i] = c})
                      + Cardinality({w \in Workers : task[w].chunk = c}) <= 1
    BY DEF UploadsDisjoint
  <2> DEFINE W == {w \in Workers : task[w].chunk = c}
  <2>1. /\ Cardinality({i \in DOMAIN staging : staging[i] = c}) = IF c \in Elems(staging) THEN 1 ELSE 0
        /\ Cardinality({i \in DOMAIN batch : batch[i] = c}) = IF c \in Elems(batch) THEN 1 ELSE 0
        /\ Cardinality({i \in DOMAIN items : items[i] = c}) = IF c \in Elems(items) THEN 1 ELSE 0
    BY CountDistinct DEF PipelineTypeOK, HeldInv
  <2>2. \/ Cardinality(W) = 0
        \/ Cardinality(W) = 1 /\ c \notin Elems(staging) \cup Elems(batch) \cup Elems(items)
    <3>1. CASE W = {}
      <4> HIDE DEF W
      <4> QED  BY <3>1, FS_EmptySet
    <3>2. ASSUME NEW w \in W PROVE Cardinality(W) = 1 /\ c \in With(w)
      <4>1. w \in Workers /\ c \in With(w)
        BY <3>2 DEF With
      <4>2. W = {w}
        BY <4>1 DEF HeldInv, With
      <4> HIDE DEF W
      <4> QED  BY <4>1, <4>2, FS_Singleton
    <3>3. CASE W # {}
      <4>1. PICK w \in W : TRUE
        BY <3>3
      <4>2. w \in Workers
        OBVIOUS
      <4> HIDE DEF W
      <4> QED  BY <3>2, <4>1, <4>2 DEF HeldInv
    <3> QED  BY <3>1, <3>3
  <2>3. /\ ~(c \in Elems(staging) /\ c \in Elems(batch))
        /\ ~(c \in Elems(staging) /\ c \in Elems(items))
        /\ ~(c \in Elems(batch) /\ c \in Elems(items))
    BY DEF HeldInv
  <2> HIDE DEF W
  <2>4. /\ Cardinality({i \in DOMAIN staging : staging[i] = c})
           + Cardinality({i \in DOMAIN batch : batch[i] = c})
           + Cardinality({i \in DOMAIN items : items[i] = c})
           + Cardinality(W) <= 1
    BY <2>1, <2>2, <2>3
  <2> QED  BY <2>4 DEF W
<1> QED  BY <1>1, HeldInit, HeldStep, PipelineTypeHolds, PTL DEF Spec
=============================================================================

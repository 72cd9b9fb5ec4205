---------------------------- MODULE YfsLoopProof ----------------------------
(***************************************************************************)
(* Theorems about YfsLoop for any set of processes and any calls of theirs. *)
(* What a process reports depends on the message it holds, so the invariant *)
(* says for every process in a call what its message is: its own, the       *)
(* answer that its own type gets, or the error reply.                       *)
(***************************************************************************)
EXTENDS YfsLoop, SequenceTheorems, TLAPS

Sent(type) == [type |-> type, data |-> "own"]

(* The message of process c, and what the server did for it.                *)
Untouched(c) == box[c] = Sent(call[c]) /\ effect[c] = "none"
Answered(c) ==
  \/ box[c] = DoneReply(Sent(call[c])) /\ effect[c] = "done"
  \/ box[c] = ErrorReply(Sent(call[c])) /\ effect[c] = "refused"

Held(c) ==
  /\ where[c] = "blocked" => Untouched(c)
  /\ where[c] = "back" => Answered(c) \/ (Untouched(c) /\ server = "gone")

IInv == TypeOK /\ NoRequestLost /\ \A c \in Clients : Held(c)

(* What handlers send are messages.                                         *)
LEMMA MessageTypes ==
  ASSUME NEW type \in Types
  PROVE  /\ Sent(type) \in Message
         /\ DoneReply(Sent(type)) \in Message
         /\ ErrorReply(Sent(type)) \in Message
BY DEF Sent, DoneReply, ErrorReply, Message

(* The queue after Append and after Tail.                                   *)
LEMMA QueueAppend ==
  ASSUME NEW q \in Seq(Clients), NEW c \in Clients
  PROVE  /\ Append(q, c) \in Seq(Clients)
         /\ DOMAIN Append(q, c) = DOMAIN q \cup {Len(q) + 1}
         /\ Len(q) + 1 \notin DOMAIN q
         /\ \A i \in DOMAIN q : Append(q, c)[i] = q[i]
         /\ Append(q, c)[Len(q) + 1] = c
OBVIOUS

(* The queue without its head.                                              *)
LEMMA QueueTail ==
  ASSUME NEW q \in Seq(Clients), q # << >>
  PROVE  /\ Tail(q) \in Seq(Clients) /\ Head(q) \in Clients
         /\ 1 \in DOMAIN q /\ q[1] = Head(q)
         /\ \A i \in DOMAIN Tail(q) : i + 1 \in DOMAIN q /\ i + 1 # 1 /\ Tail(q)[i] = q[i + 1]
         /\ \A i \in DOMAIN q : i # 1 => i - 1 \in DOMAIN Tail(q) /\ Tail(q)[i - 1] = q[i]
         /\ \A i \in DOMAIN Tail(q) : i \in Int
OBVIOUS

----------------------------------------------------------------------------
(* The library's steps.                                                     *)

LEMMA SendStep ==
  ASSUME IInv, NEW c \in Clients, NEW type \in Calls, Send(c, type)
  PROVE  IInv'
<1>1. type \in Types /\ type # "none"
  BY CallAssumption DEF Types, TestsType, TestsData, TestsNothing, Unanswered
<1>2. /\ where[c] = "running" /\ UNCHANGED <<server, received>>
      /\ call' = [call EXCEPT ![c] = type]
      /\ box' = [box EXCEPT ![c] = Sent(type)]
      /\ effect' = [effect EXCEPT ![c] = "none"]
  BY DEF Send, Sent
<1>3. TypeOK /\ NoRequestLost
  BY DEF IInv
<1>4. Sent(type) \in Message
  BY <1>1, MessageTypes
<1>5. CASE server = "gone"
  <2>1. where' = [where EXCEPT ![c] = "back"] /\ UNCHANGED queue
    BY <1>5 DEF Send
  <2>2. TypeOK'
    BY <1>1, <1>2, <1>3, <1>4, <2>1 DEF TypeOK
  <2>3. NoRequestLost'
    BY <1>2, <1>3, <1>5, <2>1 DEF NoRequestLost
  <2>4. \A d \in Clients : Held(d)'
    <3> TAKE d \in Clients
    <3>1. CASE d = c
      BY <3>1, <1>2, <1>3, <1>5, <2>1 DEF Held, Untouched, TypeOK
    <3>2. CASE d # c
      <4>1. Held(d) /\ where'[d] = where[d] /\ box'[d] = box[d]
            /\ call'[d] = call[d] /\ effect'[d] = effect[d]
        BY <3>2, <1>2, <1>3, <2>1 DEF IInv, TypeOK
      <4> QED
        BY <4>1, <1>2 DEF Held, Untouched, Answered
    <3> QED
      BY <3>1, <3>2
  <2> QED
    BY <2>2, <2>3, <2>4 DEF IInv
<1>6. CASE server # "gone"
  <2>1. where' = [where EXCEPT ![c] = "blocked"] /\ queue' = Append(queue, c)
    BY <1>6 DEF Send
  <2>2. queue \in Seq(Clients)
    BY <1>3 DEF TypeOK
  <2>3. /\ queue' \in Seq(Clients)
        /\ DOMAIN queue' = DOMAIN queue \cup {Len(queue) + 1}
        /\ Len(queue) + 1 \notin DOMAIN queue
        /\ \A i \in DOMAIN queue : queue'[i] = queue[i]
        /\ queue'[Len(queue) + 1] = c
    BY <2>1, <2>2, QueueAppend
  <2>4. TypeOK'
    BY <1>1, <1>2, <1>3, <1>4, <2>1, <2>3 DEF TypeOK
  <2>5. ~ Queued(c) /\ c \notin received
    BY <1>2, <1>3, <1>6 DEF NoRequestLost
  <2>6. \A i \in DOMAIN queue : queue[i] # c
    BY <2>5 DEF Queued
  <2>7. \A d \in Clients \ {c} : where'[d] = where[d] /\ call'[d] = call[d]
    BY <1>2, <1>3, <2>1 DEF TypeOK
  <2>8. \A d \in Clients : Queued(d)' <=> Queued(d) \/ d = c
    BY <2>3 DEF Queued
  <2>9. where'[c] = "blocked"
    BY <1>3, <2>1 DEF TypeOK
  <2>10. NoRequestLost'
    <3>1. ASSUME NEW d \in Clients
          PROVE  /\ server' # "gone" /\ where'[d] = "blocked" /\ call'[d] \notin Unanswered
                    => Queued(d)' \/ d \in received'
                 /\ server' # "gone" /\ (Queued(d)' \/ d \in received') => where'[d] = "blocked"
      BY <1>2, <1>3, <2>7, <2>8, <2>9 DEF NoRequestLost
    <3>2. \A i, j \in DOMAIN queue' : queue'[i] = queue'[j] => i = j
      BY <1>3, <2>3, <2>6 DEF NoRequestLost
    <3>3. \A i \in DOMAIN queue' : queue'[i] \notin received'
      BY <1>2, <1>3, <2>3, <2>5 DEF NoRequestLost
    <3> QED
      BY <3>1, <3>2, <3>3 DEF NoRequestLost
  <2>11. \A d \in Clients : Held(d)'
    <3> TAKE d \in Clients
    <3>1. CASE d = c
      BY <3>1, <1>2, <1>3, <2>1 DEF Held, Untouched, TypeOK
    <3>2. CASE d # c
      <4>1. Held(d) /\ where'[d] = where[d] /\ box'[d] = box[d]
            /\ call'[d] = call[d] /\ effect'[d] = effect[d]
        BY <3>2, <1>2, <1>3, <2>1 DEF IInv, TypeOK
      <4> QED
        BY <4>1, <1>2 DEF Held, Untouched, Answered
    <3> QED
      BY <3>1, <3>2
  <2> QED
    BY <2>4, <2>10, <2>11 DEF IInv
<1> QED
  BY <1>5, <1>6

LEMMA SendFailsStep ==
  ASSUME IInv, NEW c \in Clients, SendFails(c)
  PROVE  IInv'
<1>1. /\ server = "gone" /\ where[c] = "blocked"
      /\ where' = [where EXCEPT ![c] = "back"]
      /\ UNCHANGED <<server, queue, received, call, box, effect>>
  BY DEF SendFails
<1>2. TypeOK /\ NoRequestLost
  BY DEF IInv
<1>3. TypeOK'
  BY <1>1, <1>2 DEF TypeOK
<1>4. NoRequestLost'
  BY <1>1, <1>2 DEF NoRequestLost
<1>5. \A d \in Clients : Held(d)'
  <2> TAKE d \in Clients
  <2>1. Held(d) /\ where'[d] \in {where[d], "back"} /\ (d # c => where'[d] = where[d])
    BY <1>1, <1>2 DEF IInv, TypeOK
  <2> QED
    BY <2>1, <1>1 DEF Held, Untouched, Answered
<1> QED
  BY <1>3, <1>4, <1>5 DEF IInv

LEMMA ReturnStep ==
  ASSUME IInv, NEW c \in Clients, Return(c)
  PROVE  IInv'
<1>1. /\ where[c] = "back"
      /\ call' = [call EXCEPT ![c] = "none"]
      /\ UNCHANGED <<server, queue, received, box, effect>>
  BY DEF Return
<1>2. PICK end \in {"running", "exited"} : where' = [where EXCEPT ![c] = end]
  BY DEF Return
<1>3. TypeOK /\ NoRequestLost
  BY DEF IInv
<1>4. TypeOK'
  BY <1>1, <1>2, <1>3 DEF TypeOK
<1>5. \A d \in Clients \ {c} : where'[d] = where[d] /\ call'[d] = call[d]
  BY <1>1, <1>2, <1>3 DEF TypeOK
<1>6. where'[c] = end
  BY <1>2, <1>3 DEF TypeOK
<1>7. \A d \in Clients : Queued(d)' <=> Queued(d)
  BY <1>1 DEF Queued
<1>8. NoRequestLost'
  <2>1. ASSUME NEW d \in Clients
        PROVE  /\ server' # "gone" /\ where'[d] = "blocked" /\ call'[d] \notin Unanswered
                  => Queued(d)' \/ d \in received'
               /\ server' # "gone" /\ (Queued(d)' \/ d \in received') => where'[d] = "blocked"
    BY <1>1, <1>3, <1>5, <1>6, <1>7 DEF NoRequestLost
  <2>2. /\ \A i, j \in DOMAIN queue' : queue'[i] = queue'[j] => i = j
        /\ \A i \in DOMAIN queue' : queue'[i] \notin received'
    BY <1>1, <1>3 DEF NoRequestLost
  <2> QED
    BY <2>1, <2>2 DEF NoRequestLost
<1>9. \A d \in Clients : Held(d)'
  BY <1>1, <1>5, <1>6 DEF IInv, Held, Untouched, Answered
<1> QED
  BY <1>4, <1>8, <1>9 DEF IInv

----------------------------------------------------------------------------
(* The server's steps.                                                      *)

LEMMA ReceiveStep ==
  ASSUME IInv, Receive
  PROVE  IInv'
<1>1. /\ server = "running" /\ received = {} /\ queue # << >>
      /\ received' = {Head(queue)} /\ queue' = Tail(queue)
      /\ UNCHANGED <<server, call, where, box, effect>>
  BY DEF Receive
<1>2. TypeOK /\ NoRequestLost /\ queue \in Seq(Clients)
  BY DEF IInv, TypeOK
<1>3. /\ queue' \in Seq(Clients) /\ Head(queue) \in Clients
      /\ 1 \in DOMAIN queue /\ queue[1] = Head(queue)
      /\ \A i \in DOMAIN queue' : i + 1 \in DOMAIN queue /\ i + 1 # 1 /\ queue'[i] = queue[i + 1]
      /\ \A i \in DOMAIN queue : i # 1 => i - 1 \in DOMAIN queue' /\ queue'[i - 1] = queue[i]
      /\ \A i \in DOMAIN queue' : i \in Int
  BY <1>1, <1>2, QueueTail
<1>4. TypeOK'
  BY <1>1, <1>2, <1>3 DEF TypeOK
<1>5. \A d \in Clients : Queued(d) <=> Queued(d)' \/ d \in received'
  <2> TAKE d \in Clients
  <2>1. ASSUME Queued(d)
        PROVE  Queued(d)' \/ d \in received'
    <3>1. PICK i \in DOMAIN queue : queue[i] = d
      BY <2>1 DEF Queued
    <3>2. i # 1 => Queued(d)'
      BY <1>3, <3>1 DEF Queued
    <3> QED
      BY <1>1, <1>3, <3>1, <3>2
  <2>2. ASSUME Queued(d)'
        PROVE  Queued(d)
    <3>1. PICK i \in DOMAIN queue' : queue'[i] = d
      BY <2>2 DEF Queued
    <3> QED
      BY <1>3, <3>1 DEF Queued
  <2>3. d \in received' => Queued(d)
    BY <1>1, <1>3 DEF Queued
  <2> QED
    BY <2>1, <2>2, <2>3
<1>6. NoRequestLost'
  <2>1. ASSUME NEW d \in Clients
        PROVE  /\ server' # "gone" /\ where'[d] = "blocked" /\ call'[d] \notin Unanswered
                  => Queued(d)' \/ d \in received'
               /\ server' # "gone" /\ (Queued(d)' \/ d \in received') => where'[d] = "blocked"
    BY <1>1, <1>2, <1>5 DEF NoRequestLost
  <2>2. ASSUME NEW i \in DOMAIN queue', NEW j \in DOMAIN queue', queue'[i] = queue'[j]
        PROVE  i = j
    <3>1. i + 1 = j + 1
      BY <1>2, <1>3, <2>2 DEF NoRequestLost
    <3> QED
      BY <1>3, <3>1
  <2>3. ASSUME NEW i \in DOMAIN queue'
        PROVE  queue'[i] \notin received'
    <3>1. queue[i + 1] # queue[1]
      BY <1>2, <1>3 DEF NoRequestLost
    <3> QED
      BY <1>1, <1>3, <3>1
  <2> QED
    BY <2>1, <2>2, <2>3 DEF NoRequestLost
<1>7. \A d \in Clients : Held(d)'
  BY <1>1 DEF IInv, Held, Untouched, Answered
<1> QED
  BY <1>4, <1>6, <1>7 DEF IInv

(* The message being handled is the sender's own, and of its own type.      *)
LEMMA Handled ==
  ASSUME IInv, NEW c \in Clients, Handle(c)
  PROVE  /\ where[c] = "blocked" /\ box[c] = Sent(call[c]) /\ effect[c] = "none"
         /\ call[c] \in Types /\ box[c].type = call[c]
<1>1. server = "running" /\ c \in received
  BY DEF Handle
<1>2. where[c] = "blocked"
  BY <1>1 DEF IInv, NoRequestLost
<1>3. box[c] = Sent(call[c]) /\ effect[c] = "none"
  BY <1>2 DEF IInv, Held, Untouched
<1>4. call[c] \in Types
  BY <1>2 DEF IInv, TypeOK
<1> QED
  BY <1>2, <1>3, <1>4 DEF Sent

(* Both kinds of reply.                                                     *)
LEMMA ReplyStep ==
  ASSUME IInv, NEW c \in Clients, Handle(c),
         NEW message \in Message, Reply(c, message), server' \in {server, "exiting"},
         NEW done \in {"done", "refused"}, effect' = [effect EXCEPT ![c] = done],
         done = "done" => message = DoneReply(Sent(call[c])),
         done = "refused" => message = ErrorReply(Sent(call[c]))
  PROVE  IInv'
<1>1. /\ server = "running" /\ received = {c} /\ received' = {}
      /\ UNCHANGED <<queue, call>>
  BY DEF Handle
<1>2. TypeOK /\ NoRequestLost
  BY DEF IInv
<1>3. /\ where' = [where EXCEPT ![c] = "back"] /\ box' = [box EXCEPT ![c] = message]
  BY DEF Reply
<1>4. where[c] = "blocked"
  BY Handled
<1>5. TypeOK'
  BY <1>1, <1>2, <1>3, <1>4 DEF TypeOK
<1>6. \A d \in Clients \ {c} : /\ where'[d] = where[d] /\ box'[d] = box[d]
                                /\ effect'[d] = effect[d]
  BY <1>2, <1>3 DEF TypeOK
<1>7. where'[c] = "back" /\ box'[c] = message /\ effect'[c] = done
  BY <1>2, <1>3 DEF TypeOK
<1>8. \A d \in Clients : (Queued(d)' <=> Queued(d)) /\ (Queued(d) => d # c)
  BY <1>1, <1>2 DEF Queued, NoRequestLost
<1>9. NoRequestLost'
  <2>1. ASSUME NEW d \in Clients
        PROVE  /\ server' # "gone" /\ where'[d] = "blocked" /\ call'[d] \notin Unanswered
                  => Queued(d)' \/ d \in received'
               /\ server' # "gone" /\ (Queued(d)' \/ d \in received') => where'[d] = "blocked"
    BY <1>1, <1>2, <1>6, <1>7, <1>8 DEF NoRequestLost
  <2>2. /\ \A i, j \in DOMAIN queue' : queue'[i] = queue'[j] => i = j
        /\ \A i \in DOMAIN queue' : queue'[i] \notin received'
    BY <1>1, <1>2 DEF NoRequestLost
  <2> QED
    BY <2>1, <2>2 DEF NoRequestLost
<1>10. \A d \in Clients : Held(d)'
  <2> TAKE d \in Clients
  <2>1. CASE d = c
    BY <2>1, <1>1, <1>7 DEF Held, Answered
  <2>2. CASE d # c
    <3>1. Held(d) /\ server # "gone" /\ call' = call
      BY <1>1 DEF IInv
    <3> QED
      BY <2>2, <3>1, <1>6 DEF Held, Untouched, Answered
  <2> QED
    BY <2>1, <2>2
<1> QED
  BY <1>5, <1>9, <1>10 DEF IInv

LEMMA HandleStep ==
  ASSUME IInv, NEW c \in Clients, Handle(c)
  PROVE  IInv'
<1>1. /\ server = "running" /\ received = {c} /\ received' = {}
      /\ UNCHANGED <<queue, call>>
  BY DEF Handle
<1>2. TypeOK /\ NoRequestLost
  BY DEF IInv
<1>3. /\ box[c] = Sent(call[c]) /\ call[c] \in Types /\ box[c].type = call[c]
      /\ DoneReply(Sent(call[c])) \in Message /\ ErrorReply(Sent(call[c])) \in Message
  BY Handled, MessageTypes
<1>4. \A d \in Clients : Queued(d)' <=> Queued(d)
  BY <1>1 DEF Queued
<1>5. CASE HandleDone(c)
  <2>1. /\ Reply(c, DoneReply(Sent(call[c]))) /\ server' \in {server, "exiting"}
        /\ effect' = [effect EXCEPT ![c] = "done"]
    BY <1>3, <1>5 DEF HandleDone
  <2> QED
    BY <1>3, <2>1, ReplyStep
<1>6. CASE HandleRefused(c)
  <2>1. /\ Reply(c, ErrorReply(Sent(call[c]))) /\ server' \in {server, "exiting"}
        /\ effect' = [effect EXCEPT ![c] = "refused"]
    BY <1>3, <1>6 DEF HandleRefused
  <2> QED
    BY <1>3, <2>1, ReplyStep
<1>7. CASE "silent" \in Ends(box[c].type) /\ UNCHANGED <<server, where, box, effect>>
  <2>1. call[c] \in Unanswered
    BY <1>3, <1>7 DEF Ends, Unanswered
  <2>2. TypeOK'
    BY <1>1, <1>2, <1>7 DEF TypeOK
  <2>3. NoRequestLost'
    BY <1>1, <1>2, <1>4, <1>7, <2>1 DEF NoRequestLost
  <2>4. \A d \in Clients : Held(d)'
    BY <1>1, <1>7 DEF IInv, Held, Untouched, Answered
  <2> QED
    BY <2>2, <2>3, <2>4 DEF IInv
<1>8. CASE server' = "gone" /\ UNCHANGED <<where, box, effect>>
  <2>1. TypeOK'
    BY <1>1, <1>2, <1>8 DEF TypeOK
  <2>2. NoRequestLost'
    BY <1>1, <1>2, <1>8 DEF NoRequestLost
  <2>3. \A d \in Clients : Held(d)'
    BY <1>1, <1>8 DEF IInv, Held, Untouched, Answered
  <2> QED
    BY <2>1, <2>2, <2>3 DEF IInv
<1> QED
  BY <1>5, <1>6, <1>7, <1>8 DEF Handle

LEMMA ExitStep ==
  ASSUME IInv, Exit
  PROVE  IInv'
<1>1. TypeOK /\ NoRequestLost
  BY DEF IInv
<1>2. TypeOK'
  BY <1>1 DEF TypeOK, Exit
<1>3. NoRequestLost'
  BY <1>1 DEF NoRequestLost, Exit
<1>4. \A d \in Clients : Held(d)'
  BY DEF IInv, Held, Untouched, Answered, Exit
<1> QED
  BY <1>2, <1>3, <1>4 DEF IInv

----------------------------------------------------------------------------
(* The invariant holds in every reachable state.                            *)
THEOREM Invariance == Spec => []IInv
<1>1. Init => IInv
  <2> SUFFICES ASSUME Init PROVE IInv
    OBVIOUS
  <2>1. TypeOK
    BY DEF Init, TypeOK, Message, Types
  <2>2. NoRequestLost
    BY DEF Init, NoRequestLost, Queued
  <2>3. \A c \in Clients : Held(c)
    BY DEF Init, Held
  <2> QED
    BY <2>1, <2>2, <2>3 DEF IInv
<1>2. IInv /\ [Next]_vars => IInv'
  <2> SUFFICES ASSUME IInv, [Next]_vars PROVE IInv'
    OBVIOUS
  <2>1. CASE UNCHANGED vars
    <3>1. TypeOK' /\ NoRequestLost'
      BY <2>1 DEF IInv, TypeOK, NoRequestLost, Queued, vars
    <3>2. \A c \in Clients : Held(c)'
      BY <2>1 DEF IInv, Held, Untouched, Answered, vars
    <3> QED
      BY <3>1, <3>2 DEF IInv
  <2>2. CASE ServerStep
    BY <2>2, ReceiveStep, HandleStep, ExitStep DEF ServerStep
  <2>3. ASSUME NEW c \in Clients, SendFails(c) \/ Return(c) \/ \E type \in Calls : Send(c, type)
        PROVE  IInv'
    BY <2>3, SendFailsStep, ReturnStep, SendStep
  <2> QED
    BY <2>1, <2>2, <2>3 DEF Next
<1> QED
  BY <1>1, <1>2, PTL DEF Spec

(* While the server runs, every process that waits for one of the answered  *)
(* types is in the queue or being served, once, and nobody else is.         *)
THEOREM RequestsKept == Spec => []NoRequestLost
<1>1. IInv => NoRequestLost
  BY DEF IInv
<1> QED
  BY <1>1, Invariance, PTL

(* The fields of a message are among those the library tests for.           *)
THEOREM Typing == Spec => []TypeOK
<1>1. IInv => TypeOK
  BY DEF IInv
<1> QED
  BY <1>1, Invariance, PTL

(* What a library function reports is what the server did.                  *)
THEOREM ReportsTrue == Spec => []ReportsEffect
<1>1. IInv => ReportsEffect
  <2> SUFFICES ASSUME IInv, NEW c \in Clients, where[c] = "back",
                      call[c] \in TestsType \/ (call[c] \in TestsData /\ server = "running")
               PROVE  Succeeds(c) <=> effect[c] = "done"
    BY DEF ReportsEffect
  <2>1. Answered(c) \/ (Untouched(c) /\ server = "gone")
    BY DEF IInv, Held
  <2>2. CASE box[c] = ErrorReply(Sent(call[c])) /\ effect[c] = "refused"
    BY <2>2 DEF Succeeds, ErrorReply, TestsType, TestsData
  <2>3. CASE box[c] = DoneReply(Sent(call[c])) /\ effect[c] = "done"
    BY <2>3 DEF Succeeds, DoneReply, Sent, TestsType, TestsData
  <2>4. CASE Untouched(c) /\ server = "gone"
    BY <2>4 DEF Untouched, Succeeds, Sent, TestsType, TestsData
  <2> QED
    BY <2>1, <2>2, <2>3, <2>4 DEF Answered
<1> QED
  BY <1>1, Invariance, PTL
=============================================================================

------------------------------ MODULE YfsLoop ------------------------------
(***************************************************************************)
(* The server's message loop, the kernel's message passing and the library *)
(* calls that wait for it.  What a handler does to the volume is a step of *)
(* Yfs and YfsFiles; here it is only how the handler ends.                 *)
(*                                                                         *)
(* The kernel (not in the repository) delivers messages in the order they  *)
(* were sent, unblocks a sender on Reply, and lets Send fail, with the     *)
(* message untouched, once the server has gone.                            *)
(***************************************************************************)
EXTENDS Integers, Sequences

CONSTANTS
  Clients,  \* the processes using the library
  Calls     \* the message types they send

(* How the library functions decide: by the type field or the data field of *)
(* the message they get back, or not at all.                                *)
TestsType  == {"UNLINK", "LINK", "MKDIR", "DUMMY2"}
TestsData  == {"OPEN", "CREATE", "READ", "WRITE", "SEEK", "RMDIR", "CHDIR", "STAT"}
TestsNothing == {"DUMMY", "SHUTDOWN"}

(* The types that are received and get no reply: DUMMY2, which only reports *)
(* an error, and "OTHER", which stands for NONE, SYMLINK, READLINK, SYNC    *)
(* and unknown types: main() has no handler for these.                      *)
Unanswered == {"DUMMY2", "OTHER"}

Types == TestsType \cup TestsData \cup TestsNothing \cup {"OTHER"}

ASSUME CallAssumption == Calls \subseteq Types

VARIABLES
  server,    \* "running", "exiting" between SHUTDOWN's Reply and Exit, "gone"
  queue,     \* the kernel's queue of processes whose message is not received
  received,  \* the process whose message the server has, as a set
  call,      \* the type of the call each process is in, or "none"
  where,     \* "running", "blocked" in Send, "back" from it, "exited"
  box,       \* the message in each process, which a reply overwrites
  effect     \* history: what the handler did with each process's last request

vars == <<server, queue, received, call, where, box, effect>>

(* data is what the caller put there, an answer, or ERMSG. *)
Message == [type : Types \cup {"REPLYMSG", "ERMSG"}, data : {"own", "answer", "ERMSG"}]

Init ==
  /\ server = "running" /\ queue = << >> /\ received = {}
  /\ call = [c \in Clients |-> "none"]
  /\ where = [c \in Clients |-> "running"]
  /\ box = [c \in Clients |-> [type |-> "OTHER", data |-> "own"]]
  /\ effect = [c \in Clients |-> "none"]

----------------------------------------------------------------------------
(* The library: build a message, Send, look at what came back. *)

Send(c, type) ==
  /\ where[c] = "running"
  /\ call' = [call EXCEPT ![c] = type]
  /\ box' = [box EXCEPT ![c] = [type |-> type, data |-> "own"]]
  /\ effect' = [effect EXCEPT ![c] = "none"]
  /\ IF server = "gone"
     THEN where' = [where EXCEPT ![c] = "back"] /\ UNCHANGED queue
     ELSE where' = [where EXCEPT ![c] = "blocked"] /\ queue' = Append(queue, c)
  /\ UNCHANGED <<server, received>>

(* The kernel ends the wait for a server that has gone. *)
SendFails(c) ==
  /\ server = "gone" /\ where[c] = "blocked"
  /\ where' = [where EXCEPT ![c] = "back"]
  /\ UNCHANGED <<server, queue, received, call, box, effect>>

Succeeds(c) ==
  CASE call[c] \in TestsType -> box[c].type = "REPLYMSG"
    [] call[c] \in TestsData -> box[c].data # "ERMSG"
    [] OTHER -> TRUE

(* Shutdown ends in Exit. *)
Return(c) ==
  /\ where[c] = "back"
  /\ where' = [where EXCEPT ![c] = IF call[c] = "SHUTDOWN" THEN "exited" ELSE "running"]
  /\ call' = [call EXCEPT ![c] = "none"]
  /\ UNCHANGED <<server, queue, received, box, effect>>

----------------------------------------------------------------------------
(* The server. *)

(* Receive also returns 0 when every process waits, and ERROR; main() then  *)
(* goes on to the next Receive, which is a step that changes nothing.       *)
Receive ==
  /\ server = "running" /\ received = {} /\ queue # << >>
  /\ received' = {Head(queue)}
  /\ queue' = Tail(queue)
  /\ UNCHANGED <<server, call, where, box, effect>>

(* Mutated: the refusals of rmDirHandler return without a reply.            *)
EndsForgetful(type) ==
  CASE type = "DUMMY2" -> {"silent", "refused"}
    [] type = "OTHER" -> {"silent"}
    [] type = "RMDIR" -> {"done", "silent"}
    [] type \in TestsNothing -> {"done"}
    [] type \in {"CREATE", "MKDIR", "READ", "WRITE"} -> {"done", "refused", "crashed"}
    [] OTHER -> {"done", "refused"}

(* Mutated: case STAT breaks before its handler. *)
EndsWithoutStat(type) ==
  CASE type = "DUMMY2" -> {"silent", "refused"}
    [] type \in {"OTHER", "STAT"} -> {"silent"}
    [] type \in TestsNothing -> {"done"}
    [] type \in {"CREATE", "MKDIR", "READ", "WRITE"} -> {"done", "refused", "crashed"}
    [] OTHER -> {"done", "refused"}

(* How the dispatch on a type can end.  CREATE and MKDIR crash without a    *)
(* free inode; READ and WRITE access memory outside their buffers.          *)
Ends(type) ==
  CASE type = "DUMMY2" -> {"silent", "refused"}
    [] type = "OTHER" -> {"silent"}
    [] type \in TestsNothing -> {"done"}
    [] type \in {"CREATE", "MKDIR", "READ", "WRITE"} -> {"done", "refused", "crashed"}
    [] OTHER -> {"done", "refused"}

(* Mutated: the error in type only, and the error -1 instead of ERMSG.      *)
ErrorReplyTypeOnly(message) == [message EXCEPT !.type = "ERMSG"]
ErrorReplyNumber(message)   == [type |-> "ERMSG", data |-> "ERROR"]

ErrorReply(message) == [type |-> "ERMSG", data |-> "ERMSG"]

(* WRITE and DUMMY answer in the message's other fields and leave its type. *)
DoneReply(message) ==
  CASE message.type = "WRITE" -> [message EXCEPT !.data = "answer"]
    [] message.type = "DUMMY" -> message
    [] OTHER -> [type |-> "REPLYMSG", data |-> "answer"]

Reply(c, message) ==
  /\ where' = [where EXCEPT ![c] = "back"]
  /\ box' = [box EXCEPT ![c] = message]

(* Mutated: the server goes on after SHUTDOWN. *)
HandleDoneStaying(c) ==
  /\ Reply(c, DoneReply(box[c]))
  /\ effect' = [effect EXCEPT ![c] = "done"]
  /\ UNCHANGED server

HandleDone(c) ==
  /\ Reply(c, DoneReply(box[c]))
  /\ effect' = [effect EXCEPT ![c] = "done"]
  /\ server' = IF box[c].type = "SHUTDOWN" THEN "exiting" ELSE server

HandleRefused(c) ==
  /\ Reply(c, ErrorReply(box[c]))
  /\ effect' = [effect EXCEPT ![c] = "refused"]
  /\ UNCHANGED server

Handle(c) ==
  /\ server = "running" /\ received = {c}
  /\ received' = {}
  /\ \/ "done" \in Ends(box[c].type) /\ HandleDone(c)
     \/ "refused" \in Ends(box[c].type) /\ HandleRefused(c)
     \/ "silent" \in Ends(box[c].type) /\ UNCHANGED <<server, where, box, effect>>
     \/ "crashed" \in Ends(box[c].type) /\ server' = "gone" /\ UNCHANGED <<where, box, effect>>
  /\ UNCHANGED <<queue, call>>

Exit ==
  /\ server = "exiting" /\ server' = "gone"
  /\ UNCHANGED <<queue, received, call, where, box, effect>>

ServerStep == Receive \/ (\E c \in Clients : Handle(c)) \/ Exit

Next ==
  \/ ServerStep
  \/ \E c \in Clients : SendFails(c) \/ Return(c) \/ \E type \in Calls : Send(c, type)

(* The server waits for nothing but Receive, and the kernel for nothing.    *)
Fairness == WF_vars(ServerStep) /\ \A c \in Clients : WF_vars(SendFails(c))

Spec == Init /\ [][Next]_vars /\ Fairness

----------------------------------------------------------------------------
(* The fields hold what the library and the handlers put there, and a       *)
(* process is in a call exactly while it waits or looks at the answer.      *)
TypeOK ==
  /\ server \in {"running", "exiting", "gone"}
  /\ queue \in Seq(Clients)
  /\ received \subseteq Clients
  /\ call \in [Clients -> Types \cup {"none"}]
  /\ where \in [Clients -> {"running", "blocked", "back", "exited"}]
  /\ box \in [Clients -> Message]
  /\ effect \in [Clients -> {"none", "done", "refused"}]
  /\ \A c \in Clients : call[c] = "none" <=> where[c] \in {"running", "exited"}

Queued(c) == \E i \in DOMAIN queue : queue[i] = c

(* While the server runs, a process that waits is in the queue, or being    *)
(* served, or has sent one of the types that get no answer; it is there     *)
(* once, and nobody else is, so no reply can go to a process that does not  *)
(* wait for it.                                                             *)
NoRequestLost ==
  /\ \A c \in Clients :
       server # "gone" /\ where[c] = "blocked" /\ call[c] \notin Unanswered =>
         Queued(c) \/ c \in received
  /\ \A c \in Clients : server # "gone" /\ (Queued(c) \/ c \in received) => where[c] = "blocked"
  /\ \A i, j \in DOMAIN queue : queue[i] = queue[j] => i = j
  /\ \A i \in DOMAIN queue : queue[i] \notin received

(* What a library function reports is what the server did, however the type *)
(* and data fields were used on the way.  Once the server has gone this is  *)
(* left to the functions that test the type: for the others the message     *)
(* they sent themselves reads as a success.                                 *)
ReportsEffect ==
  \A c \in Clients :
    /\ where[c] = "back"
    /\ call[c] \in TestsType \/ (call[c] \in TestsData /\ server = "running")
    => (Succeeds(c) <=> effect[c] = "done")

(* Every call of a type that is always answered returns, whatever the other *)
(* processes send, crash or shut down.                                      *)
CallsReturn ==
  \A c \in Clients :
    where[c] = "blocked" /\ call[c] \notin Unanswered ~> where[c] = "back"

(* A server that is asked to shut down is gone in the end, and then nobody  *)
(* waits, whatever was sent before.                                         *)
ShutdownFrees ==
  \A c \in Clients : where[c] = "blocked" /\ call[c] = "SHUTDOWN" ~>
    server = "gone" /\ \A d \in Clients : where[d] # "blocked"
=============================================================================

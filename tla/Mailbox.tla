------------------------------ MODULE Mailbox ------------------------------
(***************************************************************************)
(* The message boxes of the threads (TSENDMSG, TRECVMSG and TISEMPTY in    *)
(* vm/vm_cpu_thread.c, the message queue in vm/vm_infrastructure.c).       *)
(* Instructions run under the global lock, one is one step; which thread   *)
(* runs next is the scheduler's business (Scheduler.tla) and left open.    *)
(*                                                                         *)
(* A box is a list and a counter, size, of type size_t.  Sending adds one  *)
(* to both; receiving takes a message, if there is one, from the list, and *)
(* takes one from size in any case.  TISEMPTY reads size, TRECVMSG reads   *)
(* the list.                                                               *)
(***************************************************************************)
EXTENDS Integers, Sequences

CONSTANTS
    Threads,     (* threads ever created *)
    Main,        (* the thread that is there at the start *)
    MaxSends,    (* bound: messages ever sent *)
    Word,        (* number of values of a size_t *)
    Askers       (* threads that receive only after TISEMPTY said no *)

ASSUME MailboxAssumption ==
    /\ Main \in Threads
    /\ MaxSends \in Nat
    /\ Word \in Nat /\ Word > MaxSends
    /\ Askers \subseteq Threads

VARIABLES
    alive,       (* vm->threads *)
    unborn,      (* threads not yet forked *)
    status,      (* running, or failed after a runtime error *)
    messages,    (* per thread: the list of its box *)
    size,        (* per thread: the counter of its box *)
    answer,      (* per thread: what TISEMPTY said since it last received *)
    sends,       (* number of messages sent, which tells them apart *)
    sent,        (* history: per thread, the messages sent to it *)
    received     (* history: per thread, the messages it received *)

threadVars == <<alive, unborn, status>>
history == <<sends, sent, received>>
boxVars == <<threadVars, messages, size, answer, history>>

BoxInit ==
    /\ alive = {Main}
    /\ unborn = Threads \ {Main}
    /\ status = "running"
    /\ messages = [t \in Threads |-> <<>>]
    /\ size = [t \in Threads |-> 0]
    /\ answer = [t \in Threads |-> "unknown"]
    /\ sends = 0
    /\ sent = [t \in Threads |-> <<>>]
    /\ received = [t \in Threads |-> <<>>]

-----------------------------------------------------------------------------
Executes(t) == status = "running" /\ t \in alive

(* virtual_machine_thread_clone makes an empty box for the clone. *)
Fork(t, u) ==
    /\ Executes(t) /\ u \in unborn
    /\ alive' = alive \union {u}
    /\ unborn' = unborn \ {u}
    /\ UNCHANGED <<status, messages, size, answer, history>>

(* The box of a thread is destroyed with the thread. *)
BoxExit(t) ==
    /\ Executes(t)
    /\ alive' = alive \ {t}
    /\ messages' = [messages EXCEPT ![t] = <<>>]
    /\ UNCHANGED <<unborn, status, size, answer, history>>

(* Mutant: the message is put before the others. *)
SendToHead(t, u) ==
    /\ Executes(t) /\ u \in alive /\ sends < MaxSends
    /\ sends' = sends + 1
    /\ messages' = [messages EXCEPT ![u] = <<sends>> \o @]
    /\ size' = [size EXCEPT ![u] = (@ + 1) % Word]
    /\ sent' = [sent EXCEPT ![u] = Append(@, sends)]
    /\ UNCHANGED <<threadVars, answer, received>>

(* TSENDMSG to any thread a program has a thread object of, itself         *)
(* included.  A thread that has ended is a runtime error, which ends the   *)
(* program.                                                                *)
Send(t, u) ==
    /\ Executes(t) /\ u \notin unborn /\ sends < MaxSends
    /\ \/ /\ u \notin alive
          /\ status' = "failed"
          /\ UNCHANGED <<alive, unborn, messages, size, history>>
       \/ /\ u \in alive
          /\ sends' = sends + 1
          /\ messages' = [messages EXCEPT ![u] = Append(@, sends)]
          /\ size' = [size EXCEPT ![u] = (@ + 1) % Word]
          /\ sent' = [sent EXCEPT ![u] = Append(@, sends)]
          /\ UNCHANGED <<threadVars, received>>
    /\ UNCHANGED answer

(* Mutant: the counter is forgotten. *)
ReceiveKeepsSize(t) ==
    /\ Executes(t) /\ (t \in Askers => answer[t] = "no")
    /\ IF messages[t] = <<>>
       THEN UNCHANGED <<messages, received>>
       ELSE /\ messages' = [messages EXCEPT ![t] = Tail(@)]
            /\ received' = [received EXCEPT ![t] = Append(@, Head(messages[t]))]
    /\ answer' = [answer EXCEPT ![t] = "unknown"]
    /\ UNCHANGED <<threadVars, size, sends, sent>>

(* TRECVMSG: the first message, or none.  size loses one in both cases. *)
Receive(t) ==
    /\ Executes(t) /\ (t \in Askers => answer[t] = "no")
    /\ IF messages[t] = <<>>
       THEN UNCHANGED <<messages, received>>
       ELSE /\ messages' = [messages EXCEPT ![t] = Tail(@)]
            /\ received' = [received EXCEPT ![t] = Append(@, Head(messages[t]))]
    /\ size' = [size EXCEPT ![t] = (@ - 1) % Word]
    /\ answer' = [answer EXCEPT ![t] = "unknown"]
    /\ UNCHANGED <<threadVars, sends, sent>>

(* Mutant: the answer is turned round. *)
IsEmptyInverted(t) ==
    /\ Executes(t)
    /\ answer' = [answer EXCEPT ![t] = IF size[t] = 0 THEN "no" ELSE "yes"]
    /\ UNCHANGED <<threadVars, messages, size, history>>

(* TISEMPTY. *)
IsEmpty(t) ==
    /\ Executes(t)
    /\ answer' = [answer EXCEPT ![t] = IF size[t] = 0 THEN "yes" ELSE "no"]
    /\ UNCHANGED <<threadVars, messages, size, history>>

BoxNext ==
    \E t \in Threads :
        \/ BoxExit(t) \/ Receive(t) \/ IsEmpty(t)
        \/ \E u \in Threads : Fork(t, u) \/ Send(t, u)

BoxSpec == BoxInit /\ [][BoxNext]_boxVars

(* The program of an asking thread comes back to its box: it asks, and     *)
(* receives when it has been told that the box is not empty.               *)
PollingSpec ==
    BoxSpec /\ \A t \in Askers : WF_boxVars(answer[t] # "no" /\ IsEmpty(t))
                              /\ WF_boxVars(answer[t] = "no" /\ Receive(t))
-----------------------------------------------------------------------------
BoxTypeOK ==
    /\ alive \subseteq Threads
    /\ unborn \subseteq Threads \ alive
    /\ status \in {"running", "failed"}
    /\ messages \in [Threads -> Seq(Nat)]
    /\ size \in [Threads -> 0 .. Word - 1]
    /\ answer \in [Threads -> {"unknown", "yes", "no"}]
    /\ sends \in 0 .. MaxSends
    /\ sent \in [Threads -> Seq(Nat)]
    /\ received \in [Threads -> Seq(Nat)]

(* No message is lost, duplicated or reordered on its way, whatever the    *)
(* programs do: what a thread has received, and what waits in its box, is  *)
(* what was sent to it.                                                    *)
MessagesInOrder ==
    \A t \in alive : received[t] \o messages[t] = sent[t]

(* An asking thread that was told its box is not empty finds a message     *)
(* when it receives next, however late that is and whatever others do.     *)
ToldMessageIsThere ==
    \A t \in alive \intersect Askers : answer[t] = "no" => messages[t] # <<>>

(* The counter of an asking thread is the number of its messages. *)
SizeIsExact == \A t \in alive \intersect Askers : size[t] = Len(messages[t])

(* A message in the box of an asking thread is received, unless the thread *)
(* ends first.                                                             *)
MessagesAreReceived ==
    \A t \in Askers, m \in 0 .. MaxSends :
        (t \in alive /\ m \in {messages[t][k] : k \in DOMAIN messages[t]})
            ~> (\/ t \notin alive \/ status = "failed"
                \/ m \in {received[t][k] : k \in DOMAIN received[t]})

(* TISEMPTY tells a thread that asks the truth, and the truth lasts until  *)
(* it receives; the counter behind the answer is exact.                    *)
CounterTellsTruth == ToldMessageIsThere /\ SizeIsExact

(* Boxes hand on what was sent, all of it and in order, whoever sends,     *)
(* forks or ends meanwhile.                                                *)
BoxesConsistent == BoxTypeOK /\ MessagesInOrder
=============================================================================

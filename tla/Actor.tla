--------------------------------- MODULE Actor ---------------------------------
(***************************************************************************)
(* actor/actor.hpp: an Actor owns an MPMCChannel<Message> mailbox and a    *)
(* process thread that polls it while running_ and dispatches each         *)
(* message to the handler registered for its type.  tell is               *)
(* mailbox_.try_send(Message(message, sender)) with the default timeout of *)
(* 0 and its result ignored.  The mailbox is the MPMCChannel model itself: *)
(* the tellers are its senders and the process thread its one receiver,    *)
(* every channel step is a step of this module.                            *)
(*                                                                         *)
(* Message carries std::any, whose moved-from state is empty, so the      *)
(* channel's MoveEmpties is TRUE.  The handler table is taken to be filled *)
(* before the first tell, so every message finds its handler.              *)
(***************************************************************************)
EXTENDS Naturals, Sequences, FiniteSets

CONSTANTS
    Tellers,        \* threads calling tell
    Proc,           \* the process thread
    MailboxSize,    \* mailbox_size
    TellOps,        \* tell calls each teller makes at most
    SizeWidth, BlocksPerChunk, MaxChunks

VARIABLES
    freeList, chunks, nodeNext, nodeData, head, tail, size, pc, calls,
    timeout, retries, node, ltail, lhead, lnext, value, sent, received,
    running,        \* running_
    apc,            \* the process thread's place in process_messages
    handled,        \* messages handed to their handler, in order
    opc             \* the owner: "live", then ~Actor's steps

chanVars == <<freeList, chunks, nodeNext, nodeData, head, tail, size, pc, calls,
              timeout, retries, node, ltail, lhead, lnext, value, sent, received>>
vars == <<chanVars, running, apc, handled, opc>>

Mailbox == INSTANCE MPMCChannel
    WITH Senders <- Tellers, Receivers <- {Proc}, Capacity <- MailboxSize,
         SendOps <- TellOps, RecvOps <- 0, MaxRetries <- 0, Timeouts <- {0},
         MoveEmpties <- TRUE

Messages == Mailbox!Values

TypeOK ==
    /\ Mailbox!TypeOK
    /\ running \in BOOLEAN
    /\ apc \in {"loop", "poll", "stopped"}
    /\ handled \in Seq(Messages \cup {Mailbox!NoValue, Mailbox!Gone})
    /\ opc \in {"live", "join", "done"}

(* The constructor builds the mailbox and starts the process thread. *)
Init ==
    /\ Mailbox!Init
    /\ running = TRUE
    /\ apc = "loop"
    /\ handled = <<>>
    /\ opc = "live"

-----------------------------------------------------------------------------
(* tell(message): try_send, whose steps are the mailbox's sender steps. *)
Tell(t) ==
    /\ opc = "live"
    /\ Mailbox!Sender(t)
    /\ UNCHANGED <<running, apc, handled, opc>>

(* while (running_) { auto msg = mailbox_.try_receive(); ... }: one poll   *)
(* with timeout 0, or on_stop() once running_ is false.                    *)
ProcLoop ==
    /\ apc = "loop"
    /\ IF running
       THEN /\ pc' = [pc EXCEPT ![Proc] = "rcv_read_head"]
            /\ timeout' = [timeout EXCEPT ![Proc] = 0]
            /\ retries' = [retries EXCEPT ![Proc] = 0]
            /\ apc' = "poll"
       ELSE /\ apc' = "stopped"
            /\ UNCHANGED <<pc, timeout, retries>>
    /\ UNCHANGED <<freeList, chunks, nodeNext, nodeData, head, tail, size, calls,
                   node, ltail, lhead, lnext, value, sent, received,
                   running, handled, opc>>

(* The steps of try_receive_impl on the mailbox. *)
ProcReceive ==
    /\ apc = "poll"
    /\ Mailbox!Receiver(Proc)
    /\ UNCHANGED <<running, apc, handled, opc>>

(* The poll has returned: if (msg) the handler found for msg->type runs, *)
(* inside try/catch, before the next poll.                                *)
ProcDispatch ==
    /\ apc = "poll" /\ pc[Proc] = "idle"
    /\ handled' = IF Len(received[Proc]) > Len(handled)
                  THEN Append(handled, received[Proc][Len(received[Proc])])
                  ELSE handled
    /\ apc' = "loop"
    /\ UNCHANGED <<chanVars, running, opc>>

-----------------------------------------------------------------------------
(* ~Actor(): running_ = false, then join the process thread, once no tell *)
(* is in progress.  Messages left in the mailbox are never handled.       *)
Destroy ==
    /\ opc = "live" /\ \A t \in Tellers : pc[t] = "idle"
    /\ running' = FALSE
    /\ opc' = "join"
    /\ UNCHANGED <<chanVars, apc, handled>>

Join ==
    /\ opc = "join" /\ apc = "stopped"
    /\ opc' = "done"
    /\ UNCHANGED <<chanVars, running, apc, handled>>

-----------------------------------------------------------------------------
Process == ProcLoop \/ ProcReceive \/ ProcDispatch

Terminated == opc = "done" /\ UNCHANGED vars

Next ==
    \/ \E t \in Tellers : Tell(t)
    \/ Process
    \/ Destroy \/ Join
    \/ Terminated

(* Every thread with a step to take is scheduled; nobody has to tell or *)
(* to destroy the actor.                                                 *)
Fairness ==
    /\ \A t \in Tellers : WF_vars(Tell(t))
    /\ WF_vars(Process)
    /\ WF_vars(Join)

Spec == Init /\ [][Next]_vars /\ Fairness

-----------------------------------------------------------------------------
HandledSet == {handled[i] : i \in 1..Len(handled)}

(* Every message whose tell went through (try_send returned true) is      *)
(* eventually handed to its handler, unless the actor is destroyed first: *)
(* the process thread polls for as long as running_ is true.              *)
EveryTellHandled ==
    \A m \in Messages : (m \in sent) ~> (m \in HandledSet \/ ~running)

(* The process thread hands each teller's messages to their handlers in   *)
(* the order that teller told them, each at most once: the mailbox is FIFO *)
(* and each poll dispatches only the message it received.                 *)
HandledInTellOrder ==
    \A i, j \in 1..Len(handled) :
        (i < j /\ handled[i][1] = handled[j][1]) => handled[i][2] < handled[j][2]
=============================================================================

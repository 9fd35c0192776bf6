------------------------- MODULE MC_MPMCChannelPair -------------------------
(***************************************************************************)
(* Both passing configurations of MPMCChannel in one model: Init picks the *)
(* configuration, and every later step is a step of that configuration's   *)
(* instance while the other one's variables stay at their initial values.  *)
(* A behaviour of this module is a behaviour of exactly one of the two     *)
(* instances, so each property below is that instance's property.          *)
(***************************************************************************)
EXTENDS Naturals

CONSTANTS s1, s2, r1

VARIABLES
  shape,   \* which configuration this behaviour runs: "spsc" or "mpsc"
  \* the variables of the one-sender, one-receiver configuration
  sFreeList, sChunks, sNodeNext, sNodeData, sHead, sTail, sSize, sPc,
  sCalls, sTimeout, sRetries, sNode, sLtail, sLhead, sLnext, sValue, sSent,
  sReceived,
  \* the variables of the two-sender configuration
  mFreeList, mChunks, mNodeNext, mNodeData, mHead, mTail, mSize, mPc,
  mCalls, mTimeout, mRetries, mNode, mLtail, mLhead, mLnext, mValue, mSent,
  mReceived

sVars == <<sFreeList, sChunks, sNodeNext, sNodeData, sHead, sTail, sSize,
           sPc, sCalls, sTimeout, sRetries, sNode, sLtail, sLhead, sLnext,
           sValue, sSent, sReceived>>
mVars == <<mFreeList, mChunks, mNodeNext, mNodeData, mHead, mTail, mSize,
           mPc, mCalls, mTimeout, mRetries, mNode, mLtail, mLhead, mLnext,
           mValue, mSent, mReceived>>
vars == <<shape, sVars, mVars>>

\* One sender and one receiver, a capacity of 1, timeouts of 0 and 1.
S == INSTANCE MPMCChannel
  WITH Senders <- {s1}, Receivers <- {r1}, Capacity <- 1, SendOps <- 3,
       RecvOps <- 3, MaxRetries <- 1, Timeouts <- {0, 1},
       MoveEmpties <- TRUE, SizeWidth <- 3, BlocksPerChunk <- 2,
       MaxChunks <- 2, freeList <- sFreeList, chunks <- sChunks,
       nodeNext <- sNodeNext, nodeData <- sNodeData, head <- sHead,
       tail <- sTail, size <- sSize, pc <- sPc, calls <- sCalls,
       timeout <- sTimeout, retries <- sRetries, node <- sNode,
       ltail <- sLtail, lhead <- sLhead, lnext <- sLnext, value <- sValue,
       sent <- sSent, received <- sReceived

\* Two senders feeding one receiver, as in an actor's mailbox.
M == INSTANCE MPMCChannel
  WITH Senders <- {s1, s2}, Receivers <- {r1}, Capacity <- 2, SendOps <- 2,
       RecvOps <- 2, MaxRetries <- 1, Timeouts <- {0}, MoveEmpties <- TRUE,
       SizeWidth <- 3, BlocksPerChunk <- 2, MaxChunks <- 2,
       freeList <- mFreeList, chunks <- mChunks, nodeNext <- mNodeNext,
       nodeData <- mNodeData, head <- mHead, tail <- mTail, size <- mSize,
       pc <- mPc, calls <- mCalls, timeout <- mTimeout,
       retries <- mRetries, node <- mNode, ltail <- mLtail,
       lhead <- mLhead, lnext <- mLnext, value <- mValue, sent <- mSent,
       received <- mReceived

Init ==
  /\ shape \in {"spsc", "mpsc"}
  /\ S!Init /\ M!Init

SpscStep == shape = "spsc" /\ S!Next /\ UNCHANGED <<shape, mVars>>
MpscStep == shape = "mpsc" /\ M!Next /\ UNCHANGED <<shape, sVars>>

Next == SpscStep \/ MpscStep

\* MPMCChannel!Fairness, for the threads of the chosen configuration.
Fairness ==
  /\ WF_vars(shape = "spsc" /\ S!Sender(s1) /\ UNCHANGED <<shape, mVars>>)
  /\ WF_vars(shape = "spsc" /\ S!Receiver(r1) /\ UNCHANGED <<shape, mVars>>)
  /\ \A t \in {s1, s2} : WF_vars(shape = "mpsc" /\ M!Sender(t) /\ UNCHANGED <<shape, sVars>>)
  /\ WF_vars(shape = "mpsc" /\ M!Receiver(r1) /\ UNCHANGED <<shape, sVars>>)

Spec == Init /\ [][Next]_vars /\ Fairness

-----------------------------------------------------------------------------
\* One sender, one receiver: every value whose try_send returned true is
\* still in the chain or has been received (MPMCChannel!NoLostValue).
NoLostValue == S!NoLostValue

\* One sender, one receiver: the channel refines AbstractQueue, try_send
\* taking effect at its link CAS and try_receive at its head_ CAS
\* (MPMCChannel!Linearizable).
Linearizable == S!Linearizable

\* Every call returns under fair scheduling (MPMCChannel!AllCallsReturn):
\* with one sender and one receiver, the timed retry loops included; with
\* two senders, the send loop that helps a tail_ left behind by the other
\* sender's link CAS, and reloads after a lost CAS, ends too.
AllCallsReturn ==
  /\ shape = "spsc" => S!AllCallsReturn
  /\ shape = "mpsc" => M!AllCallsReturn
=============================================================================

---- MODULE SocketStream ----
(* vu::Socket::send and recv_all over one connection: the sender's loop over    *)
(* what the stack accepts, the receiver's loop of select, recv and append, with *)
(* gaps longer than the time-out, errors and the sender's close in between.     *)
EXTENDS Integers, Sequences, SequencesExt

CONSTANTS Messages,     \* the bytes of each send
          BlockSize,    \* VU_DEFAULT_SEND_RECV_BLOCK_SIZE
          StackRoom,    \* bytes the connection holds that are not received yet
          MaxRecvAlls   \* bound on the calls of recv_all

ASSUME StreamAssumption ==
  /\ Messages \in Seq(Seq(0..255))
  /\ BlockSize \in Nat \ {0} /\ StackRoom \in Nat \ {0} /\ MaxRecvAlls \in Nat

VARIABLES sender,     \* message it sends, bytes of it sent, what it does
          inFlight,   \* bytes the stack took and nobody received
          buffer,     \* the buffer of the recv_all under way, or of the last one
          before,     \* what earlier calls received
          receiver,   \* whether recv_all runs or how it ended, and its number
          gap         \* the last "nothing more" was a time-out

streamVars == <<sender, inFlight, buffer, before, receiver, gap>>

StreamInit ==
  /\ sender = [message |-> 1, sent |-> 0, doing |-> "send"]
  /\ inFlight = <<>> /\ buffer = <<>> /\ before = <<>>
  /\ receiver = [doing |-> "idle", calls |-> 0]
  /\ gap = FALSE

Smaller(a, b) == IF a < b THEN a ELSE b

\* A loop that passes the start of the message again after a partial send.
TakenFromStart(z) == SubSeq(Messages[sender.message], 1, z)

\* What ::send takes of the rest of the message, from sent_ptr_data on.
Taken(z) == SubSeq(Messages[sender.message], sender.sent + 1, sender.sent + z)

\* One turn of the loop in send; the message is done when all of it was taken.
SendSome(z) ==
  /\ sender.doing = "send" /\ sender.message <= Len(Messages)
  /\ z \in 1..Smaller(Len(Messages[sender.message]) - sender.sent, StackRoom - Len(inFlight))
  /\ inFlight' = inFlight \o Taken(z)
  /\ sender' = IF sender.sent + z < Len(Messages[sender.message])
                 THEN [sender EXCEPT !.sent = @ + z]
                 ELSE [sender EXCEPT !.sent = 0, !.message = @ + 1]
  /\ UNCHANGED <<buffer, before, receiver, gap>>

\* SOCKET_ERROR: how much was sent before is not answered, so the sender gives up.
SendFails ==
  /\ sender.doing = "send" /\ sender.message <= Len(Messages)
  /\ sender' = [sender EXCEPT !.doing = "failed"]
  /\ UNCHANGED <<inFlight, buffer, before, receiver, gap>>

SenderCloses ==
  /\ sender.doing = "failed" \/ sender.message > Len(Messages)
  /\ sender.doing # "closed"
  /\ sender' = [sender EXCEPT !.doing = "closed"]
  /\ UNCHANGED <<inFlight, buffer, before, receiver, gap>>

\* recv_all with an empty buffer; what the last call gave is the program's.
CallRecvAll ==
  /\ receiver.doing # "recv" /\ receiver.calls < MaxRecvAlls
  /\ receiver' = [doing |-> "recv", calls |-> receiver.calls + 1]
  /\ before' = before \o buffer
  /\ buffer' = <<>> /\ gap' = FALSE
  /\ UNCHANGED <<sender, inFlight>>

\* recv gives at most a block, and the block, cut to what came, is appended.
RecvBlock(z) ==
  /\ receiver.doing = "recv"
  /\ z \in 1..Smaller(BlockSize, Len(inFlight))
  /\ buffer' = buffer \o SubSeq(inFlight, 1, z)
  /\ inFlight' = SubSeq(inFlight, z + 1, Len(inFlight))
  /\ UNCHANGED <<sender, before, receiver, gap>>

\* select says no data in time, and recv answers 0, as for a closed connection: recv_all
\* is complete.
SelectTimesOut ==
  /\ receiver.doing = "recv" /\ inFlight = <<>> /\ sender.doing # "closed"
  /\ receiver' = [receiver EXCEPT !.doing = "complete"] /\ gap' = TRUE
  /\ UNCHANGED <<sender, inFlight, buffer, before>>

RecvClosed ==
  /\ receiver.doing = "recv" /\ inFlight = <<>> /\ sender.doing = "closed"
  /\ receiver' = [receiver EXCEPT !.doing = "complete"]
  /\ UNCHANGED <<sender, inFlight, buffer, before, gap>>

\* An error ends recv_all with SOCKET_ERROR; the bytes before it are in the buffer.
RecvFails ==
  /\ receiver.doing = "recv"
  /\ receiver' = [receiver EXCEPT !.doing = "error"]
  /\ UNCHANGED <<sender, inFlight, buffer, before, gap>>

StreamNext ==
  \/ \E z \in 1..StackRoom : SendSome(z)
  \/ SendFails \/ SenderCloses \/ CallRecvAll
  \/ \E z \in 1..BlockSize : RecvBlock(z)
  \/ SelectTimesOut \/ RecvClosed \/ RecvFails

StreamSpec == StreamInit /\ [][StreamNext]_streamVars

StreamTypeOK ==
  /\ sender.message \in 1..Len(Messages) + 1 /\ sender.sent \in Nat
  /\ sender.doing \in {"send", "failed", "closed"}
  /\ Len(inFlight) <= StackRoom
  /\ receiver.doing \in {"idle", "recv", "complete", "error"} /\ receiver.calls \in 0..MaxRecvAlls
  /\ gap \in BOOLEAN

SentSoFar == FlattenSeq(SubSeq(Messages, 1, sender.message - 1))
             \o (IF sender.sent = 0 THEN <<>> ELSE SubSeq(Messages[sender.message], 1, sender.sent))

\* Partial sends, blocks, several calls of recv_all and time-outs neither lose, repeat nor
\* reorder a byte; and a recv_all that ends complete has everything there was to have,
\* all the sender managed to send before it closed, unless a gap was taken for the end.
StreamIntact ==
  /\ before \o buffer \o inFlight = SentSoFar
  /\ receiver.doing = "complete" /\ ~gap => sender.doing = "closed" /\ inFlight = <<>>
====

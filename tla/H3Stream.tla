------------------------------ MODULE H3Stream ------------------------------
(***************************************************************************)
(* The adapter between the h3 crate and quinn (mechanics-h3-quinn/src):    *)
(* one connection and one stream, opened by one side and accepted by the   *)
(* other.  What h3 calls is a poll: it does what it can and is pending     *)
(* otherwise, and a caller may give a pending poll up, so that whatever it *)
(* had begun has to wait in the adapter's fields for the next.  A buffer   *)
(* of h3 is a sequence of numbered bytes; quinn is a bounded buffer from   *)
(* the sender to the receiver.  The adapter keeps nothing when a call      *)
(* returns an error, so the kinds of errors and their conversions are left *)
(* out, and the datagrams, which it only passes on.                        *)
(***************************************************************************)
EXTENDS Naturals, Sequences

CONSTANTS MaxByte,       \* bound: bytes h3 ever sends on the stream
          Window         \* bytes quinn buffers before it blocks the writer

VARIABLES lost,      \* the connection is lost
          credit,    \* the peer lets another stream be opened
          stream,    \* "none", "opened" or "accepted"
          queued,    \* bytes that send_data and poll_send took from h3
          writing,   \* SendStream::writing: what is left of the last buffer, <<>> for None
          buffer,    \* bytes quinn took and has not given out
          closing,   \* what the sender did last: "no", "finish" or "reset"
          stopped,   \* the receiver sent STOP_SENDING
          reading,   \* read_chunk_fut holds the receive stream
          got,       \* bytes poll_data returned
          outcome    \* "open", or how reading ended: "end", "terminated", "lost", "panicked"

opener == <<credit, stream>>
sender == <<queued, writing, closing>>
receiver == <<stopped, reading, got, outcome>>
vars == <<lost, opener, sender, buffer, receiver>>

TakeBytes(s, n) == SubSeq(s, 1, n)
DropBytes(s, n) == SubSeq(s, n + 1, Len(s))

----------------------------------------------------------------------------
(* The connection *)

Lose ==
    /\ ~lost
    /\ lost' = TRUE
    /\ UNCHANGED <<opener, sender, buffer, receiver>>

\* close, of a connection or of its opener.
Close == Lose

\* The peer's MAX_STREAMS.
Grant ==
    /\ ~credit
    /\ credit' = TRUE
    /\ UNCHANGED <<lost, stream, sender, buffer, receiver>>

\* poll_open_bidi and poll_open_send, of a connection or of its opener.
PollOpen ==
    /\ stream = "none"
    /\ ~lost
    /\ credit
    /\ stream' = "opened"
    /\ UNCHANGED <<lost, credit, sender, buffer, receiver>>

\* poll_accept_bidi and poll_accept_recv; QUIC announces a stream by its first frame.
PollAccept ==
    /\ ~lost
    /\ stream = "opened"
    /\ buffer # <<>> \/ closing # "no"
    /\ stream' = "accepted"
    /\ UNCHANGED <<lost, credit, sender, buffer, receiver>>

----------------------------------------------------------------------------
(* Sending *)

Opened == stream # "none"

\* What the sender takes from h3.
Bytes(n) == [i \in 1 .. n |-> Len(queued) + i]

\* A second buffer is refused, with an internal error, while the first is being written.
SendData(n) ==
    /\ Opened
    /\ Len(queued) + n <= MaxByte
    /\ IF writing = <<>>
         THEN writing' = Bytes(n) /\ queued' = queued \o Bytes(n)
         ELSE UNCHANGED <<writing, queued>>
    /\ UNCHANGED <<lost, opener, closing, buffer, receiver>>

\* quinn's poll_write takes up to n bytes; on an error, whatever it is, it takes none.
Takes(n) == ~lost /\ ~stopped /\ closing = "no" /\ n <= Window - Len(buffer)

\* Mutant: the buffer is only advanced when the write completes it.
PollReadyWithoutAdvance ==
    /\ Opened
    /\ \E n \in 0 .. Len(writing) :
           /\ Takes(n)
           /\ buffer' = buffer \o TakeBytes(writing, n)
           /\ writing' = IF n = Len(writing) THEN <<>> ELSE writing
    /\ UNCHANGED <<lost, opener, queued, closing, receiver>>

\* Written in pieces of any size; what is left when a write is pending or fails stays in
\* `writing'.
PollReady ==
    /\ Opened
    /\ \E n \in 0 .. Len(writing) :
           /\ Takes(n)
           /\ buffer' = buffer \o TakeBytes(writing, n)
           /\ writing' = DropBytes(writing, n)
    /\ UNCHANGED <<lost, opener, queued, closing, receiver>>

\* poll_send writes h3's own buffer, which keeps what was not written.
PollSend ==
    /\ Opened
    /\ writing = <<>>
    /\ \E n \in 1 .. MaxByte - Len(queued) :
           /\ Takes(n)
           /\ queued' = queued \o Bytes(n)
           /\ buffer' = buffer \o Bytes(n)
    /\ UNCHANGED <<lost, opener, writing, closing, receiver>>

\* The stream ends after what quinn took.
Finish ==
    /\ Opened
    /\ closing = "no"
    /\ closing' = "finish"
    /\ UNCHANGED <<lost, opener, queued, writing, buffer, receiver>>

\* poll_send panics while a buffer is being written; quinn finishes a stream that is dropped.
PollSendTooEarly == writing # <<>> /\ Finish

\* poll_finish writes nothing itself: what is left in `writing' is not sent any more.
PollFinish == Finish

\* A reset discards what is buffered, as far as it has not arrived.
ResetStream ==
    /\ Opened
    /\ closing # "reset"
    /\ closing' = "reset"
    /\ \E n \in 0 .. Len(buffer) : buffer' = TakeBytes(buffer, n)
    /\ UNCHANGED <<lost, opener, queued, writing, receiver>>

----------------------------------------------------------------------------
(* Receiving *)

Readable == stream = "accepted" /\ outcome = "open" /\ ~stopped

\* The future takes the stream, and gives it back with the chunk, the end or an error;
\* while it is pending it is kept for the next call.  What had arrived before a loss can
\* still be read, the rest is gone.
PollData ==
    /\ Readable
    /\ \/ \E n \in 1 .. Len(buffer) :
             /\ got' = got \o TakeBytes(buffer, n)
             /\ buffer' = DropBytes(buffer, n)
             /\ reading' = FALSE
             /\ UNCHANGED outcome
       \/ /\ \/ closing = "reset" /\ outcome' = "terminated"
             \/ closing = "finish" /\ buffer = <<>> /\ outcome' = "end"
             \/ lost /\ outcome' = "lost"
          /\ reading' = FALSE
          /\ UNCHANGED <<got, buffer>>
       \/ /\ ~lost /\ closing = "no" /\ buffer = <<>>
          /\ reading' = TRUE
          /\ UNCHANGED <<got, buffer, outcome>>
    /\ UNCHANGED <<lost, opener, sender, stopped>>

\* stop_sending and recv_id unwrap the stream, which is absent while a read is pending.
StopSending ==
    /\ Readable
    /\ IF reading THEN outcome' = "panicked" /\ UNCHANGED stopped
                  ELSE stopped' = TRUE /\ UNCHANGED outcome
    /\ UNCHANGED <<lost, opener, sender, buffer, reading, got>>

----------------------------------------------------------------------------
Init ==
    /\ lost = FALSE
    /\ credit = FALSE
    /\ stream = "none"
    /\ queued = <<>> /\ writing = <<>> /\ buffer = <<>>
    /\ closing = "no"
    /\ stopped = FALSE
    /\ reading = FALSE
    /\ got = <<>>
    /\ outcome = "open"

Connecting == Lose \/ Close \/ Grant \/ PollOpen \/ PollAccept

Sending ==
    \/ \E n \in 1 .. MaxByte : SendData(n)
    \/ PollReady \/ PollSend \/ PollSendTooEarly \/ PollFinish \/ ResetStream

Reading == PollData \/ StopSending

Next == Connecting \/ Sending \/ Reading

Spec == Init /\ [][Next]_vars

----------------------------------------------------------------------------
\* However writes are cut into pieces and polls are given up, and also when h3 sends
\* before its last buffer is written, a reader is given the bytes the adapter took, in
\* order and once, and a stream that ends well gave all of them but those that
\* poll_finish found unwritten.
FaithfulStream ==
    /\ got = TakeBytes(queued, Len(got))
    /\ outcome = "end" => Len(got) = Len(queued) - Len(writing)
=============================================================================

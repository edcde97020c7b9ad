--------------------------- MODULE ByteQueueSpec ----------------------------
(***************************************************************************)
(* The abstract byte stream as a state machine: `queue' is a bounded FIFO  *)
(* queue and `output' the string the last peek or read returned.           *)
(***************************************************************************)
EXTENDS ByteQueue

CONSTANTS Byte,        \* the byte values
          Capacity,    \* room in the stream
          MaxLen       \* bound on the length of one write or read

VARIABLES queue, output

Data == UNION {[1 .. n -> Byte] : n \in 0 .. MaxLen}

Init == queue = EmptyQueue /\ output = << >>

Write(data) == queue' = write(queue, Capacity, data) /\ UNCHANGED output

PeekOutput(len) == output' = peek_output(queue, len) /\ UNCHANGED queue

PopOutput(len) == queue' = pop_output(queue, len) /\ UNCHANGED output

Read(len) == output' = peek_output(queue, len) /\ queue' = pop_output(queue, len)

EndInput == queue' = end_input(queue) /\ UNCHANGED output

SetError == queue' = set_error(queue) /\ UNCHANGED output

Next == \/ \E data \in Data : Write(data)
        \/ \E len \in 0 .. MaxLen : PeekOutput(len) \/ PopOutput(len) \/ Read(len)
        \/ EndInput
        \/ SetError

Spec == Init /\ [][Next]_<<queue, output>>
=============================================================================

----------------------------- MODULE RecordFifo -----------------------------
(***************************************************************************)
(* What PerfRingBuffer::read() promises to process_events(): a queue of    *)
(* whole records.  A call looks once whether something is queued; if so it *)
(* hands out the oldest record, which stays readable and unchanged until   *)
(* the caller is done with it, otherwise it returns nullptr.               *)
(***************************************************************************)
EXTENDS Sequences

CONSTANTS Record,    \* the records the kernel may queue
          NoRecord   \* nothing handed out

VARIABLES queue,     \* records written and not handed out yet, oldest first
          call,      \* what the running call of read() found, "none" between calls
          out        \* the record handed out, as its reader sees it now

vars == <<queue, call, out>>

Init == queue = <<>> /\ call = "none" /\ out = NoRecord

Put == /\ \E r \in Record : queue' = Append(queue, r)
       /\ UNCHANGED <<call, out>>

Call == /\ call = "none"
        /\ out = NoRecord
        /\ call' = IF queue = <<>> THEN "empty" ELSE "some"
        /\ UNCHANGED <<queue, out>>

ReturnRecord == /\ call = "some"
                /\ call' = "none"
                /\ queue # <<>>
                /\ out' = Head(queue)
                /\ queue' = Tail(queue)

ReturnNull == /\ call = "empty"
              /\ call' = "none"
              /\ UNCHANGED <<queue, out>>

Release == /\ out # NoRecord
           /\ out' = NoRecord
           /\ UNCHANGED <<queue, call>>

Next == Put \/ Call \/ ReturnRecord \/ ReturnNull \/ Release

Spec == Init /\ [][Next]_vars
=============================================================================

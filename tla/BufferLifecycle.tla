--------------------------- MODULE BufferLifecycle ---------------------------
(***************************************************************************)
(* What a BufferQueue promises about one buffer: the life cycle of a       *)
(* cached buffer (spec.md section 4.1).  A buffer is Absent (not in the    *)
(* queue's cache) or in one of five states, and a step of the queue may    *)
(* move any number of buffers, each along one edge of the diagram below.   *)
(* Removal from the cache (deletion on shrink, reallocation, detach,       *)
(* disposal of a buffer marked isDeleting) is an edge to Absent; entry is  *)
(* allocation (to Requested) or attach (to Attached).                      *)
(***************************************************************************)
CONSTANT Seqs          \* the sequence numbers a buffer can carry

VARIABLE st            \* st[s]: the state of buffer s, or Absent

Absent == "Absent"

States == {"Released", "Requested", "Flushed", "Acquired", "Attached"}

(* The edges of the state diagram of a non-shared queue. *)
Edges ==
    { <<"Released",  "Requested">>,  \* request
      <<"Requested", "Released">>,   \* cancel
      <<"Requested", "Flushed">>,    \* flush
      <<"Attached",  "Flushed">>,    \* flush of an attached buffer
      <<"Flushed",   "Acquired">>,   \* acquire
      <<"Acquired",  "Released">>,   \* release
      <<"Attached",  "Released">>,   \* release of an attached buffer
      <<Absent,      "Requested">>,  \* allocation
      <<Absent,      "Attached">> }  \* attach
    \cup { <<x, Absent>> : x \in States }   \* removal from the cache

Init == st = [s \in Seqs |-> Absent]

(* A step moves at least one buffer, each moved buffer along an edge. *)
Step ==
    /\ st' \in [Seqs -> States \cup {Absent}]
    /\ st' # st
    /\ \A s \in Seqs : st'[s] = st[s] \/ <<st[s], st'[s]>> \in Edges

Spec == Init /\ [][Step]_st
=============================================================================

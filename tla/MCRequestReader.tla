---------------------------- MODULE MCRequestReader ----------------------------
(* RequestReader with a header limit of 3 bytes and a buffer of 5.  The    *)
(* requests go one past every limit.                                       *)
EXTENDS RequestReader

SmallRequests ==
  {r \in [header : 0..4, declared : -1..6, echo : {0}, length : 0..7] :
     r.header <= r.length}
  \cup {r \in [header : 1..2, declared : {-1, 0}, echo : 2..4, length : 2..5] :
          r.header < r.echo /\ r.echo <= r.length}
=============================================================================

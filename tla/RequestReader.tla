----------------------------- MODULE RequestReader -----------------------------
(***************************************************************************)
(* How a worker reads one request (thread_handler.c: _process_request,     *)
(* _get_request_headers, _get_request_contents, with receive_data of       *)
(* connection_handler.c), against a client whose bytes arrive in any       *)
(* portions, late, or not at all.                                          *)
(*                                                                         *)
(* A byte is its position in the client's stream; the buffer says which    *)
(* byte lies at which offset.  total_bytes_read is an int the callees      *)
(* reach through a pointer; _get_request_contents advances the pointer     *)
(* instead of the int, so what it reads there next is no defined value.    *)
(***************************************************************************)
EXTENDS Integers

CONSTANTS
  HeaderLimit,     \* MAX_HTTP_HEADER_LINE_SIZE
  BufferSize,      \* RECEIVE_BUFFER_SIZE
  EchoLength,      \* the number in bytes behind the headers that read like Content-Length
  Requests         \* what clients may send

ASSUME ReaderAssumption ==
  /\ HeaderLimit \in Nat \ {0, 1}
  /\ BufferSize \in Nat /\ HeaderLimit <= BufferSize
  /\ Requests \subseteq [header : Nat,      \* bytes up to \r\n\r\n, 0 if it never comes
                         declared : Int,    \* Content-Length, -1 without that header,
                                            \* beyond BufferSize if it does not parse
                         echo : Nat,        \* bytes up to the end of a "Content-Length: n"
                                            \* behind the headers, 0 if there is none
                         length : Nat]      \* bytes the client has to send in all
  /\ \A r \in Requests : /\ r.header <= r.length /\ r.echo <= r.length
                         /\ r.declared >= -1
                         /\ r.echo > 0 => r.header \in 1..(r.echo - 1)
  /\ EchoLength \in Nat

VARIABLES
  request,         \* what this client sends
  sent,            \* bytes that have arrived at the socket
  peer,            \* "open", "fin" or "reset"
  consumed,        \* bytes recv has returned
  pc,
  total_bytes_read,
  body_bytes_read,
  buffer,          \* offset -> stream position, 0 for the zeros of calloc
  heap,            \* blocks of this call that are allocated
  fault,           \* a store went out of the buffer or to an undefined offset
  outcome

client  == <<request, sent, peer>>
counts  == <<consumed, total_bytes_read, body_bytes_read>>
vars    == <<client, counts, pc, buffer, heap, fault, outcome>>

Offsets == 0..(BufferSize - 1)

Init ==
  /\ request \in Requests
  /\ sent = 0 /\ peer = "open"
  /\ consumed = 0 /\ total_bytes_read = 0 /\ body_bytes_read = 0
  /\ pc = "start"
  /\ buffer = [i \in Offsets |-> 0]
  /\ heap = {}
  /\ fault = FALSE
  /\ outcome = "pending"

-----------------------------------------------------------------------------
(* The client and the network, for as long as the worker reads.            *)

Arrive == /\ peer = "open" /\ pc # "done"
          /\ sent' \in (sent + 1)..request.length
          /\ UNCHANGED <<request, peer, counts, pc, buffer, heap, fault, outcome>>

Leave == /\ peer = "open" /\ pc # "done"
         /\ peer' \in {"fin", "reset"}
         /\ UNCHANGED <<request, sent, counts, pc, buffer, heap, fault, outcome>>

-----------------------------------------------------------------------------
(* receive_data                                                            *)

(* recv returns n > 0 bytes, which a reset may or may not have discarded.   *)
Received(n, limit) == n \in 1..limit /\ consumed + n <= sent

(* recv returns 0: the client has finished and everything was read.        *)
ReceivedNothing == peer = "fin" /\ consumed = sent

(* recv returns -1: SO_RCVTIMEO passed without a byte, or a reset.         *)
ReceiveFails == peer = "reset" \/ (peer = "open" /\ consumed = sent)

(* memcpy(buffer + offset, ..., n) of the bytes just received.             *)
Copied(offset, n) ==
  [i \in Offsets |-> IF i \in offset..(offset + n - 1)
                       THEN consumed + (i - offset) + 1 ELSE buffer[i]]

(* free(buffer); return false.                                             *)
Reject == /\ heap' = heap \ {"buffer"}
          /\ outcome' = "rejected" /\ pc' = "done"

-----------------------------------------------------------------------------
(* _process_request up to the first callee                                 *)
Start ==
  /\ pc = "start"
  /\ \/ heap' = {"buffer"} /\ pc' = "headers" /\ UNCHANGED outcome
     \/ outcome' = "no_memory" /\ pc' = "done" /\ UNCHANGED heap
  /\ UNCHANGED <<client, counts, buffer, fault>>

-----------------------------------------------------------------------------
(* _get_request_headers                                                    *)

(* memmem(buffer, *total_bytes_read, "\r\n\r\n", 4)                        *)
EndFound == request.header > 0 /\ total_bytes_read >= request.header

ReadingHeaders == pc = "headers" /\ ~EndFound

(* One portion of n bytes that the capacity test lets through or not.      *)
TakeHeaders(n, fits) ==
  /\ Received(n, HeaderLimit - 1)
  /\ consumed' = consumed + n
  /\ IF fits THEN /\ buffer' = Copied(total_bytes_read, n)
                  /\ total_bytes_read' = total_bytes_read + n
                  /\ UNCHANGED <<heap, outcome, pc>>
             ELSE Reject /\ UNCHANGED <<buffer, total_bytes_read>>
  /\ UNCHANGED <<client, body_bytes_read, fault>>

(* Mutants: a header of exactly the limit is refused; the limit is not     *)
(* tested.                                                                 *)
HeadersTooShort == ReadingHeaders /\ \E n \in 1..HeaderLimit :
  TakeHeaders(n, total_bytes_read + n < HeaderLimit)
HeadersUnlimited == ReadingHeaders /\ \E n \in 1..HeaderLimit :
  TakeHeaders(n, TRUE)

ReceiveHeaders == ReadingHeaders /\ \E n \in 1..HeaderLimit :
  TakeHeaders(n, total_bytes_read + n <= HeaderLimit)

(* Mutant: recv returning 0 is not taken for the end of the stream.        *)
HeadersSpin ==
  /\ ReadingHeaders /\ ReceiveFails
  /\ Reject
  /\ UNCHANGED <<client, counts, buffer, fault>>

(* Mutant: the end of the stream is taken for the end of the headers.      *)
HeadersCut ==
  /\ ReadingHeaders
  /\ \/ ReceiveFails /\ Reject
     \/ ReceivedNothing /\ pc' = "respond" /\ UNCHANGED <<heap, outcome>>
  /\ UNCHANGED <<client, counts, buffer, fault>>

(* A failure, or the end of the stream before the end of the headers.      *)
HeadersFail ==
  /\ ReadingHeaders
  /\ ReceivedNothing \/ ReceiveFails
  /\ Reject
  /\ UNCHANGED <<client, counts, buffer, fault>>

(* What strstr finds: the header, or else what the bytes received with the *)
(* headers look like.                                                      *)
Declared ==
  IF request.declared = -1 /\ request.echo \in 1..total_bytes_read THEN EchoLength
  ELSE request.declared

(* The headers are in the buffer: strstr for Content-Length and strtoul.   *)
ParseLength ==
  /\ pc = "headers" /\ EndFound
  /\ IF Declared > BufferSize THEN Reject
     ELSE /\ pc' = IF Declared > 0 THEN "contents" ELSE "respond"
          /\ UNCHANGED <<heap, outcome>>
  /\ UNCHANGED <<client, counts, buffer, fault>>

-----------------------------------------------------------------------------
(* _get_request_contents                                                   *)

ReadingContents == pc = "contents" /\ ~fault /\ body_bytes_read < Declared

(* Mutant: the bytes that came with the headers are overwritten.           *)
ContentsAtEnd ==
  /\ ReadingContents
  /\ \E n \in 1..(Declared - body_bytes_read) :
       /\ Received(n, Declared - body_bytes_read)
       /\ consumed' = consumed + n
       /\ body_bytes_read' = body_bytes_read + n
       /\ buffer' = Copied(request.header, n)
  /\ UNCHANGED <<client, total_bytes_read, pc, heap, fault, outcome>>

(* The first portion goes behind the headers.  After it total_bytes_read   *)
(* points n ints further, and the offset of a next portion is whatever     *)
(* lies there.                                                             *)
ReceiveContents ==
  /\ ReadingContents
  /\ \E n \in 1..(Declared - body_bytes_read) :
       /\ Received(n, Declared - body_bytes_read)
       /\ consumed' = consumed + n
       /\ IF body_bytes_read > 0 \/ total_bytes_read + n > BufferSize
            THEN fault' = TRUE /\ UNCHANGED <<buffer, body_bytes_read>>
            ELSE /\ buffer' = Copied(total_bytes_read, n)
                 /\ body_bytes_read' = body_bytes_read + n
                 /\ UNCHANGED fault
  /\ UNCHANGED <<client, total_bytes_read, pc, heap, outcome>>

(* Mutant: a timeout ends the loop the way the end of the stream does.     *)
ContentsGiveUp ==
  /\ ReadingContents /\ ReceiveFails
  /\ pc' = "respond"
  /\ UNCHANGED <<client, counts, buffer, heap, fault, outcome>>

(* Mutant: the failure frees the buffer and is not reported.               *)
ContentsIgnored ==
  /\ ReadingContents /\ ReceiveFails
  /\ heap' = heap \ {"buffer"} /\ pc' = "respond"
  /\ UNCHANGED <<client, counts, buffer, fault, outcome>>

ContentsFail ==
  /\ ReadingContents /\ ReceiveFails
  /\ Reject
  /\ UNCHANGED <<client, counts, buffer, fault>>

(* The loop ends: everything that was declared, or the end of the stream.  *)
ContentsEnd ==
  /\ pc = "contents" /\ ~fault
  /\ body_bytes_read >= Declared \/ ReceivedNothing
  /\ pc' = "respond"
  /\ UNCHANGED <<client, counts, buffer, heap, fault, outcome>>

-----------------------------------------------------------------------------
(* The rest of _process_request: without a response buffer it returns at   *)
(* once, otherwise process_http_request runs and, whatever it returns,     *)
(* both blocks are freed.                                                  *)
Respond ==
  /\ pc = "respond"
  /\ \/ outcome' = "no_memory" /\ UNCHANGED heap
     \/ outcome' = "processed" /\ heap' = heap \ {"buffer"}
  /\ pc' = "done"
  /\ UNCHANGED <<client, counts, buffer, fault>>

Worker == \/ Start \/ ReceiveHeaders \/ HeadersFail \/ ParseLength
          \/ ReceiveContents \/ ContentsFail \/ ContentsEnd \/ Respond

Next == Arrive \/ Leave \/ Worker

Spec == Init /\ [][Next]_vars

(* The worker's thread runs, and SO_RCVTIMEO ends every recv.  The client  *)
(* owes nothing.                                                           *)
FairSpec == Spec /\ WF_vars(Worker)
-----------------------------------------------------------------------------
TypeOK ==
  /\ request \in Requests
  /\ sent \in 0..request.length /\ consumed \in 0..sent
  /\ peer \in {"open", "fin", "reset"}
  /\ pc \in {"start", "headers", "contents", "respond", "done"}
  /\ total_bytes_read \in 0..HeaderLimit
  /\ body_bytes_read \in 0..BufferSize
  /\ buffer \in [Offsets -> 0..request.length]
  /\ heap \subseteq {"buffer"}
  /\ fault \in BOOLEAN
  /\ outcome \in {"pending", "processed", "rejected", "no_memory"}

(* However the bytes arrive, the buffer holds what recv returned, in order *)
(* and without a gap or a byte twice, then zeros.  strstr and the parser   *)
(* rely on both.                                                           *)
BufferIsPrefix ==
  ~fault /\ outcome # "rejected" =>
    /\ consumed = total_bytes_read + body_bytes_read
    /\ \A i \in Offsets : buffer[i] = IF i < consumed THEN i + 1 ELSE 0

(* process_http_request is called with the whole header section inside     *)
(* message_size, which its parser does not check against.                  *)
ParserSeesHeaders ==
  pc = "respond" \/ outcome = "processed" =>
    request.header > 0 /\ total_bytes_read >= request.header

(* A request whose body is shorter than declared goes to processing only   *)
(* when the client finished early, never because it was slow.              *)
TruncatedOnlyByFin ==
  outcome = "processed" /\ consumed < request.header + Declared
    => peer = "fin" /\ consumed = sent

(* A request without a body that arrives whole reaches the parser, in      *)
(* whatever portions it came, up to the very limit of a header's size, and *)
(* whatever else arrived with it, as long as that does not read like a     *)
(* Content-Length (thread_handler.c:185 searches the whole buffer).        *)
BodilessRequestIsRead ==
  /\ request.header > 0 /\ request.length <= HeaderLimit
  /\ request.declared <= 0 /\ request.echo = 0
  /\ sent = request.length /\ peer # "reset"
  => outcome # "rejected"

(* The worker is never held by a client: it stops reading, unless a store  *)
(* went astray.                                                            *)
ReadingEnds == <>(pc = "done" \/ fault)

(* thread_handler.c:168, "load headers and body into buffer": a request    *)
(* that arrives whole, headers and body within either limit, is not        *)
(* rejected.                                                               *)
CompleteRequestIsRead ==
  /\ request.header > 0 /\ request.length <= HeaderLimit
  /\ request.declared >= 0 /\ request.length = request.header + request.declared
  /\ sent = request.length /\ peer # "reset"
  => outcome # "rejected"
=============================================================================

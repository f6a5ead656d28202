------------------------- MODULE RequestReader_proofs -------------------------
(***************************************************************************)
(* Proofs about RequestReader, for every limit, every buffer size, every   *)
(* set of requests and every way their bytes arrive.                       *)
(***************************************************************************)
EXTENDS RequestReader, TLAPS

(* What each place of the program counter says of the rest: where the call *)
(* may still be, nothing has been decided, and the buffer is allocated.    *)
PlaceInv ==
  /\ pc = "start" => heap = {} /\ total_bytes_read = 0
  /\ pc \in {"headers", "contents", "respond"} => heap = {"buffer"}
  /\ pc \in {"start", "headers"} => body_bytes_read = 0
  /\ fault => pc = "contents"
  /\ outcome = "pending" <=> pc # "done"
  /\ pc = "done" => heap = {} \/ outcome = "no_memory"
  /\ pc \in {"contents", "respond"} => EndFound
  /\ pc = "contents" => Declared \in 1..BufferSize

(* TruncatedOnlyByFin, from the moment nothing more is read.               *)
ReadInFull ==
  pc = "respond" \/ outcome = "processed" =>
    \/ consumed >= request.header + Declared
    \/ peer = "fin" /\ consumed = sent

(* The store that leaves the buffer or has no defined offset: the counter  *)
(* behind total_bytes_read was advanced by a first portion of a body, or   *)
(* headers and first portion together are too long.                        *)
FaultNeedsBody ==
  fault => /\ EndFound
           /\ body_bytes_read < Declared
           /\ body_bytes_read > 0 \/ consumed > BufferSize

(* The inductive invariant.                                                *)
IInv == TypeOK /\ PlaceInv /\ BufferIsPrefix /\ ParserSeesHeaders /\ ReadInFull
        /\ BodilessRequestIsRead /\ FaultNeedsBody
-----------------------------------------------------------------------------
(* The numbers of a request.                                               *)
LEMMA RequestIs ==
  ASSUME NEW r \in Requests
  PROVE  /\ r.length \in Nat /\ r.header \in 0..r.length /\ r.echo \in 0..r.length
         /\ r.declared \in Int
<1>1. r \in [header : Nat, declared : Int, echo : Nat, length : Nat]
  BY ReaderAssumption
<1>2. r.header <= r.length /\ r.echo <= r.length
  BY ReaderAssumption
<1> QED
  BY <1>1, <1>2

LEMMA InitEstablishes == Init => IInv
<1> SUFFICES ASSUME Init PROVE IInv
  OBVIOUS
<1> USE DEF Init
<1>1. TypeOK
  <2>1. request.length \in Nat
    BY RequestIs
  <2>2. buffer \in [Offsets -> 0..request.length]
    BY <2>1
  <2>3. total_bytes_read \in 0..HeaderLimit /\ body_bytes_read \in 0..BufferSize
    BY ReaderAssumption
  <2>4. sent \in 0..request.length /\ consumed \in 0..sent
    BY <2>1
  <2>5. /\ request \in Requests /\ peer = "open" /\ pc = "start" /\ heap = {}
        /\ fault = FALSE /\ outcome = "pending"
    OBVIOUS
  <2> QED
    BY <2>2, <2>3, <2>4, <2>5 DEF TypeOK
<1>2. PlaceInv
  BY DEF PlaceInv
<1>3. BufferIsPrefix
  BY DEF BufferIsPrefix, Offsets
<1>4. ParserSeesHeaders /\ ReadInFull /\ BodilessRequestIsRead /\ FaultNeedsBody
  BY DEF ParserSeesHeaders, ReadInFull, BodilessRequestIsRead, FaultNeedsBody
<1> QED
  BY <1>1, <1>2, <1>3, <1>4 DEF IInv

(* A request's numbers, and what strstr may find behind its headers.       *)
LEMMA RequestNumbers ==
  ASSUME TypeOK
  PROVE  /\ request.header \in 0..request.length /\ request.length \in Nat
         /\ request.declared \in Int /\ Declared \in Int
         /\ sent \in Nat /\ consumed \in Nat /\ consumed <= sent
         /\ sent <= request.length
         /\ total_bytes_read \in Nat /\ body_bytes_read \in Nat
         /\ BufferSize \in Nat /\ HeaderLimit \in Nat /\ HeaderLimit <= BufferSize
BY ReaderAssumption DEF TypeOK, Declared

(* One memcpy behind what is there already: the prefix grows by n.         *)
LEMMA CopiedExtends ==
  ASSUME TypeOK, NEW n \in Nat \ {0}, consumed + n <= sent,
         \A i \in Offsets : buffer[i] = IF i < consumed THEN i + 1 ELSE 0
  PROVE  /\ Copied(consumed, n) \in [Offsets -> 0..request.length]
         /\ \A i \in Offsets :
              Copied(consumed, n)[i] = IF i < consumed + n THEN i + 1 ELSE 0
<1> USE RequestNumbers DEF Offsets
<1>1. ASSUME NEW i \in Offsets
      PROVE  Copied(consumed, n)[i] = IF i < consumed + n THEN i + 1 ELSE 0
  BY <1>1 DEF Copied
<1>2. ASSUME NEW i \in Offsets PROVE Copied(consumed, n)[i] \in 0..request.length
  BY <1>1
<1>3. Copied(consumed, n) = [i \in Offsets |-> Copied(consumed, n)[i]]
  BY DEF Copied
<1> QED
  BY <1>1, <1>2, <1>3

-----------------------------------------------------------------------------
(* The client changes only what has arrived and whether it is still there. *)
LEMMA ClientKeeps ==
  ASSUME IInv, Arrive \/ Leave
  PROVE  IInv'
<1> USE RequestNumbers DEF IInv
<1>1. /\ UNCHANGED <<request, counts, pc, buffer, heap, fault, outcome>>
      /\ pc # "done" /\ peer = "open"
      /\ sent' \in sent..request.length
      /\ peer' \in {"open", "fin", "reset"}
  BY DEF Arrive, Leave, TypeOK
<1>2. TypeOK'
  BY <1>1 DEF TypeOK, counts
<1>3. Declared' = Declared /\ EndFound' = EndFound
  BY <1>1 DEF Declared, EndFound, counts
<1>4. PlaceInv' /\ BufferIsPrefix' /\ ParserSeesHeaders' /\ FaultNeedsBody'
  BY <1>1, <1>3 DEF PlaceInv, BufferIsPrefix, ParserSeesHeaders, FaultNeedsBody, counts
<1>5. ReadInFull'
  BY <1>1, <1>3 DEF ReadInFull, PlaceInv, counts
<1>6. BodilessRequestIsRead'
  BY <1>1 DEF BodilessRequestIsRead, PlaceInv
<1> QED
  BY <1>2, <1>4, <1>5, <1>6

LEMMA StartKeeps ==
  ASSUME IInv, Start
  PROVE  IInv'
<1> USE DEF IInv
<1>1. /\ UNCHANGED <<request, sent, peer, consumed, total_bytes_read, body_bytes_read,
                     buffer, fault>>
      /\ pc = "start" /\ outcome = "pending"
      /\ \/ heap' = {"buffer"} /\ pc' = "headers" /\ outcome' = "pending"
         \/ heap' = {} /\ pc' = "done" /\ outcome' = "no_memory"
  BY DEF Start, client, counts, PlaceInv
<1>2. TypeOK'
  BY <1>1 DEF TypeOK
<1>3. PlaceInv'
  BY <1>1 DEF PlaceInv
<1>4. BufferIsPrefix' /\ ParserSeesHeaders' /\ ReadInFull' /\ BodilessRequestIsRead'
  BY <1>1 DEF BufferIsPrefix, ParserSeesHeaders, ReadInFull, BodilessRequestIsRead
<1>5. FaultNeedsBody'
  BY <1>1 DEF FaultNeedsBody, PlaceInv
<1> QED
  BY <1>2, <1>3, <1>4, <1>5
-----------------------------------------------------------------------------
(* Every refusal ends the call with the buffer freed.                      *)
LEMMA RejectKeeps ==
  ASSUME IInv, Reject, ~fault, UNCHANGED <<client, buffer, fault>>,
         UNCHANGED <<total_bytes_read, body_bytes_read>>,
         consumed' \in 0..sent, BodilessRequestIsRead'
  PROVE  IInv'
<1> USE DEF IInv
<1>1. /\ UNCHANGED <<request, sent, peer>>
      /\ pc' = "done" /\ outcome' = "rejected" /\ heap' = {}
  BY DEF Reject, client, TypeOK
<1>2. TypeOK'
  BY <1>1 DEF TypeOK
<1>3. PlaceInv'
  BY <1>1 DEF PlaceInv
<1>4. BufferIsPrefix' /\ ParserSeesHeaders' /\ ReadInFull' /\ FaultNeedsBody'
  BY <1>1 DEF BufferIsPrefix, ParserSeesHeaders, ReadInFull, FaultNeedsBody
<1> QED
  BY <1>2, <1>3, <1>4

(* While headers are read, everything received is in the buffer.           *)
LEMMA HeadersInBuffer ==
  ASSUME IInv, ReadingHeaders
  PROVE  /\ consumed = total_bytes_read /\ body_bytes_read = 0
         /\ \A i \in Offsets : buffer[i] = IF i < consumed THEN i + 1 ELSE 0
         /\ ~fault /\ outcome = "pending" /\ heap = {"buffer"}
         /\ request.header > 0 => consumed < request.header
<1>1. /\ body_bytes_read = 0 /\ ~fault /\ outcome = "pending"
      /\ heap = {"buffer"}
  BY DEF IInv, PlaceInv, ReadingHeaders, TypeOK
<1>2. consumed = total_bytes_read + body_bytes_read
      /\ \A i \in Offsets : buffer[i] = IF i < consumed THEN i + 1 ELSE 0
  BY <1>1 DEF IInv, BufferIsPrefix
<1>3. consumed = total_bytes_read
  BY <1>1, <1>2, RequestNumbers DEF IInv
<1> QED
  BY <1>1, <1>2, <1>3, RequestNumbers DEF IInv, ReadingHeaders, EndFound

LEMMA ReceiveHeadersKeeps ==
  ASSUME IInv, ReceiveHeaders
  PROVE  IInv'
<1> USE RequestNumbers DEF IInv
<1>1. PICK n \in 1..HeaderLimit : TakeHeaders(n, total_bytes_read + n <= HeaderLimit)
  BY DEF ReceiveHeaders
<1>2. ReadingHeaders
  BY DEF ReceiveHeaders
<1>3. /\ n \in Nat \ {0} /\ consumed + n <= sent /\ consumed' = consumed + n
      /\ UNCHANGED <<request, sent, peer, body_bytes_read, fault>>
      /\ UNCHANGED <<client, body_bytes_read, fault>>
  BY <1>1 DEF TakeHeaders, Received, client
<1>4. pc = "headers"
  BY <1>2 DEF ReadingHeaders
<1>5. CASE total_bytes_read + n <= HeaderLimit
  <2>1. /\ buffer' = Copied(consumed, n) /\ total_bytes_read' = consumed + n
        /\ UNCHANGED <<heap, outcome, pc>>
    BY <1>1, <1>2, <1>5, HeadersInBuffer DEF TakeHeaders
  <2>2. /\ Copied(consumed, n) \in [Offsets -> 0..request.length]
        /\ \A i \in Offsets :
             Copied(consumed, n)[i] = IF i < consumed + n THEN i + 1 ELSE 0
    BY <1>2, <1>3, CopiedExtends, HeadersInBuffer
  <2>3. TypeOK'
    <3>1. total_bytes_read' \in 0..HeaderLimit /\ consumed' \in 0..sent
      BY <1>2, <1>3, <1>5, <2>1, HeadersInBuffer
    <3>2. buffer' \in [Offsets -> 0..request.length]
      BY <2>1, <2>2
    <3> QED
      BY <1>3, <2>1, <3>1, <3>2 DEF TypeOK
  <2>4. PlaceInv'
    BY <1>3, <1>4, <2>1 DEF PlaceInv, EndFound
  <2>5. BufferIsPrefix'
    <3>1. consumed' = total_bytes_read' + body_bytes_read'
      BY <1>2, <1>3, <2>1, HeadersInBuffer
    <3> QED
      BY <1>3, <2>1, <2>2, <3>1 DEF BufferIsPrefix
  <2>6. ParserSeesHeaders' /\ ReadInFull' /\ BodilessRequestIsRead' /\ FaultNeedsBody'
    BY <1>2, <1>3, <1>4, <2>1, HeadersInBuffer
       DEF ParserSeesHeaders, ReadInFull, BodilessRequestIsRead, FaultNeedsBody
  <2> QED
    BY <2>3, <2>4, <2>5, <2>6
<1>6. CASE ~(total_bytes_read + n <= HeaderLimit)
  <2>1. Reject /\ UNCHANGED <<buffer, total_bytes_read>>
    BY <1>1, <1>6 DEF TakeHeaders
  <2>2. request.length > HeaderLimit
    BY <1>2, <1>3, <1>6, HeadersInBuffer
  <2>3. BodilessRequestIsRead' /\ consumed' \in 0..sent
    BY <1>3, <2>2 DEF BodilessRequestIsRead
  <2> QED
    BY <1>2, <1>3, <2>1, <2>3, HeadersInBuffer, RejectKeeps
<1> QED
  BY <1>5, <1>6

LEMMA HeadersFailKeeps ==
  ASSUME IInv, HeadersFail
  PROVE  IInv'
<1> USE RequestNumbers DEF IInv
<1>1. /\ ReadingHeaders /\ Reject /\ (ReceivedNothing \/ ReceiveFails)
      /\ UNCHANGED <<client, counts, buffer, fault>>
  BY DEF HeadersFail
<1>2. request.header > 0 => consumed < request.length
  BY <1>1, HeadersInBuffer
<1>3. ReceivedNothing \/ ReceiveFails => peer = "reset" \/ consumed = sent
  BY DEF ReceivedNothing, ReceiveFails
<1>4. BodilessRequestIsRead'
  BY <1>1, <1>2, <1>3 DEF BodilessRequestIsRead, HeadersFail, client
<1> QED
  BY <1>1, <1>4, HeadersInBuffer, RejectKeeps DEF HeadersFail, counts
-----------------------------------------------------------------------------
LEMMA ParseLengthKeeps ==
  ASSUME IInv, ParseLength
  PROVE  IInv'
<1> USE RequestNumbers DEF IInv
<1>1. /\ pc = "headers" /\ EndFound
      /\ UNCHANGED <<client, counts, buffer, fault>>
      /\ UNCHANGED <<request, sent, peer, consumed, total_bytes_read, body_bytes_read>>
  BY DEF ParseLength, client, counts
<1>2. ~fault /\ body_bytes_read = 0 /\ outcome = "pending" /\ heap = {"buffer"}
  BY <1>1 DEF PlaceInv
<1>3. Declared' = Declared /\ EndFound' = EndFound
  BY <1>1 DEF Declared, EndFound
<1>4. consumed = total_bytes_read
  BY <1>2 DEF BufferIsPrefix
<1>5. CASE Declared > BufferSize
  <2>1. Reject
    BY <1>5 DEF ParseLength
  <2>2. BodilessRequestIsRead'
    BY <1>1, <1>5 DEF BodilessRequestIsRead, Declared, TypeOK
  <2> QED
    BY <1>1, <1>2, <2>1, <2>2, RejectKeeps
<1>6. CASE ~(Declared > BufferSize)
  <2>1. /\ pc' = IF Declared > 0 THEN "contents" ELSE "respond"
        /\ UNCHANGED <<heap, outcome>>
    BY <1>6 DEF ParseLength
  <2>2. TypeOK'
    BY <1>1, <2>1 DEF TypeOK
  <2>3. PlaceInv'
    BY <1>1, <1>2, <1>3, <1>6, <2>1 DEF PlaceInv
  <2>4. BufferIsPrefix' /\ BodilessRequestIsRead' /\ FaultNeedsBody'
    BY <1>1, <1>2, <2>1 DEF BufferIsPrefix, BodilessRequestIsRead, FaultNeedsBody
  <2>5. ParserSeesHeaders'
    BY <1>1, <1>2, <2>1 DEF ParserSeesHeaders, EndFound
  <2>6. ReadInFull'
    BY <1>1, <1>2, <1>3, <1>4, <2>1 DEF ReadInFull, EndFound
  <2> QED
    BY <2>2, <2>3, <2>4, <2>5, <2>6
<1> QED
  BY <1>5, <1>6

(* The first portion of the body extends the prefix, any other step of the *)
(* loop is the fault.                                                      *)
LEMMA ReceiveContentsKeeps ==
  ASSUME IInv, ReceiveContents
  PROVE  IInv'
<1> USE RequestNumbers DEF IInv
<1>1. PICK n \in 1..(Declared - body_bytes_read) :
        /\ Received(n, Declared - body_bytes_read)
        /\ consumed' = consumed + n
        /\ IF body_bytes_read > 0 \/ total_bytes_read + n > BufferSize
             THEN fault' = TRUE /\ UNCHANGED <<buffer, body_bytes_read>>
             ELSE /\ buffer' = Copied(total_bytes_read, n)
                  /\ body_bytes_read' = body_bytes_read + n
                  /\ UNCHANGED fault
  BY DEF ReceiveContents
<1>2. /\ pc = "contents" /\ ~fault
      /\ UNCHANGED <<request, sent, peer, total_bytes_read, pc, heap, outcome>>
  BY DEF ReceiveContents, ReadingContents, client
<1>3. n \in Nat \ {0} /\ consumed + n <= sent /\ consumed' \in 0..sent
  BY <1>1 DEF Received
<1>4. outcome = "pending" /\ heap = {"buffer"} /\ EndFound /\ Declared \in 1..BufferSize
  BY <1>2 DEF PlaceInv
<1>5. Declared' = Declared /\ EndFound' = EndFound
  BY <1>2 DEF Declared, EndFound
<1>6. ParserSeesHeaders' /\ ReadInFull' /\ BodilessRequestIsRead'
  BY <1>2, <1>4 DEF ParserSeesHeaders, ReadInFull, BodilessRequestIsRead
<1>7. PlaceInv'
  BY <1>2, <1>4, <1>5 DEF PlaceInv
<1>8. CASE body_bytes_read > 0 \/ total_bytes_read + n > BufferSize
  <2>1. fault' = TRUE /\ UNCHANGED <<buffer, body_bytes_read>>
    BY <1>1, <1>8
  <2>2. TypeOK'
    BY <1>2, <1>3, <2>1 DEF TypeOK
  <2>3. body_bytes_read < Declared
    BY DEF ReceiveContents, ReadingContents
  <2>4. body_bytes_read = 0 => consumed' > BufferSize
    <3>1. body_bytes_read = 0 => consumed = total_bytes_read
      BY <1>2, <1>4 DEF BufferIsPrefix
    <3> QED
      BY <1>1, <1>8, <3>1
  <2>5. FaultNeedsBody'
    BY <1>4, <1>5, <2>1, <2>3, <2>4 DEF FaultNeedsBody
  <2> QED
    BY <1>6, <1>7, <2>1, <2>2, <2>5 DEF BufferIsPrefix
<1>9. CASE ~(body_bytes_read > 0 \/ total_bytes_read + n > BufferSize)
  <2>1. /\ buffer' = Copied(total_bytes_read, n) /\ body_bytes_read' = n /\ fault' = fault
        /\ body_bytes_read = 0 /\ n \in 0..BufferSize
    BY <1>1, <1>2, <1>3, <1>9
  <2>2. /\ consumed = total_bytes_read
        /\ \A i \in Offsets : buffer[i] = IF i < consumed THEN i + 1 ELSE 0
    BY <1>2, <1>4, <2>1 DEF BufferIsPrefix
  <2>3. /\ Copied(consumed, n) \in [Offsets -> 0..request.length]
        /\ \A i \in Offsets :
             Copied(consumed, n)[i] = IF i < consumed + n THEN i + 1 ELSE 0
    BY <1>3, <2>2, CopiedExtends
  <2>4. TypeOK'
    <3>1. buffer' \in [Offsets -> 0..request.length] /\ fault' \in BOOLEAN
      BY <1>2, <2>1, <2>2, <2>3 DEF TypeOK
    <3> QED
      BY <1>2, <1>3, <2>1, <3>1 DEF TypeOK
  <2>5. BufferIsPrefix'
    BY <1>1, <1>2, <2>1, <2>2, <2>3 DEF BufferIsPrefix
  <2> QED
    BY <1>2, <1>6, <1>7, <2>1, <2>4, <2>5 DEF FaultNeedsBody
<1> QED
  BY <1>8, <1>9

LEMMA ContentsFailKeeps ==
  ASSUME IInv, ContentsFail
  PROVE  IInv'
<1> USE RequestNumbers DEF IInv
<1>1. /\ pc = "contents" /\ ~fault /\ Reject
      /\ UNCHANGED <<client, buffer, fault>>
      /\ UNCHANGED <<request, consumed, total_bytes_read, body_bytes_read>>
  BY DEF ContentsFail, ReadingContents, client, counts
<1>2. Declared > 0
  BY <1>1 DEF PlaceInv
<1>3. BodilessRequestIsRead'
  BY <1>1, <1>2 DEF BodilessRequestIsRead, Declared
<1> QED
  BY <1>1, <1>3, RejectKeeps

LEMMA ContentsEndKeeps ==
  ASSUME IInv, ContentsEnd
  PROVE  IInv'
<1> USE RequestNumbers DEF IInv
<1>1. /\ pc = "contents" /\ ~fault /\ pc' = "respond"
      /\ body_bytes_read >= Declared \/ (peer = "fin" /\ consumed = sent)
      /\ UNCHANGED <<request, sent, peer, consumed, total_bytes_read, body_bytes_read,
                     buffer, heap, fault, outcome>>
  BY DEF ContentsEnd, ReceivedNothing, client, counts
<1>2. outcome = "pending" /\ heap = {"buffer"} /\ EndFound
  BY <1>1 DEF PlaceInv
<1>3. Declared' = Declared /\ EndFound' = EndFound
  BY <1>1 DEF Declared, EndFound
<1>4. TypeOK'
  BY <1>1 DEF TypeOK
<1>5. PlaceInv'
  BY <1>1, <1>2, <1>3 DEF PlaceInv
<1>6. BufferIsPrefix' /\ BodilessRequestIsRead' /\ FaultNeedsBody'
  BY <1>1, <1>2 DEF BufferIsPrefix, BodilessRequestIsRead, FaultNeedsBody
<1>7. ParserSeesHeaders'
  BY <1>1, <1>2 DEF ParserSeesHeaders, EndFound
<1>8. consumed = total_bytes_read + body_bytes_read
  BY <1>1, <1>2 DEF BufferIsPrefix
<1>9. ReadInFull'
  BY <1>1, <1>2, <1>3, <1>8 DEF ReadInFull, EndFound
<1> QED
  BY <1>4, <1>5, <1>6, <1>7, <1>9

LEMMA RespondKeeps ==
  ASSUME IInv, Respond
  PROVE  IInv'
<1> USE RequestNumbers DEF IInv
<1>1. /\ pc = "respond" /\ pc' = "done"
      /\ UNCHANGED <<request, sent, peer, consumed, total_bytes_read, body_bytes_read,
                     buffer, fault>>
      /\ \/ outcome' = "no_memory" /\ heap' = heap
         \/ outcome' = "processed" /\ heap' = heap \ {"buffer"}
  BY DEF Respond, client, counts
<1>2. outcome = "pending" /\ ~fault
  BY <1>1 DEF PlaceInv
<1>3. Declared' = Declared
  BY <1>1 DEF Declared
<1>4. TypeOK'
  BY <1>1 DEF TypeOK
<1>5. PlaceInv'
  BY <1>1, <1>2 DEF PlaceInv
<1>6. /\ BufferIsPrefix' /\ ParserSeesHeaders' /\ ReadInFull'
      /\ BodilessRequestIsRead' /\ FaultNeedsBody'
  BY <1>1, <1>2, <1>3
     DEF BufferIsPrefix, ParserSeesHeaders, ReadInFull, BodilessRequestIsRead, FaultNeedsBody
<1> QED
  BY <1>4, <1>5, <1>6

LEMMA StutterKeeps ==
  ASSUME IInv, UNCHANGED vars
  PROVE  IInv'
BY DEF IInv, TypeOK, PlaceInv, BufferIsPrefix, ParserSeesHeaders, ReadInFull,
   BodilessRequestIsRead, FaultNeedsBody, EndFound, Declared, vars, client, counts

LEMMA StepKeeps == IInv /\ [Next]_vars => IInv'
<1> SUFFICES ASSUME IInv, [Next]_vars PROVE IInv'
  OBVIOUS
<1>1. CASE Arrive \/ Leave
  BY <1>1, ClientKeeps
<1>2. CASE Start
  BY <1>2, StartKeeps
<1>3. CASE ReceiveHeaders
  BY <1>3, ReceiveHeadersKeeps
<1>4. CASE HeadersFail
  BY <1>4, HeadersFailKeeps
<1>5. CASE ParseLength
  BY <1>5, ParseLengthKeeps
<1>6. CASE ReceiveContents
  BY <1>6, ReceiveContentsKeeps
<1>7. CASE ContentsFail
  BY <1>7, ContentsFailKeeps
<1>8. CASE ContentsEnd
  BY <1>8, ContentsEndKeeps
<1>9. CASE Respond
  BY <1>9, RespondKeeps
<1>10. CASE UNCHANGED vars
  BY <1>10, StutterKeeps
<1> QED
  BY <1>1, <1>2, <1>3, <1>4, <1>5, <1>6, <1>7, <1>8, <1>9, <1>10 DEF Next, Worker

-----------------------------------------------------------------------------
(* However recv cuts, delays or ends what the client sends, the counts,    *)
(* the buffer and the place in the code stay as IInv relates them.         *)
THEOREM Invariance == Spec => []IInv
<1> QED
  BY InitEstablishes, StepKeeps, PTL DEF Spec

(* Type correctness: a count never leaves its limit, and what lies in the  *)
(* buffer is always a byte the client sends (thread_handler.c:225-380).    *)
THEOREM TypeCorrect == Spec => []TypeOK
<1>1. IInv => TypeOK
  BY DEF IInv
<1> QED
  BY <1>1, Invariance, PTL

(* However the bytes arrive, the reader keeps the buffer a gapless prefix  *)
(* of the stream, until the one store that has no defined offset.          *)
THEOREM BufferStaysPrefix == Spec => []BufferIsPrefix
<1>1. IInv => BufferIsPrefix
  BY DEF IInv
<1> QED
  BY <1>1, Invariance, PTL

(* process_http_request never starts on less than the whole header section. *)
THEOREM ParserGetsHeaders == Spec => []ParserSeesHeaders
<1>1. IInv => ParserSeesHeaders
  BY DEF IInv
<1> QED
  BY <1>1, Invariance, PTL

(* Only a client that ended its stream gets a body shorter than declared   *)
(* processed: a timeout or a reset in the middle of it never does.         *)
THEOREM SlowBodiesAreNotCut == Spec => []TruncatedOnlyByFin
<1>1. IInv => TruncatedOnlyByFin
  BY RequestNumbers DEF IInv, ReadInFull, TruncatedOnlyByFin
<1> QED
  BY <1>1, Invariance, PTL

(* A request without a body is read up to the very limit of the headers'   *)
(* size, in whatever portions it arrives.                                  *)
THEOREM BodilessIsRead == Spec => []BodilessRequestIsRead
<1>1. IInv => BodilessRequestIsRead
  BY DEF IInv
<1> QED
  BY <1>1, Invariance, PTL

(* What it takes for a store to have no defined offset: more of the body   *)
(* was declared than a first portion brought, or the two together overrun  *)
(* the buffer.  Reading headers, and requests without a body, never get    *)
(* there (thread_handler.c:332-380).                                       *)
THEOREM OnlyBodiesFault == Spec => []FaultNeedsBody
<1>1. IInv => FaultNeedsBody
  BY DEF IInv
<1> QED
  BY <1>1, Invariance, PTL
=============================================================================

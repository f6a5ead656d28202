----------------------------- MODULE Worker_proofs -----------------------------
(***************************************************************************)
(* Proofs about HttpHandler by itself and about Worker, which calls it on  *)
(* what the reader has read, for every first line, every section of header *)
(* lines, every size of validated_headers, every client and every limit.   *)
(***************************************************************************)
EXTENDS Worker, TLAPS

-----------------------------------------------------------------------------
(* The handler                                                             *)

Blocks == {"block", "freed", "null"}

(* The handler keeps the message as it was when it was called.             *)
MessageOK == request_line \in RequestLines /\ lines \in Sections

(* Where the parser is and what it has behind it: nothing before the       *)
(* headers, a valid first line from there on, and one place of             *)
(* validated_headers for every line it has passed.                         *)
ParsedInv ==
  /\ pc \in {"allocate", "metadata"} =>
       line_increment = 0 /\ validated_headers = <<>> /\ http_host = 0
  /\ pc \in {"headers", "free"} =>
       request_line = [method |-> "known", route |-> "path", protocol |-> "http",
                       broken |-> FALSE]
  /\ fault # "header_array" => Len(validated_headers) = line_increment
  /\ fault = "header_array" => pc = "headers"
  /\ \A i \in 1..line_increment : ~lines[i].broken
  /\ http_host > 0 =>
       /\ http_host <= line_increment
       /\ lines[http_host].key = "Host" /\ lines[http_host].form = "good"
       /\ fault # "header_array" => validated_headers[http_host] = "block"
  /\ pc = "free" => line_increment = Len(lines) /\ http_host > 0
  /\ result = "pending" <=> pc # "done"
  /\ pc = "done" => fault = "none"

(* The inductive invariant.                                                *)
HandlerInv == MessageOK /\ TypeOK /\ ParsedInv /\ LastHostWins /\ FaultsAreThese

-----------------------------------------------------------------------------
LEMMA SectionIs ==
  ASSUME NEW s \in Sections
  PROVE  s \in Seq(HeaderLines) /\ Len(s) \in Nat /\ \A i \in 1..Len(s) : s[i] \in HeaderLines
<1>1. PICK n \in 0..MaxLines : s \in [1..n -> HeaderLines]
  BY DEF Sections
<1>2. n \in Nat
  BY <1>1, HttpAssumption
<1> QED
  BY <1>1, <1>2

LEMMA AppendBlock ==
  ASSUME NEW s \in Seq(Blocks), NEW h \in Blocks
  PROVE  /\ Append(s, h) \in Seq(Blocks) /\ Len(s) \in Nat
         /\ Len(Append(s, h)) = Len(s) + 1
         /\ \A i \in 1..Len(s) : Append(s, h)[i] = s[i]
         /\ Append(s, h)[Len(s) + 1] = h
OBVIOUS

(* The numbers in a reachable state.                                       *)
LEMMA HandlerNumbers ==
  ASSUME HandlerInv
  PROVE  /\ Len(lines) \in Nat /\ line_increment \in 0..Len(lines)
         /\ line_increment \in Nat
         /\ http_host \in Nat /\ Len(validated_headers) \in Nat
         /\ validated_headers \in Seq(Blocks)
         /\ \A i \in 1..Len(lines) : lines[i] \in HeaderLines
BY SectionIs DEF HandlerInv, MessageOK, TypeOK, Blocks

(* A handler that has just been called, on any message.                    *)
LEMMA CalledEstablishes ==
  ASSUME Called, MessageOK
  PROVE  HandlerInv
<1>1. Len(lines) \in Nat /\ Len(validated_headers) = 0 /\ validated_headers \in Seq(Blocks)
  BY SectionIs DEF MessageOK, Called
<1>2. TypeOK
  BY <1>1, HttpAssumption DEF TypeOK, Called, Blocks
<1>3. ParsedInv /\ LastHostWins /\ FaultsAreThese
  BY <1>1 DEF ParsedInv, LastHostWins, FaultsAreThese, Called
<1> QED
  BY <1>2, <1>3 DEF HandlerInv

-----------------------------------------------------------------------------
(* validated_headers[validated_cursor++] = raw_header, for whatever became *)
(* of the header, as long as http_host follows the last Host that was kept, *)
(* or is NULL.                                                             *)
LEMMA StoreKeeps ==
  ASSUME HandlerInv, AtHeader, UNCHANGED message, NEW h \in Blocks, Store(h),
         \/ http_host' = 0
         \/ /\ http_host' = http_host
            /\ h = "block" => Line.key # "Host" \/ Line.form # "good"
         \/ /\ http_host' = line_increment + 1 /\ h = "block"
            /\ Line.key = "Host" /\ Line.form = "good"
  PROVE  HandlerInv'
<1>0. /\ line_increment \in Nat /\ http_host \in Nat /\ Len(lines) \in Nat
      /\ validated_headers \in Seq(Blocks)
  BY HandlerNumbers
<1>1. /\ pc = "headers" /\ fault = "none" /\ line_increment < Len(lines)
      /\ ~lines[line_increment + 1].broken
      /\ line_increment' = line_increment + 1
      /\ UNCHANGED <<request_line, lines, pc, result>>
  BY DEF AtHeader, At, Line, Store, Faults, message
<1>2. Len(validated_headers) = line_increment /\ result = "pending"
  BY <1>0, <1>1 DEF HandlerInv, ParsedInv
<1>3. MessageOK' /\ Len(lines)' = Len(lines)
  BY <1>0, <1>1 DEF HandlerInv, MessageOK
<1>4. http_host' \in 0..(line_increment + 1) /\ line_increment' \in 0..Len(lines)
  BY <1>0, <1>1 DEF HandlerInv, ParsedInv
<1>5. \A i \in 1..line_increment' : ~lines'[i].broken
  BY <1>0, <1>1 DEF HandlerInv, ParsedInv
<1>6. http_host' > 0 => lines[http_host'].key = "Host" /\ lines[http_host'].form = "good"
  BY <1>0, <1>1 DEF HandlerInv, ParsedInv, Line
<1>7. (\/ fault' = "none"
       \/ fault' = "header_array" /\ Len(lines) > MaxHeaderCount) => FaultsAreThese'
  BY <1>1 DEF HandlerInv, ParsedInv, FaultsAreThese
<1>8. CASE Len(validated_headers) < MaxHeaderCount
  <2>1. validated_headers' = Append(validated_headers, h) /\ fault' = "none"
    BY <1>0, <1>1, <1>8 DEF Store
  <2>2. /\ validated_headers' \in Seq(Blocks)
        /\ Len(validated_headers') = line_increment + 1
        /\ \A i \in 1..line_increment : validated_headers'[i] = validated_headers[i]
        /\ validated_headers'[line_increment + 1] = h
    BY <1>0, <1>2, <2>1, AppendBlock
  <2>3. TypeOK'
    BY <1>0, <1>1, <1>2, <1>3, <1>4, <1>8, <2>1, <2>2, HttpAssumption
       DEF HandlerInv, TypeOK, Blocks
  <2>4. http_host' > 0 => validated_headers'[http_host'] = "block"
    BY <1>0, <1>1, <1>4, <2>2 DEF HandlerInv, ParsedInv
  <2>5. ParsedInv'
    BY <1>0, <1>1, <1>2, <1>4, <1>5, <1>6, <2>1, <2>2, <2>4 DEF HandlerInv, ParsedInv
  <2>6. LastHostWins'
    <3> DEFINE n == http_host'
    <3>0. n \in Int /\ (n = 0 \/ n = http_host \/ n = line_increment + 1)
      BY <1>0, <1>4
    <3> HIDE DEF n
    <3> SUFFICES ASSUME n > 0, NEW i \in (n + 1)..(line_increment + 1),
                        validated_headers'[i] = "block"
                 PROVE  lines[i].key # "Host" \/ lines[i].form # "good"
      BY <1>0, <1>1, <2>2 DEF LastHostWins, n
    <3>1. CASE i = line_increment + 1
      <4>1. n # line_increment + 1 /\ h = "block"
        BY <1>0, <2>2, <3>0, <3>1
      <4> QED
        BY <3>1, <4>1 DEF Line, n
    <3>2. CASE i # line_increment + 1
      <4>1. /\ line_increment \in Nat /\ i \in Int
            /\ i <= line_increment + 1 /\ i > n
        BY <1>0, <3>0
      <4>2. n = http_host
        BY <3>0, <3>2, <4>1
      <4>3. i \in (http_host + 1)..line_increment
        BY <3>2, <4>1, <4>2
      <4> QED
        BY <1>0, <1>2, <2>2, <4>2, <4>3 DEF HandlerInv, LastHostWins
    <3> QED
      BY <3>1, <3>2
  <2>7. FaultsAreThese'
    BY <1>7, <2>1
  <2> QED
    BY <1>3, <2>3, <2>5, <2>6, <2>7 DEF HandlerInv
<1>9. CASE ~(Len(validated_headers) < MaxHeaderCount)
  <2>1. validated_headers' = validated_headers /\ fault' = "header_array"
    BY <1>0, <1>9 DEF Store, Faults
  <2>2. TypeOK'
    BY <1>0, <1>1, <1>3, <1>4, <2>1 DEF HandlerInv, TypeOK
  <2>3. ParsedInv'
    BY <1>0, <1>1, <1>2, <1>4, <1>5, <1>6, <2>1 DEF HandlerInv, ParsedInv
  <2>4. LastHostWins'
    BY <1>0, <1>1, <1>2, <1>4, <2>1 DEF HandlerInv, LastHostWins
  <2>5. Len(lines) > MaxHeaderCount
    BY <1>0, <1>1, <1>2, <1>9, HttpAssumption
  <2>6. FaultsAreThese'
    BY <1>7, <2>1, <2>5
  <2> QED
    BY <1>3, <2>2, <2>3, <2>4, <2>6 DEF HandlerInv
<1> QED
  BY <1>0, <1>8, <1>9

(* The handler is stopped or thrown out where it stands: what it has read  *)
(* stays what it is.                                                       *)
LEMMA StopKeeps ==
  ASSUME HandlerInv, UNCHANGED <<message, parsed>>, fault = "none",
         \/ Fails /\ fault' = fault /\ pc # "done"
         \/ /\ UNCHANGED <<pc, result>> /\ pc # "done"
            /\ fault' \in {"null_name", "key_cache", "freed_header",
                           "no_http_headers", "double_free", "invalid_free"}
            /\ FaultsAreThese'
  PROVE  HandlerInv'
<1>1. /\ UNCHANGED <<request_line, lines, line_increment, validated_headers, http_host>>
      /\ \/ pc' = "done" /\ result' = "false" /\ fault' = fault
         \/ pc' = pc /\ result' = result
  BY DEF message, parsed, Fails
<1>2. MessageOK' /\ TypeOK'
  BY <1>1 DEF HandlerInv, MessageOK, TypeOK, Fails
<1>3. ParsedInv'
  BY <1>1 DEF HandlerInv, ParsedInv
<1>4. LastHostWins' /\ FaultsAreThese'
  BY <1>1 DEF HandlerInv, LastHostWins, FaultsAreThese
<1> QED
  BY <1>2, <1>3, <1>4 DEF HandlerInv

(* The handler goes on to its next part.                                   *)
LEMMA GoOnKeeps ==
  ASSUME HandlerInv, UNCHANGED <<message, parsed, result, fault>>, fault = "none",
         \/ pc = "allocate" /\ pc' = "metadata"
         \/ pc = "metadata" /\ pc' = "headers" /\ ~FirstLineRefused
            /\ request_line.method # "unknown"
         \/ pc = "headers" /\ pc' = "free" /\ line_increment = Len(lines) /\ http_host > 0
  PROVE  HandlerInv'
<1>1. UNCHANGED <<request_line, lines, line_increment, validated_headers, http_host, result,
                  fault>>
  BY DEF message, parsed
<1>2. MessageOK' /\ TypeOK'
  BY <1>1 DEF HandlerInv, MessageOK, TypeOK
<1>3. pc' = "headers" =>
        request_line = [method |-> "known", route |-> "path", protocol |-> "http",
                        broken |-> FALSE]
  BY DEF HandlerInv, MessageOK, RequestLines, FirstLineRefused
<1>4. ParsedInv'
  <2>1. pc \in {"allocate", "metadata", "headers"} /\ pc' \in {"metadata", "headers", "free"}
    OBVIOUS
  <2> QED
    BY <1>1, <1>3, <2>1 DEF HandlerInv, ParsedInv
<1>5. LastHostWins' /\ FaultsAreThese'
  BY <1>1 DEF HandlerInv, LastHostWins, FaultsAreThese
<1> QED
  BY <1>2, <1>4, <1>5 DEF HandlerInv

-----------------------------------------------------------------------------
LEMMA AllocateKeeps ==
  ASSUME HandlerInv, AllocateHttpRequest
  PROVE  HandlerInv'
<1>1. pc = "allocate" /\ fault = "none" /\ UNCHANGED <<message, parsed, fault>>
  BY DEF AllocateHttpRequest, At
<1>2. CASE Fails
  BY <1>1, <1>2, StopKeeps
<1>3. CASE pc' = "metadata" /\ UNCHANGED result
  BY <1>1, <1>3, GoOnKeeps
<1> QED
  BY <1>2, <1>3 DEF AllocateHttpRequest

LEMMA ValidateMetadataKeeps ==
  ASSUME HandlerInv, ValidateHttpMetadata
  PROVE  HandlerInv'
<1>1. pc = "metadata" /\ fault = "none" /\ UNCHANGED <<message, parsed>>
  BY DEF ValidateHttpMetadata, At
<1>2. CASE /\ ~request_line.broken /\ request_line.method # "short"
           /\ Faults("null_name")
  <2>1. FaultsAreThese'
    BY <1>1, <1>2 DEF Faults, FaultsAreThese, message
  <2> QED
    BY <1>1, <1>2, <2>1, StopKeeps DEF Faults
<1>3. CASE Fails /\ UNCHANGED fault
  BY <1>1, <1>3, StopKeeps
<1>4. CASE /\ ~FirstLineRefused /\ request_line.method # "unknown"
           /\ pc' = "headers" /\ UNCHANGED <<result, fault>>
  BY <1>1, <1>4, GoOnKeeps
<1> QED
  BY <1>2, <1>3, <1>4 DEF ValidateHttpMetadata, FirstLineRefused

LEMMA HeaderKeeps ==
  ASSUME HandlerInv,
         HeaderStored \/ HeaderOverruns \/ HeaderFreed \/ HeaderReadFreed \/ HeaderNull
  PROVE  HandlerInv'
<1>1. CASE HeaderStored
  <2>1. AtHeader /\ UNCHANGED message /\ Store("block") /\ "block" \in Blocks
    BY <1>1 DEF HeaderStored, Blocks
  <2>2. CASE Line.key = "Host" /\ Line.form = "good"
    <3>1. http_host' = line_increment + 1 \/ http_host' = 0
      BY <1>1, <2>2 DEF HeaderStored, CopyHost
    <3> QED
      BY <2>1, <2>2, <3>1, StoreKeeps
  <2>3. CASE ~(Line.key = "Host" /\ Line.form = "good")
    <3>1. http_host' = http_host
      BY <1>1, <2>3 DEF HeaderStored, CopyHost
    <3> QED
      BY <2>1, <2>3, <3>1, StoreKeeps
  <2> QED
    BY <2>2, <2>3
<1>2. CASE HeaderFreed
  BY <1>2, StoreKeeps DEF HeaderFreed, Blocks
<1>3. CASE HeaderNull
  BY <1>3, StoreKeeps DEF HeaderNull, Blocks
<1>4. CASE HeaderOverruns \/ HeaderReadFreed
  <2>1. /\ pc = "headers" /\ fault = "none" /\ UNCHANGED <<message, parsed, pc, result>>
        /\ \/ fault' = "key_cache" /\ lines[line_increment + 1].form = "no_colon"
           \/ fault' = "freed_header" /\ lines[line_increment + 1].key = "Host"
    BY <1>4 DEF HeaderOverruns, HeaderReadFreed, AtHeader, At, Faults, Line
  <2>2. line_increment + 1 \in 1..Len(lines)
    BY <1>4, HandlerNumbers DEF HeaderOverruns, HeaderReadFreed, AtHeader
  <2>3. FaultsAreThese'
    BY <2>1, <2>2 DEF FaultsAreThese, message, HandlerInv, ParsedInv
  <2> QED
    BY <2>1, <2>3, StopKeeps
<1> QED
  BY <1>1, <1>2, <1>3, <1>4

LEMMA HeaderBrokenKeeps ==
  ASSUME HandlerInv, HeaderBroken
  PROVE  HandlerInv'
BY StopKeeps DEF HeaderBroken, At

(* Behind the last line: what a request that gets there has shown.         *)
LEMMA EndedIs ==
  ASSUME HandlerInv, pc \in {"headers", "free"}, fault = "none",
         line_increment = Len(lines), http_host > 0
  PROVE  /\ Len(lines) <= MaxHeaderCount /\ \A i \in 1..Len(lines) : ~lines[i].broken
         /\ http_host \in 1..Len(lines)
         /\ lines[http_host].key = "Host" /\ lines[http_host].form = "good"
BY HandlerNumbers DEF HandlerInv, ParsedInv, TypeOK

LEMMA EndFaults ==
  ASSUME HandlerInv, pc \in {"headers", "free"}, fault = "none",
         line_increment = Len(lines), http_host > 0, UNCHANGED <<message, parsed>>,
         Faults("no_http_headers") \/ Faults("double_free") \/ Faults("invalid_free")
  PROVE  HandlerInv'
<1>1. /\ UNCHANGED <<request_line, lines>>
      /\ request_line = [method |-> "known", route |-> "path", protocol |-> "http",
                         broken |-> FALSE]
  BY DEF HandlerInv, ParsedInv, message
<1>2. FaultsAreThese'
  BY <1>1, EndedIs DEF FaultsAreThese, Faults
<1> QED
  BY <1>2, StopKeeps DEF Faults

LEMMA HeadersEndKeeps ==
  ASSUME HandlerInv, HeadersEnd
  PROVE  HandlerInv'
<1>1. /\ pc = "headers" /\ fault = "none" /\ line_increment = Len(lines)
      /\ UNCHANGED <<message, parsed>>
  BY DEF HeadersEnd, At
<1>2. CASE http_host = 0
  BY <1>1, <1>2, StopKeeps DEF HeadersEnd
<1>3. CASE http_host # 0
  <2>1. http_host > 0
    BY <1>3, HandlerNumbers
  <2>2. CASE pc' = "free" /\ UNCHANGED <<result, fault>>
    BY <1>1, <2>1, <2>2, GoOnKeeps
  <2>3. CASE Faults("no_http_headers")
    BY <1>1, <2>1, <2>3, EndFaults
  <2> QED
    BY <1>3, <2>2, <2>3 DEF HeadersEnd
<1> QED
  BY <1>2, <1>3

LEMMA FreeKeeps ==
  ASSUME HandlerInv, FreeHttpRequest
  PROVE  HandlerInv'
<1>1. pc = "free" /\ fault = "none" /\ UNCHANGED <<message, parsed>>
  BY DEF FreeHttpRequest, At
<1>2. http_host \in 1..Len(validated_headers)
  BY <1>1, HandlerNumbers DEF HandlerInv, ParsedInv
<1>3. validated_headers[1] \in Blocks
  BY <1>2, HandlerNumbers
<1>4. CASE validated_headers[1] = "null" /\ Fails /\ UNCHANGED fault
  BY <1>1, <1>4, StopKeeps
<1>5. CASE Faults("double_free") \/ Faults("invalid_free")
  <2>1. line_increment = Len(lines) /\ http_host > 0
    BY <1>1 DEF HandlerInv, ParsedInv
  <2> QED
    BY <1>1, <1>5, <2>1, EndFaults
<1> QED
  BY <1>3, <1>4, <1>5 DEF FreeHttpRequest, Blocks

LEMMA HandlerStepKeeps == HandlerInv /\ [Next]_vars => HandlerInv'
<1> SUFFICES ASSUME HandlerInv, [Next]_vars PROVE HandlerInv'
  OBVIOUS
<1>1. CASE AllocateHttpRequest
  BY <1>1, AllocateKeeps
<1>2. CASE ValidateHttpMetadata
  BY <1>2, ValidateMetadataKeeps
<1>3. CASE HeaderStored \/ HeaderOverruns \/ HeaderFreed \/ HeaderReadFreed \/ HeaderNull
  BY <1>3, HeaderKeeps
<1>4. CASE HeaderBroken
  BY <1>4, HeaderBrokenKeeps
<1>5. CASE HeadersEnd
  BY <1>5, HeadersEndKeeps
<1>6. CASE FreeHttpRequest
  BY <1>6, FreeKeeps
<1>7. CASE UNCHANGED vars
  BY <1>7 DEF vars, message, parsed, HandlerInv, MessageOK, TypeOK, ParsedInv, LastHostWins,
     FaultsAreThese
<1> QED
  BY <1>1, <1>2, <1>3, <1>4, <1>5, <1>6, <1>7 DEF Next

(* The invariant implies what a routed request was validated for.          *)
LEMMA InvariantValidates == HandlerInv => RoutedIsValidated
<1> SUFFICES ASSUME HandlerInv, pc = "free" PROVE RoutedIsValidated
  BY DEF RoutedIsValidated
<1>1. Len(validated_headers) = Len(lines) /\ validated_headers[http_host] = "block"
  BY DEF HandlerInv, ParsedInv
<1> QED
  BY <1>1, HandlerNumbers DEF RoutedIsValidated, HandlerInv, ParsedInv, TypeOK
-----------------------------------------------------------------------------
(* Any message and any failing allocation keep the parser's invariant.     *)
THEOREM Invariance == Spec => []HandlerInv
<1>1. Init => HandlerInv
  BY CalledEstablishes DEF Init, MessageOK
<1> QED
  BY <1>1, HandlerStepKeeps, PTL DEF Spec

(* Whatever arrives, only what was validated in full gets past the parser: *)
(* first line, number of headers, the lines themselves and a kept Host     *)
(* (http_handler.c:290-410).                                               *)
THEOREM OnlyValidatedIsRouted == Spec => []RoutedIsValidated
<1> QED
  BY Invariance, InvariantValidates, PTL

(* While http_host is set, no later well-formed Host was kept: in every    *)
(* order of good, malformed and failing headers, and whichever copy finds  *)
(* no memory (http_handler.c:361-374).                                     *)
THEOREM LastHostIsKept == Spec => []LastHostWins
<1>1. HandlerInv => LastHostWins
  BY DEF HandlerInv
<1> QED
  BY <1>1, Invariance, PTL

(* For every message and every size of validated_headers, the parser       *)
(* leaves defined behaviour only where FaultsAreThese says.                *)
THEOREM FaultsHaveTheirRequests == Spec => []FaultsAreThese
<1>1. HandlerInv => FaultsAreThese
  BY DEF HandlerInv
<1> QED
  BY <1>1, Invariance, PTL

-----------------------------------------------------------------------------
(* The worker, from what is proved about its handler and its reader        *)

ReaderProofs == INSTANCE RequestReader_proofs
                  WITH pc <- reading_pc, fault <- reading_fault

(* How the worker's parts fit: the handler runs while the reader is about  *)
(* to respond, is fresh until then, and the descriptor is closed last.     *)
CallInv ==
  /\ response \in BOOLEAN /\ descriptor \in {"open", "closed"}
  /\ response => reading_pc = "respond"
  /\ ~response /\ reading_pc # "done" => Called
  /\ fault # "none" => response
  /\ descriptor = "closed" => reading_pc = "done"

(* The inductive invariant.                                                *)
WorkerInv == ReaderProofs!IInv /\ HandlerInv /\ CallInv

-----------------------------------------------------------------------------
LEMMA ReaderHolds == ReaderProofs!ReaderAssumption
BY WorkerAssumption DEF Reader!ReaderAssumption, ReaderProofs!ReaderAssumption

(* The reader in Worker is the one of RequestReader_proofs.                *)
LEMMA SameReader ==
  /\ Reader!Start <=> ReaderProofs!Start
  /\ Reader!ReceiveHeaders <=> ReaderProofs!ReceiveHeaders
  /\ Reader!HeadersFail <=> ReaderProofs!HeadersFail
  /\ Reader!ParseLength <=> ReaderProofs!ParseLength
  /\ Reader!ReceiveContents <=> ReaderProofs!ReceiveContents
  /\ Reader!ContentsFail <=> ReaderProofs!ContentsFail
  /\ Reader!ContentsEnd <=> ReaderProofs!ContentsEnd
  /\ Reader!Respond <=> ReaderProofs!Respond
  /\ Reader!Arrive <=> ReaderProofs!Arrive
  /\ Reader!Leave <=> ReaderProofs!Leave
<1>1. Reader!Start <=> ReaderProofs!Start
  BY DEF Reader!Start, ReaderProofs!Start, Reader!client, ReaderProofs!client,
     Reader!counts, ReaderProofs!counts
<1>2. Reader!ReceiveHeaders <=> ReaderProofs!ReceiveHeaders
  BY DEF Reader!ReceiveHeaders, ReaderProofs!ReceiveHeaders, Reader!TakeHeaders,
     ReaderProofs!TakeHeaders, Reader!Received, ReaderProofs!Received, Reader!Copied,
     ReaderProofs!Copied, Reader!Reject, ReaderProofs!Reject, Reader!Offsets,
     ReaderProofs!Offsets, Reader!ReadingHeaders, ReaderProofs!ReadingHeaders,
     Reader!EndFound, ReaderProofs!EndFound, Reader!client, ReaderProofs!client
<1>3. Reader!HeadersFail <=> ReaderProofs!HeadersFail
  BY DEF Reader!HeadersFail, ReaderProofs!HeadersFail, Reader!ReadingHeaders,
     ReaderProofs!ReadingHeaders, Reader!EndFound, ReaderProofs!EndFound,
     Reader!ReceivedNothing, ReaderProofs!ReceivedNothing, Reader!ReceiveFails,
     ReaderProofs!ReceiveFails, Reader!Reject, ReaderProofs!Reject, Reader!client,
     ReaderProofs!client, Reader!counts, ReaderProofs!counts
<1>4. Reader!ParseLength <=> ReaderProofs!ParseLength
  BY DEF Reader!ParseLength, ReaderProofs!ParseLength, Reader!EndFound,
     ReaderProofs!EndFound, Reader!Declared, ReaderProofs!Declared, Reader!Reject,
     ReaderProofs!Reject, Reader!client, ReaderProofs!client, Reader!counts,
     ReaderProofs!counts
<1>5. Reader!ReceiveContents <=> ReaderProofs!ReceiveContents
  BY DEF Reader!ReceiveContents, ReaderProofs!ReceiveContents, Reader!ReadingContents,
     ReaderProofs!ReadingContents, Reader!Declared, ReaderProofs!Declared,
     Reader!Received, ReaderProofs!Received, Reader!Copied, ReaderProofs!Copied,
     Reader!Offsets, ReaderProofs!Offsets, Reader!client, ReaderProofs!client
<1>6. Reader!ContentsFail <=> ReaderProofs!ContentsFail
  BY DEF Reader!ContentsFail, ReaderProofs!ContentsFail, Reader!ReadingContents,
     ReaderProofs!ReadingContents, Reader!Declared, ReaderProofs!Declared,
     Reader!ReceiveFails, ReaderProofs!ReceiveFails, Reader!Reject, ReaderProofs!Reject,
     Reader!client, ReaderProofs!client, Reader!counts, ReaderProofs!counts
<1>7. Reader!ContentsEnd <=> ReaderProofs!ContentsEnd
  BY DEF Reader!ContentsEnd, ReaderProofs!ContentsEnd, Reader!Declared,
     ReaderProofs!Declared, Reader!ReceivedNothing, ReaderProofs!ReceivedNothing,
     Reader!client, ReaderProofs!client, Reader!counts, ReaderProofs!counts
<1>8. Reader!Respond <=> ReaderProofs!Respond
  BY DEF Reader!Respond, ReaderProofs!Respond, Reader!client, ReaderProofs!client,
     Reader!counts, ReaderProofs!counts
<1>9. Reader!Arrive <=> ReaderProofs!Arrive
  BY DEF Reader!Arrive, ReaderProofs!Arrive, Reader!counts, ReaderProofs!counts
<1>10. Reader!Leave <=> ReaderProofs!Leave
  BY DEF Reader!Leave, ReaderProofs!Leave, Reader!counts, ReaderProofs!counts
<1> QED
  BY <1>1, <1>2, <1>3, <1>4, <1>5, <1>6, <1>7, <1>8, <1>9, <1>10

LEMMA SameVariables ==
  /\ UNCHANGED reading => UNCHANGED ReaderProofs!vars
  /\ UNCHANGED ReaderProofs!vars <=> UNCHANGED Reader!vars
BY DEF reading, Reader!vars, Reader!client, Reader!counts,
   ReaderProofs!vars, ReaderProofs!client, ReaderProofs!counts

(* What the reader does, a step of its own or nothing, keeps its invariant. *)
LEMMA ReaderStepKeeps ==
  ASSUME ReaderProofs!IInv,
         \/ UNCHANGED reading \/ Reader!Arrive \/ Reader!Leave
         \/ Reader!Start \/ Reader!ReceiveHeaders \/ Reader!HeadersFail
         \/ Reader!ParseLength \/ Reader!ReceiveContents \/ Reader!ContentsFail
         \/ Reader!ContentsEnd \/ Reader!Respond
  PROVE  ReaderProofs!IInv'
<1>1. [ReaderProofs!Next]_(ReaderProofs!vars)
  BY SameReader, SameVariables DEF ReaderProofs!Next, ReaderProofs!Worker
<1> QED
  BY <1>1, ReaderProofs!StepKeeps, ReaderHolds
-----------------------------------------------------------------------------
LEMMA WorkerInitEstablishes == WorkerInit => WorkerInv
<1> SUFFICES ASSUME WorkerInit PROVE WorkerInv
  OBVIOUS
<1>1. ReaderProofs!IInv
  <2>1. ReaderProofs!Init
    BY DEF WorkerInit, Reader!Init, ReaderProofs!Init, Reader!Offsets, ReaderProofs!Offsets
  <2> QED
    BY <2>1, ReaderProofs!InitEstablishes, ReaderHolds
<1>2. HandlerInv
  <2>1. lines \in [1..0 -> HeaderLines] /\ 0 \in 0..MaxLines
    BY HttpAssumption DEF WorkerInit
  <2>2. lines \in Sections
    BY <2>1 DEF Sections
  <2>3. MessageOK
    BY <2>2 DEF WorkerInit, MessageOK, RequestLines
  <2> QED
    BY <2>3, CalledEstablishes DEF WorkerInit
<1>3. CallInv
  BY DEF WorkerInit, CallInv, Reader!Init, Called
<1> QED
  BY <1>1, <1>2, <1>3 DEF WorkerInv

LEMMA SameHandler ==
  /\ UNCHANGED vars /\ HandlerInv => HandlerInv'
  /\ UNCHANGED vars /\ Called => Called'
<1>1. UNCHANGED vars /\ HandlerInv => HandlerInv'
  BY HandlerStepKeeps
<1>2. UNCHANGED vars /\ Called => Called'
  BY DEF Called, vars, parsed
<1> QED
  BY <1>1, <1>2

LEMMA ClientKeeps ==
  ASSUME WorkerInv, Client
  PROVE  WorkerInv'
<1>1. ReaderProofs!IInv' /\ HandlerInv'
  BY ReaderStepKeeps, SameHandler DEF Client, WorkerInv
<1>2. UNCHANGED <<reading_pc, response, descriptor, fault>>
  BY DEF Client, Reader!Arrive, Reader!Leave, vars
<1>3. CallInv'
  BY <1>2, SameHandler DEF Client, WorkerInv, CallInv
<1> QED
  BY <1>1, <1>3 DEF WorkerInv

(* While the request is read there is no response yet.                     *)
LEMMA ReadKeeps ==
  ASSUME WorkerInv, Read
  PROVE  WorkerInv'
<1>1. ReaderProofs!IInv' /\ HandlerInv'
  BY ReaderStepKeeps, SameHandler DEF Read, WorkerInv
<1>2. reading_pc \in {"start", "headers", "contents"} /\ UNCHANGED <<response, descriptor, fault>>
  BY DEF Read, vars, Reader!Start, Reader!ReceiveHeaders, Reader!HeadersFail,
     Reader!ReadingHeaders, Reader!ParseLength, Reader!ReceiveContents, Reader!ContentsFail,
     Reader!ReadingContents, Reader!ContentsEnd
<1>3. CallInv'
  BY <1>2, SameHandler DEF Read, WorkerInv, CallInv
<1> QED
  BY <1>1, <1>3 DEF WorkerInv

LEMMA NoResponseKeeps ==
  ASSUME WorkerInv, NoResponse
  PROVE  WorkerInv'
<1>1. ReaderProofs!IInv' /\ HandlerInv'
  BY ReaderStepKeeps, SameHandler DEF NoResponse, WorkerInv
<1>2. /\ reading_pc = "respond" /\ reading_pc' = "done" /\ ~response
      /\ UNCHANGED <<response, descriptor, fault>>
  BY DEF NoResponse, Reader!Respond, vars
<1>3. CallInv'
  BY <1>2 DEF WorkerInv, CallInv
<1> QED
  BY <1>1, <1>3 DEF WorkerInv

LEMMA CallHandlerKeeps ==
  ASSUME WorkerInv, CallHandler
  PROVE  WorkerInv'
<1>1. ReaderProofs!IInv'
  BY ReaderStepKeeps DEF CallHandler, WorkerInv
<1>2. Called
  BY DEF CallHandler, WorkerInv, CallInv
<1>3. Called' /\ MessageOK'
  BY <1>2 DEF Called, MessageOK, CallHandler, parsed
<1>4. HandlerInv'
  <2>1. (Called /\ MessageOK => HandlerInv)'
    BY CalledEstablishes, PTL
  <2> QED
    BY <1>3, <2>1
<1>5. CallInv'
  BY <1>3 DEF CallHandler, WorkerInv, CallInv, reading, Called
<1> QED
  BY <1>1, <1>4, <1>5 DEF WorkerInv

LEMMA HandleKeeps ==
  ASSUME WorkerInv, Handle
  PROVE  WorkerInv'
<1>1. ReaderProofs!IInv' /\ HandlerInv'
  BY ReaderStepKeeps, HandlerStepKeeps DEF Handle, WorkerInv
<1>2. CallInv'
  BY DEF Handle, WorkerInv, CallInv, reading
<1> QED
  BY <1>1, <1>2 DEF WorkerInv

LEMMA HandlerReturnsKeeps ==
  ASSUME WorkerInv, HandlerReturns
  PROVE  WorkerInv'
<1>1. ReaderProofs!IInv' /\ HandlerInv'
  BY ReaderStepKeeps, SameHandler DEF HandlerReturns, WorkerInv
<1>2. /\ pc = "done" /\ reading_pc = "respond" /\ reading_pc' = "done"
      /\ response' = FALSE /\ UNCHANGED <<descriptor, fault>>
  BY DEF HandlerReturns, Reader!Respond, vars
<1>3. CallInv'
  BY <1>2 DEF WorkerInv, HandlerInv, ParsedInv, CallInv
<1> QED
  BY <1>1, <1>3 DEF WorkerInv

LEMMA CloseKeeps ==
  ASSUME WorkerInv, CloseDescriptor
  PROVE  WorkerInv'
<1>1. ReaderProofs!IInv' /\ HandlerInv'
  BY ReaderStepKeeps, SameHandler DEF CloseDescriptor, WorkerInv
<1>2. CallInv'
  BY DEF CloseDescriptor, WorkerInv, CallInv, reading, vars
<1> QED
  BY <1>1, <1>2 DEF WorkerInv

LEMMA WorkerStepKeeps == WorkerInv /\ [WorkerNext]_worker_vars => WorkerInv'
<1> SUFFICES ASSUME WorkerInv, [WorkerNext]_worker_vars PROVE WorkerInv'
  OBVIOUS
<1>1. CASE UNCHANGED worker_vars
  <2>1. ReaderProofs!IInv' /\ HandlerInv'
    BY <1>1, ReaderStepKeeps, SameHandler DEF worker_vars, WorkerInv
  <2>2. CallInv'
    BY <1>1, SameHandler DEF worker_vars, WorkerInv, CallInv, reading, vars
  <2> QED
    BY <2>1, <2>2 DEF WorkerInv
<1>2. CASE Client \/ Read \/ NoResponse
  BY <1>2, ClientKeeps, ReadKeeps, NoResponseKeeps
<1>3. CASE CallHandler \/ Handle \/ HandlerReturns \/ CloseDescriptor
  BY <1>3, CallHandlerKeeps, HandleKeeps, HandlerReturnsKeeps, CloseKeeps
<1> QED
  BY <1>1, <1>2, <1>3 DEF WorkerNext, Run

(* Whatever the client does between the worker's steps, the reader and the *)
(* handler keep their invariants and meet only where CallInv says.         *)
THEOREM WorkerInvariance == WorkerSpec => []WorkerInv
<1> QED
  BY WorkerInitEstablishes, WorkerStepKeeps, PTL DEF WorkerSpec
-----------------------------------------------------------------------------
(* What the handler may rely on while it runs.                             *)
LEMMA BufferIsThere == WorkerInv => BufferOutlivesParser
<1> SUFFICES ASSUME WorkerInv PROVE BufferOutlivesParser
  OBVIOUS
<1>1. ASSUME response
      PROVE  /\ "buffer" \in heap
             /\ request.header \in 1..total_bytes_read
             /\ \A i \in 0..(request.header - 1) : buffer[i] = i + 1
  <2>1. reading_pc = "respond"
    BY <1>1 DEF WorkerInv, CallInv
  <2>2. /\ heap = {"buffer"} /\ outcome = "pending" /\ ~reading_fault
        /\ request.header > 0 /\ total_bytes_read >= request.header
    BY <2>1 DEF WorkerInv, ReaderProofs!IInv, ReaderProofs!PlaceInv, ReaderProofs!ParserSeesHeaders
  <2>3. ReaderProofs!TypeOK
    BY DEF WorkerInv, ReaderProofs!IInv
  <2>4. /\ request.header \in Nat /\ total_bytes_read \in 0..HeaderLimit
        /\ body_bytes_read \in Nat /\ HeaderLimit <= BufferSize
        /\ HeaderLimit \in Nat /\ BufferSize \in Nat
    <3>1. request.header \in 0..request.length /\ request.length \in Nat
      BY <2>3, ReaderProofs!RequestNumbers, ReaderHolds
    <3>2. total_bytes_read \in 0..HeaderLimit /\ body_bytes_read \in 0..BufferSize
      BY <2>3 DEF ReaderProofs!TypeOK
    <3> QED
      BY <3>1, <3>2, ReaderHolds DEF ReaderProofs!ReaderAssumption
  <2>5. /\ consumed = total_bytes_read + body_bytes_read
        /\ \A i \in 0..(BufferSize - 1) : buffer[i] = IF i < consumed THEN i + 1 ELSE 0
    BY <2>2 DEF WorkerInv, ReaderProofs!IInv, ReaderProofs!BufferIsPrefix, ReaderProofs!Offsets
  <2>6. ASSUME NEW i \in 0..(request.header - 1) PROVE buffer[i] = i + 1
    <3>1. i \in 0..(BufferSize - 1) /\ i < consumed
      BY <2>2, <2>4, <2>5
    <3> QED
      BY <2>5, <3>1
  <2> QED
    BY <2>2, <2>4, <2>6
<1>2. ASSUME descriptor = "closed" PROVE heap = {} \/ outcome = "no_memory"
  BY <1>2 DEF WorkerInv, CallInv, ReaderProofs!IInv, ReaderProofs!PlaceInv
<1> QED
  BY <1>1, <1>2 DEF BufferOutlivesParser

(* For as long as process_http_request runs its buffer is allocated and    *)
(* holds the whole header section, and only the return for want of a       *)
(* response leaves a block behind (thread_handler.c:168-222).              *)
THEOREM BufferStaysForParser == WorkerSpec => []BufferOutlivesParser
<1> QED
  BY WorkerInvariance, BufferIsThere, PTL

(* What HttpHandler promises of one message holds of every request a       *)
(* worker reads, whatever its client does meanwhile.                       *)
THEOREM WorkerRoutesValidated == WorkerSpec => [](RoutedIsValidated /\ LastHostWins /\ FaultsAreThese)
<1>1. WorkerInv => RoutedIsValidated /\ LastHostWins /\ FaultsAreThese
  BY InvariantValidates DEF WorkerInv, HandlerInv
<1> QED
  BY <1>1, WorkerInvariance, PTL

-----------------------------------------------------------------------------
(* While nothing is closed and nothing has gone astray, what stands where. *)
LEMMA PhaseIs ==
  ASSUME WorkerInv
  PROVE  /\ heap \subseteq {"buffer"}
         /\ reading_pc \in {"start", "headers", "contents", "respond", "done"}
         /\ reading_pc = "start" => heap = {}
         /\ reading_pc \in {"headers", "contents", "respond"} => heap = {"buffer"}
         /\ reading_fault \in BOOLEAN /\ (reading_fault => reading_pc = "contents")
         /\ reading_pc # "respond" => ~response /\ fault = "none"
         /\ reading_pc # "done" => descriptor = "open"
         /\ response \in BOOLEAN /\ descriptor \in {"open", "closed"}
         /\ reading_pc = "done" => heap = {} \/ outcome = "no_memory"
BY DEF WorkerInv, CallInv, ReaderProofs!IInv, ReaderProofs!TypeOK, ReaderProofs!PlaceInv

LEMMA ClientIsNoTaskStep ==
  ASSUME WorkerInv, Client
  PROVE  UNCHANGED Task!vars
BY DEF Client, Reader!Arrive, Reader!Leave, Reader!counts, vars, Task!vars, Phase, Allocated

LEMMA ReadIsTaskStep ==
  ASSUME WorkerInv, Read
  PROVE  [Task!Next]_(Task!vars)
<1>1. /\ reading_pc \in {"start", "headers", "contents"} /\ ~reading_fault
      /\ UNCHANGED <<response, descriptor, fault>>
      /\ ~response /\ descriptor = "open" /\ fault = "none"
  <2>1. reading_pc \in {"start", "headers", "contents"} /\ ~reading_fault
    BY PhaseIs DEF Read, Reader!Start, Reader!ReceiveHeaders, Reader!HeadersFail,
       Reader!ReadingHeaders, Reader!ParseLength, Reader!ReceiveContents,
       Reader!ContentsFail, Reader!ReadingContents, Reader!ContentsEnd
  <2> QED
    BY <2>1, PhaseIs DEF Read, vars
<1>2. Phase = "reading" /\ Allocated = heap
  BY <1>1 DEF Phase, Allocated
<1>3. CASE Reader!Start
  <2>1. /\ heap = {} /\ reading_fault' = reading_fault
        /\ \/ heap' = {"buffer"} /\ reading_pc' = "headers"
           \/ reading_pc' = "done" /\ heap' = heap
    BY <1>3, PhaseIs DEF Reader!Start
  <2>2. CASE heap' = {"buffer"} /\ reading_pc' = "headers"
    BY <1>1, <1>2, <2>1, <2>2 DEF Task!Next, Task!Allocate, Phase, Allocated
  <2>3. CASE reading_pc' = "done" /\ heap' = heap
    BY <1>1, <1>2, <2>1, <2>3 DEF Task!Next, Task!GiveUp, Phase, Allocated
  <2> QED
    BY <2>1, <2>2, <2>3
<1>4. CASE /\ reading_pc' # "done" /\ UNCHANGED <<heap, reading_fault>>
  BY <1>1, <1>2, <1>4 DEF Task!vars, Phase, Allocated
<1>5. CASE /\ Reader!Reject /\ UNCHANGED reading_fault
  <2>1. reading_pc' = "done" /\ heap' = {}
    BY <1>5, PhaseIs DEF Reader!Reject
  <2> QED
    BY <1>1, <1>2, <1>5, <2>1 DEF Task!Next, Task!GiveUp, Phase, Allocated
<1>6. CASE reading_fault' = TRUE /\ UNCHANGED heap
  BY <1>1, <1>2, <1>6 DEF Task!Next, Task!Undefined, Phase, Allocated
<1>7. CASE Reader!ReceiveHeaders
  <2>1. \/ Reader!Reject /\ UNCHANGED reading_fault
        \/ UNCHANGED <<heap, reading_pc, reading_fault>>
    BY <1>7 DEF Reader!ReceiveHeaders, Reader!TakeHeaders
  <2> QED
    BY <1>1, <1>4, <1>5, <2>1
<1>8. CASE Reader!HeadersFail \/ Reader!ContentsFail
  BY <1>5, <1>8 DEF Reader!HeadersFail, Reader!ContentsFail
<1>9. CASE Reader!ParseLength
  BY <1>4, <1>5, <1>9 DEF Reader!ParseLength
<1>10. CASE Reader!ReceiveContents
  <2>1. /\ UNCHANGED <<heap, reading_pc>>
        /\ reading_fault' = TRUE \/ UNCHANGED reading_fault
    BY <1>10 DEF Reader!ReceiveContents
  <2> QED
    BY <1>1, <1>4, <1>6, <2>1
<1>11. CASE Reader!ContentsEnd
  BY <1>4, <1>11 DEF Reader!ContentsEnd
<1> QED
  BY <1>3, <1>7, <1>8, <1>9, <1>10, <1>11 DEF Read

LEMMA NoResponseIsTaskStep ==
  ASSUME WorkerInv, NoResponse
  PROVE  [Task!Next]_(Task!vars)
<1>1. /\ reading_pc = "respond" /\ reading_pc' = "done" /\ ~response
      /\ UNCHANGED <<response, descriptor, fault, reading_fault, heap>>
  BY DEF NoResponse, Reader!Respond, vars
<1>2. ~reading_fault /\ descriptor = "open" /\ fault = "none"
  BY <1>1, PhaseIs DEF WorkerInv, CallInv
<1>3. /\ Phase = "reading" /\ Phase' = "returned"
      /\ Allocated' = Allocated
  BY <1>1, <1>2 DEF Phase, Allocated
<1> QED
  BY <1>3 DEF Task!Next, Task!GiveUp

LEMMA CallIsTaskStep ==
  ASSUME WorkerInv, CallHandler
  PROVE  [Task!Next]_(Task!vars)
<1>1. /\ reading_pc = "respond" /\ ~response /\ response' = TRUE
      /\ UNCHANGED <<reading_pc, reading_fault, heap, descriptor, fault>>
  BY DEF CallHandler, reading
<1>2. ~reading_fault /\ descriptor = "open" /\ fault = "none" /\ heap = {"buffer"}
  BY <1>1, PhaseIs DEF WorkerInv, CallInv
<1>3. /\ Phase = "reading" /\ Phase' = "parsing"
      /\ Allocated = {"buffer"} /\ Allocated' = {"buffer", "response"}
  BY <1>1, <1>2 DEF Phase, Allocated
<1> QED
  BY <1>3 DEF Task!Next, Task!Parse

(* What left defined behaviour does not go on.                             *)
LEMMA HandlerHasNoFault == Next => fault = "none"
BY DEF Next, AllocateHttpRequest, ValidateHttpMetadata, HeaderStored, HeaderOverruns,
   HeaderFreed, HeaderReadFreed, HeaderNull, HeaderBroken, HeadersEnd, FreeHttpRequest,
   AtHeader, At

LEMMA HandleIsTaskStep ==
  ASSUME WorkerInv, Handle
  PROVE  [Task!Next]_(Task!vars)
<1>1. /\ response /\ fault = "none"
      /\ UNCHANGED <<response, descriptor, reading_pc, reading_fault, heap>>
  BY HandlerHasNoFault DEF Handle, reading
<1>2. reading_pc = "respond" /\ ~reading_fault /\ descriptor = "open"
  BY <1>1, PhaseIs DEF WorkerInv, CallInv
<1>3. Phase = "parsing" /\ Allocated' = Allocated
  BY <1>1, <1>2 DEF Phase, Allocated
<1>4. CASE fault' = "none"
  <2>1. Phase' = Phase
    BY <1>1, <1>4 DEF Phase
  <2> QED
    BY <1>3, <2>1 DEF Task!vars
<1>5. CASE fault' # "none"
  <2>1. Phase' = "undefined"
    BY <1>5 DEF Phase
  <2> QED
    BY <1>3, <2>1 DEF Task!Next, Task!Undefined
<1> QED
  BY <1>4, <1>5

LEMMA ReturnIsTaskStep ==
  ASSUME WorkerInv, HandlerReturns
  PROVE  [Task!Next]_(Task!vars)
<1>1. /\ response /\ response' = FALSE /\ reading_pc = "respond" /\ reading_pc' = "done"
      /\ pc = "done" /\ outcome' = "processed"
      /\ heap' = heap \ {"buffer"}
      /\ UNCHANGED <<descriptor, fault, reading_fault>>
  BY DEF HandlerReturns, Reader!Respond, vars
<1>2. fault = "none" /\ ~reading_fault /\ descriptor = "open" /\ heap = {"buffer"}
  BY <1>1, PhaseIs DEF WorkerInv, HandlerInv, ParsedInv
<1>3. /\ Phase = "parsing" /\ Phase' = "returned" /\ Allocated' = {}
  BY <1>1, <1>2 DEF Phase, Allocated
<1> QED
  BY <1>3 DEF Task!Next, Task!Return

LEMMA CloseIsTaskStep ==
  ASSUME WorkerInv, CloseDescriptor
  PROVE  [Task!Next]_(Task!vars)
<1>1. /\ reading_pc = "done" /\ descriptor = "open" /\ descriptor' = "closed"
      /\ UNCHANGED <<reading_pc, reading_fault, heap, response, fault>>
  BY DEF CloseDescriptor, reading, vars
<1>2. fault = "none" /\ ~reading_fault
  BY <1>1, PhaseIs
<1>3. Phase = "returned" /\ Phase' = "closed" /\ Allocated' = Allocated
  BY <1>1, <1>2 DEF Phase, Allocated
<1> QED
  BY <1>3 DEF Task!Next, Task!Close

LEMMA WorkerStepIsTaskStep == WorkerInv /\ [WorkerNext]_worker_vars => [Task!Next]_(Task!vars)
<1> SUFFICES ASSUME WorkerInv, [WorkerNext]_worker_vars PROVE [Task!Next]_(Task!vars)
  OBVIOUS
<1>1. CASE UNCHANGED worker_vars
  BY <1>1 DEF worker_vars, reading, vars, Task!vars, Phase, Allocated
<1>2. CASE Client \/ Read \/ NoResponse
  BY <1>2, ClientIsNoTaskStep, ReadIsTaskStep, NoResponseIsTaskStep
<1>3. CASE CallHandler \/ Handle \/ HandlerReturns \/ CloseDescriptor
  BY <1>3, CallIsTaskStep, HandleIsTaskStep, ReturnIsTaskStep, CloseIsTaskStep
<1> QED
  BY <1>1, <1>2, <1>3 DEF WorkerNext, Run

(* Reader, handler and thread_runner, whatever the client does between     *)
(* their steps, do the task as RequestTask says: the buffer is allocated   *)
(* once and before the response, the request is parsed at most once and    *)
(* with both blocks there, the call returns with both freed, or for want   *)
(* of a response with the buffer left, and the descriptor is closed once   *)
(* and last (thread_handler.c:42-81, 173-222).  That it all ends is        *)
(* liveness and stays with the run worker.                                 *)
THEOREM WorkerDoesTask == WorkerSpec => Task!Init /\ [][Task!Next]_(Task!vars)
<1>1. WorkerInit => Task!Init
  BY DEF WorkerInit, Reader!Init, Called, Task!Init, Phase, Allocated
<1> QED
  BY <1>1, WorkerInvariance, WorkerStepIsTaskStep, PTL DEF WorkerSpec
=============================================================================

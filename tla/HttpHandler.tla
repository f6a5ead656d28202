------------------------------ MODULE HttpHandler ------------------------------
(***************************************************************************)
(* process_http_request on one header section: http_handler.c line by      *)
(* line, with the allocation and release of http_types.c.                  *)
(*                                                                         *)
(* Of a line only what the control tells apart is kept.  The section ends  *)
(* with an empty line: RequestReader's ParserSeesHeaders.                  *)
(***************************************************************************)
EXTENDS Integers, Sequences

CONSTANTS
  MaxHeaderCount,     \* MAX_HTTP_HEADER_COUNT
  MaxLines            \* bound: header lines of a message

ASSUME HttpAssumption == MaxHeaderCount \in Nat \ {0} /\ MaxLines \in Nat

(* The first line: what its words are, "none" when the line ends before.   *)
(* Nothing looks at what follows the third.  broken says that the line     *)
(* holds a NUL or a lone carriage return.                                  *)
RequestLines == [method   : {"known", "unknown", "short"},
                 route    : {"path", "other", "none"},
                 protocol : {"http", "other", "none"},
                 broken   : BOOLEAN]

(* A header: its key, and whether it is "key: value", "key:value" or has   *)
(* no colon at all.                                                        *)
HeaderLines == [key : {"Host", "other"}, form : {"good", "no_space", "no_colon"}, broken : BOOLEAN]

Sections == UNION {[1..n -> HeaderLines] : n \in 0..MaxLines}

VARIABLES
  request_line, lines,   \* the message
  pc,
  line_increment,        \* header lines behind the parser
  validated_headers,     \* per line: "block", "freed" or "null"
  http_host,             \* the line http_host was copied from, 0 for NULL
  result,                \* of process_http_request
  fault

message == <<request_line, lines>>
parsed  == <<line_increment, validated_headers, http_host>>
vars    == <<message, pc, parsed, result, fault>>

(* The handler before it has read anything.                                *)
Called == /\ pc = "allocate"
          /\ line_increment = 0 /\ validated_headers = <<>> /\ http_host = 0
          /\ result = "pending"
          /\ fault = "none"

Init == request_line \in RequestLines /\ lines \in Sections /\ Called

At(p) == pc = p /\ fault = "none"

(* return false from process_http_request.                                 *)
Fails == pc' = "done" /\ result' = "false"

Faults(f) == fault' = f /\ UNCHANGED <<pc, result>>

-----------------------------------------------------------------------------
(* allocate_http_request: the instance, its header array and its route.    *)
AllocateHttpRequest ==
  /\ At("allocate")
  /\ Fails \/ (pc' = "metadata" /\ UNCHANGED result)
  /\ UNCHANGED <<message, parsed, fault>>

(* The words of the first line that decide, in order.                      *)
FirstLineRefused == \/ request_line.broken \/ request_line.method = "short"
                    \/ request_line.route # "path" \/ request_line.protocol # "http"

(* Mutant: the first line counts as valid once its method and route are.   *)
MetadataUntilRoute ==
  /\ At("metadata")
  /\ IF request_line.broken \/ request_line.method # "known" \/ request_line.route # "path"
       THEN Fails ELSE pc' = "headers" /\ UNCHANGED result
  /\ UNCHANGED <<message, parsed, fault>>

(* _validate_http_metadata.  An unknown method is compared with the NULL   *)
(* name that ends method_entries.  line_partition starts uninitialised: a  *)
(* known method may have garbage behind it and then be unknown.            *)
ValidateHttpMetadata ==
  /\ At("metadata")
  /\ \/ /\ ~request_line.broken /\ request_line.method # "short"
        /\ Faults("null_name")
     \/ /\ request_line.broken \/ request_line.method # "unknown"
        /\ IF FirstLineRefused THEN Fails ELSE pc' = "headers" /\ UNCHANGED result
        /\ UNCHANGED fault
  /\ UNCHANGED <<message, parsed>>

-----------------------------------------------------------------------------
(* One header line: calloc and _validate_http_header.                      *)
Line  == lines[line_increment + 1]
AtHeader == At("headers") /\ line_increment < Len(lines) /\ ~Line.broken

(* Mutant: the last place of validated_headers is kept free.               *)
StoreOneShort(h) == /\ line_increment' = line_increment + 1
                    /\ IF Len(validated_headers) + 1 < MaxHeaderCount
                         THEN /\ validated_headers' = Append(validated_headers, h)
                              /\ UNCHANGED <<pc, result, fault>>
                         ELSE Faults("header_array") /\ UNCHANGED validated_headers

(* validated_headers[validated_cursor++] = raw_header                      *)
Store(h) == /\ line_increment' = line_increment + 1
            /\ IF Len(validated_headers) < MaxHeaderCount
                 THEN /\ validated_headers' = Append(validated_headers, h)
                      /\ UNCHANGED <<pc, result, fault>>
                 ELSE Faults("header_array") /\ UNCHANGED validated_headers

(* Mutant: a second Host does not replace the first.                       *)
CopyFirstHost ==
  IF Line.key = "Host" /\ Line.form = "good" /\ http_host = 0
    THEN http_host' \in {line_increment + 1, 0} ELSE UNCHANGED http_host

(* Of a Host strndup copies the value, over what the one before left.      *)
(* Nobody asks whether it found the memory, and NULL is no host.           *)
CopyHost ==
  IF Line.key = "Host" /\ Line.form = "good"
    THEN http_host' \in {line_increment + 1, 0} ELSE UNCHANGED http_host

(* The header is valid.  One without a colon is taken for a key, whose     *)
(* terminating NUL lands one byte behind key_cache.                        *)
HeaderStored ==
  /\ AtHeader /\ Line.form # "no_space"
  /\ CopyHost
  /\ Store("block")
  /\ UNCHANGED message

HeaderOverruns ==
  /\ AtHeader /\ Line.form = "no_colon"
  /\ Faults("key_cache")
  /\ UNCHANGED <<message, parsed>>

(* The header is malformed, or its copies found no memory: it is freed and *)
(* its address stored all the same.                                        *)
HeaderFreed ==
  /\ AtHeader
  /\ Store("freed")
  /\ UNCHANGED <<message, http_host>>

(* After Host was seen, valid is read from the freed block: not zero any   *)
(* more, and what it says of the value is garbage.                         *)
HeaderReadFreed ==
  /\ AtHeader /\ Line.key = "Host" /\ Line.form # "no_colon"
  /\ Faults("freed_header")
  /\ UNCHANGED <<message, parsed>>

(* calloc of the header failed.                                            *)
HeaderNull ==
  /\ AtHeader
  /\ Store("null")
  /\ UNCHANGED <<message, http_host>>

HeaderBroken ==
  /\ At("headers") /\ line_increment < Len(lines) /\ Line.broken
  /\ Fails
  /\ UNCHANGED <<message, parsed, fault>>

(* The empty line.  The new http_headers is filled without asking whether  *)
(* malloc returned it.  _route_http_request does nothing yet.              *)
HeadersEnd ==
  /\ At("headers") /\ line_increment = Len(lines)
  /\ IF http_host = 0 THEN Fails /\ UNCHANGED fault
     ELSE \/ pc' = "free" /\ UNCHANGED <<result, fault>>
          \/ Faults("no_http_headers")
  /\ UNCHANGED <<message, parsed>>

-----------------------------------------------------------------------------
(* free_http_request.  header_cursor walks through the memory behind the   *)
(* first header, not through http_headers; every pointer tested after its  *)
(* free is still set, so the function can only return false.               *)
FreeHttpRequest ==
  /\ At("free")
  /\ CASE validated_headers[1] = "null"  -> Fails /\ UNCHANGED fault
       [] validated_headers[1] = "freed" -> Faults("double_free")
       [] validated_headers[1] = "block" -> Faults("invalid_free")
  /\ UNCHANGED <<message, parsed>>

Next == \/ AllocateHttpRequest \/ ValidateHttpMetadata
        \/ HeaderStored \/ HeaderOverruns \/ HeaderFreed \/ HeaderReadFreed \/ HeaderNull
        \/ HeaderBroken \/ HeadersEnd \/ FreeHttpRequest

Spec == Init /\ [][Next]_vars
-----------------------------------------------------------------------------
TypeOK ==
  /\ pc \in {"allocate", "metadata", "headers", "free", "done"}
  /\ line_increment \in 0..Len(lines)
  /\ validated_headers \in Seq({"block", "freed", "null"})
  /\ Len(validated_headers) <= MaxHeaderCount
  /\ http_host \in 0..Len(lines)
  /\ result \in {"pending", "true", "false"}
  /\ fault \in {"none", "null_name", "key_cache", "freed_header", "header_array",
                "no_http_headers", "double_free", "invalid_free"}

(* What is routed was validated: a known method, a path, HTTP, no broken   *)
(* line, no more headers than validated_headers has places, and at least   *)
(* one well-formed Host that was really kept.                              *)
RoutedIsValidated ==
  pc = "free" =>
    /\ request_line = [method |-> "known", route |-> "path", protocol |-> "http",
                       broken |-> FALSE]
    /\ Len(validated_headers) = Len(lines) /\ Len(lines) <= MaxHeaderCount
    /\ \A i \in 1..Len(lines) : ~lines[i].broken
    /\ http_host > 0 /\ lines[http_host].key = "Host" /\ lines[http_host].form = "good"
    /\ validated_headers[http_host] = "block"

(* http_host never outlives a later Host: while it is set, no well-formed  *)
(* Host whose block was kept stands behind the one it was copied from, in  *)
(* whatever order good, malformed and failing headers come.  When the copy *)
(* of the last Host finds no memory, no earlier Host takes its place.      *)
LastHostWins ==
  http_host > 0 =>
    \A i \in (http_host + 1)..Len(validated_headers) :
      validated_headers[i] = "block" => lines[i].key # "Host" \/ lines[i].form # "good"

(* The requests on which the parser leaves defined behaviour                *)
(* (http_handler.c:87, 242, 370, 373, 406, http_types.c:68): one with an   *)
(* unknown method, or whose method has garbage behind it, in a first line  *)
(* that is not broken; all others have passed the whole first line.  Each  *)
(* place of validated_headers can be used.  And a request without a Host   *)
(* reads no freed header and is not released by free_http_request.         *)
FaultsAreThese ==
  /\ fault = "null_name" => ~request_line.broken /\ request_line.method # "short"
  /\ fault \notin {"none", "null_name"} =>
       request_line = [method |-> "known", route |-> "path", protocol |-> "http",
                       broken |-> FALSE]
  /\ fault = "header_array" => Len(lines) > MaxHeaderCount
  /\ fault = "key_cache" => \E i \in 1..Len(lines) : lines[i].form = "no_colon"
  /\ fault = "freed_header" => \E i \in 1..Len(lines) : lines[i].key = "Host"
  /\ fault \in {"no_http_headers", "double_free", "invalid_free"} =>
       /\ Len(lines) <= MaxHeaderCount /\ \A i \in 1..Len(lines) : ~lines[i].broken
       /\ \E i \in 1..Len(lines) : lines[i].key = "Host" /\ lines[i].form = "good"

(* http_types.c:24, "the included free function in this unit covers any    *)
(* allocation": what the request holds is released, and nothing else is.   *)
FreeIsClean == fault # "invalid_free"
=============================================================================

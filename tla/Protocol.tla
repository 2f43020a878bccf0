------------------------------ MODULE Protocol ------------------------------
(***************************************************************************)
(* The commands of both protocols as far as the framing of a response and  *)
(* its meaning go (src/proto/txt.cc, src/proto/binary.cc), and what the    *)
(* methods of client.h make of a response code.                            *)
(*                                                                         *)
(* A response is a sequence of units: lines of the text protocol, heads of *)
(* the binary one, and the fields of a body.  Sizes count units: flags, a  *)
(* number and a message are one each, a value has any length, and what     *)
(* follows a value in the text protocol is two lines, "\r\n" and "END".    *)
(***************************************************************************)
EXTENDS Integers, Sequences

Protocols == {"txt", "bin"}

Retrieve == {"get", "gets"}
Storage  == {"set", "add", "replace", "append", "prepend", "cas"}
Numeric  == {"incr", "decr"}
Commands == Retrieve \cup Storage \cup Numeric \cup {"touch", "del", "flush_all"}

(* resp::response_code_t                                                   *)
Value ==
    [ok |-> 200, stored |-> 201, deleted |-> 202, touched |-> 203,
     not_stored |-> 400, exists |-> 401, not_found |-> 404,
     error |-> 500, client_error |-> 501, server_error |-> 502,
     empty |-> 503, syntax |-> 505, invalid |-> 506, unrecognized |-> 1000]

Line(word, bytes) == [kind |-> "line", word |-> word, bytes |-> bytes]
HeadOf(status, extras, body) ==
    [kind |-> "head", magic |-> TRUE, status |-> status,
     extras |-> extras, body |-> body]
Field(name) == [kind |-> "field", name |-> name]
Datum(n) == [i \in 1 .. n |-> Field("datum")]

FlagsSize  == 1
NumberSize == 1
Footer     == <<Line("\r\n", 0), Line("END", 0)>>
FooterSize == Len(Footer)
NotANumber == -1

-----------------------------------------------------------------------------
(* What the client makes of a header: a code and the size of the body.     *)

Parsed(code, bytes) == [code |-> code, bytes |-> bytes]

(* The words particular commands know, and those all of them do.           *)
TxtWords(cmd) ==
    CASE cmd \in Retrieve -> [END |-> "not_found"]
      [] cmd \in Storage -> [EXISTS |-> "exists", NOT_FOUND |-> "not_found",
                             NOT_STORED |-> "not_stored", STORED |-> "stored"]
      [] cmd \in Numeric \cup {"touch"} ->
            [TOUCHED |-> "touched", NOT_FOUND |-> "not_found", NUMBER |-> "ok"]
      [] cmd = "del" -> [DELETED |-> "deleted", NOT_FOUND |-> "not_found"]
      [] cmd = "flush_all" -> [OK |-> "ok"]

TxtGeneral == [ERROR |-> "error", CLIENT_ERROR |-> "client_error",
               SERVER_ERROR |-> "server_error"]

(* Fault: the lines after a value are not counted in.                      *)
TxtValueAlone(header) ==
    IF header.bytes = NotANumber THEN Parsed("syntax", 0)
    ELSE Parsed("ok", header.bytes)

TxtValue(header) ==
    IF header.bytes = NotANumber THEN Parsed("syntax", 0)
    ELSE Parsed("ok", header.bytes + FooterSize)

(* What a command does not know is left to command_t.                      *)
TxtCode(cmd, word) ==
    IF word = "" THEN "empty"
    ELSE IF word \in DOMAIN TxtWords(cmd) THEN TxtWords(cmd)[word]
    ELSE IF word \in DOMAIN TxtGeneral THEN TxtGeneral[word]
    ELSE "unrecognized"

TxtHeader(cmd, header) ==
    IF header.kind # "line" THEN Parsed("unrecognized", 0)
    ELSE IF cmd \in Retrieve /\ header.word = "VALUE" THEN TxtValue(header)
    ELSE Parsed(TxtCode(cmd, header.word), 0)

(* code_mapping: a status it does not know is an error.                    *)
Translate(status) ==
    CASE status = "not_found" -> "not_found"
      [] status = "exists" -> "exists"
      [] status = "not_stored" -> "not_stored"
      [] status \in {"value_too_large", "out_of_memory"} -> "server_error"
      [] status \in {"invalid_arguments", "non_numeric_value"} -> "client_error"
      [] OTHER -> "error"

BinSuccess(cmd, header) ==
    CASE cmd \in Retrieve ->
            IF header.extras = FlagsSize THEN Parsed("ok", header.body)
            ELSE Parsed("invalid", 0)
      [] cmd \in Storage -> Parsed("stored", 0)
      [] cmd \in Numeric ->
            IF header.body = NumberSize THEN Parsed("ok", header.body)
            ELSE Parsed("invalid", 0)
      [] cmd = "touch" -> Parsed("touched", header.body)
      [] cmd = "del" -> Parsed("deleted", 0)
      [] cmd = "flush_all" -> Parsed("ok", 0)

BinHeader(cmd, header) ==
    IF header.kind = "empty" THEN Parsed("empty", 0)
    ELSE IF header.kind # "head" \/ ~header.magic THEN Parsed("unrecognized", 0)
    ELSE IF header.status # "ok" THEN Parsed(Translate(header.status), header.body)
    ELSE BinSuccess(cmd, header)

DeserializeHeader(proto, cmd, header) ==
    IF proto = "txt" THEN TxtHeader(cmd, header) ELSE BinHeader(cmd, header)

(* The connection is used again after such a response.                     *)
Understood(code) == Value[code] < Value["error"]

-----------------------------------------------------------------------------
(* What a method of the client returns for a code, an exception included.  *)

YesCodes(cmd) ==
    CASE cmd \in Storage -> {"ok", "stored"}
      [] cmd \in Retrieve \cup Numeric \cup {"flush_all"} -> {"ok"}
      [] cmd = "touch" -> {"touched"}
      [] cmd = "del" -> {"ok", "deleted"}

(* Fault: add knows the text protocol's answer alone.                      *)
NoCodesOfTxt(cmd) ==
    CASE cmd \in {"add", "replace", "append", "prepend"} -> {"not_stored"}
      [] cmd \in Retrieve \cup Numeric \cup {"cas", "touch", "del"} -> {"not_found"}
      [] cmd = "set" -> {}
      [] cmd = "flush_all" -> DOMAIN Value \ {"ok"}

NoCodes(cmd) ==
    CASE cmd = "add" -> {"exists", "not_stored"}
      [] cmd \in {"replace", "append", "prepend"} -> {"not_stored"}
      [] cmd \in Retrieve \cup Numeric \cup {"cas", "touch", "del"} -> {"not_found"}
      [] cmd = "set" -> {}
      [] cmd = "flush_all" -> DOMAIN Value \ {"ok"}

Told(cmd, code) ==
    IF code \in YesCodes(cmd) THEN "yes"
    ELSE IF code \in NoCodes(cmd) THEN "no" ELSE "throws"

-----------------------------------------------------------------------------
(* The memcache server: what may become of a command, and the responses    *)
(* that say so.                                                            *)

Outcomes(cmd) ==
    {"done", "refused", "garbled"}
    \cup (IF cmd \in {"set", "add", "flush_all"} THEN {} ELSE {"missing"})
    \cup (IF cmd = "add" THEN {"present"} ELSE {})
    \cup (IF cmd = "cas" THEN {"changed"} ELSE {})

TxtDone(cmd) ==
    CASE cmd \in Storage -> "STORED"
      [] cmd \in Numeric -> "NUMBER"
      [] cmd = "touch" -> "TOUCHED"
      [] cmd = "del" -> "DELETED"
      [] cmd = "flush_all" -> "OK"

TxtMissing(cmd) ==
    CASE cmd \in Retrieve -> "END"
      [] cmd \in {"replace", "append", "prepend"} -> "NOT_STORED"
      [] OTHER -> "NOT_FOUND"

TxtReplies(cmd, outcome, n) ==
    CASE outcome = "done" /\ cmd \in Retrieve ->
            {<<Line("VALUE", n)>> \o Datum(n) \o Footer}
      [] outcome = "done" /\ cmd \notin Retrieve -> {<<Line(TxtDone(cmd), 0)>>}
      [] outcome = "missing" -> {<<Line(TxtMissing(cmd), 0)>>}
      [] outcome = "present" -> {<<Line("NOT_STORED", 0)>>}
      [] outcome = "changed" -> {<<Line("EXISTS", 0)>>}
      [] outcome = "refused" ->
            {<<Line("ERROR", 0)>>, <<Line("SERVER_ERROR", 0)>>,
             <<Line("CLIENT_ERROR", 0), Line("ERROR", 0)>>}
      [] outcome = "garbled" ->
            {<<Line("\r\n", 0)>>, <<Line("VALUE", NotANumber)>> \o Datum(n)}

BinMissing(cmd) ==
    IF cmd \in {"append", "prepend"} THEN "not_stored" ELSE "not_found"

BinDone(cmd, n) ==
    CASE cmd \in Retrieve ->
            {<<HeadOf("ok", FlagsSize, FlagsSize + n), Field("flags")>> \o Datum(n)}
      [] cmd \in Numeric -> {<<HeadOf("ok", 0, NumberSize), Field("number")>>}
      [] cmd = "touch" -> {<<HeadOf("ok", 0, 0)>>,
                           <<HeadOf("ok", FlagsSize, FlagsSize), Field("flags")>>}
      [] OTHER -> {<<HeadOf("ok", 0, 0)>>}

(* A failure comes with a message or without.                              *)
BinFailure(status) ==
    {<<HeadOf(status, 0, 0)>>, <<HeadOf(status, 0, 1), Field("message")>>}

BinReplies(cmd, outcome, n) ==
    CASE outcome = "done" -> BinDone(cmd, n)
      [] outcome = "missing" -> BinFailure(BinMissing(cmd))
      [] outcome \in {"present", "changed"} -> BinFailure("exists")
      [] outcome = "refused" ->
            UNION {BinFailure(status) : status \in
                      {"value_too_large", "invalid_arguments", "unknown_command"}}
      [] outcome = "garbled" ->
            {<<[HeadOf("ok", 0, n) EXCEPT !.magic = FALSE]>> \o Datum(n)}
            \cup (IF cmd \in Retrieve \cup Numeric
                  THEN {<<HeadOf("ok", 0, n + 2)>> \o Datum(n + 2)} ELSE {})

Replies(proto, cmd, outcome, n) ==
    IF proto = "txt" THEN TxtReplies(cmd, outcome, n)
    ELSE BinReplies(cmd, outcome, n)

=============================================================================

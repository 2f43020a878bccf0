------------------------------ MODULE Commands ------------------------------
(***************************************************************************)
(* The commands of both protocols with what they carry: how one is made    *)
(* from the arguments of a client's method, the request it is serialized   *)
(* to, and what is taken from the body of the response (proto/txt.h,       *)
(* proto/binary.h, src/proto/txt.cc, src/proto/binary.cc, proto/zlib.h,    *)
(* src/proto/aux.h), on top of the framing in Protocol; and the            *)
(* conversions of numbers (conversion.h).                                  *)
(*                                                                         *)
(* Data is a sequence of characters, each a string.  A key is its length   *)
(* and whether it is free of spaces and control characters.  A number that *)
(* a request of the text protocol leaves out when it is zero is zero.      *)
(***************************************************************************)
EXTENDS Protocol, SequencesExt

CONSTANT
    MaxWord     \* the largest unsigned number: 2^64 - 1 in the code

ASSUME WordAssumption == MaxWord \in Nat /\ MaxWord % 2 = 1

MaxSigned == MaxWord \div 2

(* The flags of an item are a set of bits; the one that is built in says   *)
(* that the data are compressed.                                           *)
Builtin == {"compress"}

(* opts_t.  id is the union of cas, initial and iters.                     *)
Opts(expiration, flags, id) ==
    [expiration |-> expiration, flags |-> flags, id |-> id]
NoOpts == Opts(0, {}, 0)

-----------------------------------------------------------------------------
(* Numbers as text                                                         *)

Digits == <<"0", "1", "2", "3", "4", "5", "6", "7", "8", "9">>

IsDigit(c) == Contains(Digits, c)
IsSpace(c) == c = " "

(* Decimal text of a natural number: an ostream, or printf's %lu.          *)
Text[n \in Nat] ==
    IF n < 10 THEN <<Digits[n + 1]>>
    ELSE Append(Text[n \div 10], Digits[(n % 10) + 1])

(* printf's %ld                                                            *)
SignedText(n) == IF n < 0 THEN <<"-">> \o Text[-n] ELSE Text[n]

Leading(text, Test(_)) ==
    LET other == SelectInSeq(text, LAMBDA c : ~Test(c))
    IN  IF other = 0 THEN text ELSE SubSeq(text, 1, other - 1)

After(text, head) == SubSeq(text, Len(head) + 1, Len(text))

DigitOf(c) == SelectInSeq(Digits, LAMBDA d : d = c) - 1

(* What a sequence of digits denotes                                       *)
Reading(digits) ==
    LET value[i \in 0 .. Len(digits)] ==
          IF i = 0 THEN 0 ELSE 10 * value[i - 1] + DigitOf(digits[i])
    IN  value[Len(digits)]

(* The number the leading digits denote, 0 if there are none.              *)
Number(text) == Reading(Leading(text, IsDigit))

(* Fault: atoi, which is half as wide.                                     *)
AsSignedByAtoi(text) == Min({Number(text), MaxSigned \div 2})

(* atoll: spaces, a sign, digits; what is out of range becomes the nearest *)
(* signed number.                                                          *)
AsSigned(text) ==
    LET from == After(text, Leading(text, IsSpace))
    IN  IF from # <<>> /\ from[1] = "-"
        THEN -Min({Number(Tail(from)), MaxSigned + 1})
        ELSE Min({Number(from), MaxSigned})

(* A signed number that is cast to an unsigned one.                        *)
AsUnsigned(text) == AsSigned(text) % (MaxWord + 1)

-----------------------------------------------------------------------------
(* Compression: the size and the deflated data make one block, of which    *)
(* only the ends matter.                                                   *)

BlockBegin == "<"
BlockEnd   == ">"

Compress(data) == <<BlockBegin>> \o data \o <<BlockEnd>>

IsBlock(data) == data # <<>> /\ data[1] = BlockBegin

(* Inflating stops at the end of the first block, whatever follows it.     *)
Uncompress(data) == SubSeq(data, 2, SelectInSeq(data, LAMBDA c : c = BlockEnd) - 1)

-----------------------------------------------------------------------------
(* The constructors of the commands                                        *)

KeyOf(len, clean) == [len |-> len, clean |-> clean]
NoKey == KeyOf(0, TRUE)

Command(name, key, data, opts, value) ==
    [name |-> name, key |-> key, data |-> data, opts |-> opts, value |-> value]

RetrieveCommand(name, key) == Command(name, key, <<>>, NoOpts, 0)
StorageCommand(name, key, data, opts) ==
    Command(name, key,
            IF Builtin \subseteq opts.flags THEN Compress(data) ELSE data,
            opts, 0)
IncrDecrCommand(name, key, value, opts) == Command(name, key, <<>>, opts, value)
TouchCommand(key, expiration) ==
    Command("touch", key, <<>>, Opts(expiration, {}, 0), expiration)
DeleteCommand(key) == Command("del", key, <<>>, NoOpts, 0)
FlushAllCommand(expiration) ==
    Command("flush_all", NoKey, <<>>, Opts(expiration, {}, 0), 0)

(* The text protocol has no initial value: its constructor throws.         *)
Constructs(proto, c) ==
    proto = "txt" /\ c.name \in Numeric => c.opts.id = 0

(* check_key                                                               *)
MaxKeyLength == 250
CheckKey(key) == key.len <= MaxKeyLength /\ key.clean

-----------------------------------------------------------------------------
(* serialize()                                                             *)

TxtRequest(c) ==
    CASE c.name \in Retrieve \cup {"del"} -> [line |-> c.name, key |-> c.key]
      [] c.name \in Storage ->
            [line |-> c.name, key |-> c.key, flags |-> c.opts.flags,
             expiration |-> c.opts.expiration, bytes |-> Len(c.data),
             cas |-> c.opts.id, data |-> c.data]
      [] c.name \in Numeric \cup {"touch"} ->
            [line |-> c.name, key |-> c.key, value |-> c.value]
      [] c.name = "flush_all" ->
            [line |-> c.name, expiration |-> c.opts.expiration]

(* api: the codes of operations                                            *)
OpCode == [get |-> 0, gets |-> 0, set |-> 1, cas |-> 1, add |-> 2, replace |-> 3,
           del |-> 4, incr |-> 5, decr |-> 6, flush_all |-> 8, append |-> 14,
           prepend |-> 15, touch |-> 28]

(* Flags and an expiration; an amount, an initial value and an expiration; *)
(* an expiration.                                                          *)
Extras(c) ==
    CASE c.name \in {"set", "cas", "add", "replace"} ->
            [flags |-> c.opts.flags, expiration |-> c.opts.expiration]
      [] c.name \in Numeric ->
            [value |-> c.value, initial |-> c.opts.id,
             expiration |-> c.opts.expiration]
      [] c.name \in {"touch", "flush_all"} -> [expiration |-> c.opts.expiration]
      [] OTHER -> <<>>

(* In bytes, as the class of the command has it; so the data alone, whose  *)
(* units are characters, keep their length.                                *)
ExtrasLength(c) ==
    CASE c.name \in {"set", "cas", "add", "replace"} -> 8
      [] c.name \in Numeric -> 20
      [] c.name \in {"touch", "flush_all"} -> 4
      [] OTHER -> 0

BinRequest(c) ==
    [opcode |-> OpCode[c.name], key_len |-> c.key.len,
     extras_len |-> ExtrasLength(c),
     body_len |-> c.key.len + Len(c.data) + ExtrasLength(c),
     cas |-> IF c.name \in Storage THEN c.opts.id ELSE 0,
     extras |-> Extras(c), key |-> c.key, data |-> c.data]

Serialize(proto, c) == IF proto = "txt" THEN TxtRequest(c) ELSE BinRequest(c)

(* Every command but flush_all checks its key and throws.                  *)
Serializes(c) == c.name = "flush_all" \/ CheckKey(c.key)

-----------------------------------------------------------------------------
(* The response: its header carries flags and cas of a value, and in the   *)
(* binary protocol the length of a key; its body carries flags, a key,     *)
(* characters and a footer, or a number, or a message.                     *)

Chars(data) == [i \in 1 .. Len(data) |-> [kind |-> "field", name |-> "datum", char |-> data[i]]]
FlagsField(flags) == [kind |-> "field", name |-> "flags", flags |-> flags]
NumberField(n) == [kind |-> "field", name |-> "number", number |-> n]

ValueLine(flags, bytes, cas) ==
    [kind |-> "line", word |-> "VALUE", bytes |-> bytes, flags |-> flags, cas |-> cas]
NumberLine(n) == [kind |-> "line", word |-> "NUMBER", bytes |-> 0, number |-> n]
HeadWith(status, key_len, extras, body, cas) ==
    [kind |-> "head", magic |-> TRUE, status |-> status, extras |-> extras,
     body |-> body, key_len |-> key_len, cas |-> cas]

Response(code, data, flags, cas) ==
    [code |-> code, data |-> data, flags |-> flags, cas |-> cas]

(* zlib throws for what is not compressed.                                 *)
Broken == Response("bad_request", <<>>, {}, 0)

CharsOf(units) == [i \in 1 .. Len(units) |-> units[i].char]

(* set_body of the retrieve commands: what surrounds the value is cut off. *)
TxtValueData(header, body) == CharsOf(SubSeq(body, 1, Len(body) - FooterSize))
BinValueData(header, body) ==
    CharsOf(SubSeq(body, FlagsSize + header.key_len + 1, Len(body)))

RetrievedBody(proto, header, body) ==
    LET flags == IF proto = "txt" THEN header.flags ELSE body[1].flags
        data  == IF proto = "txt" THEN TxtValueData(header, body)
                 ELSE BinValueData(header, body)
    IN  IF ~(Builtin \subseteq flags) THEN Response("ok", data, flags, header.cas)
        ELSE IF IsBlock(data)
        THEN Response("ok", Uncompress(data), flags, header.cas)
        ELSE Broken

(* set_body of incr and decr in the binary protocol; the text protocol has *)
(* the number in the header.                                               *)
NumberBody(proto, header, body) ==
    Response("ok", Text[IF proto = "txt" THEN header.number ELSE body[1].number], {}, 0)

(* deserialize_response: what becomes of the units of a reply, of which    *)
(* the header says how many are read.                                      *)
Receive(proto, c, reply) ==
    LET header == reply[1]
        parsed == DeserializeHeader(proto, c.name, header)
        body   == SubSeq(reply, 2, 1 + parsed.bytes)
    IN  CASE parsed.code = "ok" /\ c.name \in Retrieve -> RetrievedBody(proto, header, body)
          [] parsed.code = "ok" /\ c.name \in Numeric -> NumberBody(proto, header, body)
          [] OTHER -> Response(parsed.code, <<>>, {}, 0)

(* What is left in the connection of a reply.                              *)
LeftOver(proto, c, reply) ==
    Len(reply) - 1 - DeserializeHeader(proto, c.name, reply[1]).bytes

=============================================================================

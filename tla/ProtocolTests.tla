---------------------------- MODULE ProtocolTests ----------------------------
(***************************************************************************)
(* The cases of the unit tests of the two protocols                        *)
(* (src/proto/test-txt.cc, src/proto/test-binary.cc), held against the     *)
(* definitions of Commands and Protocol: the model says of every case what *)
(* the test says of the program.                                           *)
(*                                                                         *)
(* A case is a command, the request it must be serialized to, the reply    *)
(* of the connection and the code the client must make of it.  The numbers *)
(* of the tests that have 32 bits or more are replaced by small ones.      *)
(***************************************************************************)
EXTENDS Commands

Key == KeyOf(1, TRUE)                   \* "3"
Abc == <<"a", "b", "c">>

BadCafe  == 1
DeadBeef == 2
DeadCode == 3
CafeBabe == {"cafebabe"}

Case(command, request, reply, code) ==
    [command |-> command, request |-> request, reply |-> reply, code |-> code]

(* The same command and request, with several replies and their codes.     *)
Cases(command, request, answers) ==
    [i \in 1 .. Len(answers) |->
        Case(command, request, answers[i][1], answers[i][2])]

(* validation_connection_t: what is written must be the request.           *)
Sends(proto, case) ==
    Serializes(case.command) /\ Serialize(proto, case.command) = case.request

(* The parser returns the code and leaves nothing in the connection.       *)
Passes(proto, case) ==
    /\ Constructs(proto, case.command)
    /\ Sends(proto, case)
    /\ Receive(proto, case.command, case.reply).code = case.code
    /\ LeftOver(proto, case.command, case.reply) = 0

(* Checker_t: no case fails.                                               *)
AllPass(proto, cases) == \A i \in 1 .. Len(cases) : Passes(proto, cases[i])

Got(proto, case) == Receive(proto, case.command, case.reply)

-----------------------------------------------------------------------------
(* Cases of both: a key that is too long and one with a space              *)

BadKeys == <<RetrieveCommand("get", KeyOf(251, TRUE)),
             RetrieveCommand("get", KeyOf(3, FALSE))>>

BadKeyTests == \A i \in 1 .. 2 : ~Serializes(BadKeys[i])

ASSUME BadKeyTests

-----------------------------------------------------------------------------
(* The text protocol                                                       *)

Word(word) == <<Line(word, 0)>>

Get == RetrieveCommand("get", Key)
GetLine == [line |-> "get", key |-> Key]

TxtErrors == Cases(Get, GetLine,
    <<<<Word("ERROR"), "error">>, <<Word("CLIENT_ERROR"), "client_error">>,
      <<Word("SERVER_ERROR"), "server_error">>>>)

TxtGetCodes == Cases(Get, GetLine,
    <<<<Word(""), "empty">>, <<Word("invalid-response"), "unrecognized">>,
      <<Word("ERROR"), "error">>, <<Word("END"), "not_found">>>>)

TxtFound(name, flags, cas) ==
    Case(RetrieveCommand(name, Key), [line |-> name, key |-> Key],
         <<ValueLine(flags, 3, cas)>> \o Chars(Abc) \o Footer, "ok")

TxtFoundCases ==
    <<TxtFound("get", {}, 0), TxtFound("get", {"12345"}, 0),
      TxtFound("gets", {"12345"}, 333)>>

(* The footer is cut off, and flags and cas are those of the header.       *)
TxtFoundTests ==
    /\ AllPass("txt", TxtFoundCases)
    /\ \A i \in 1 .. 3 : Got("txt", TxtFoundCases[i]).data = Abc
    /\ Got("txt", TxtFoundCases[2]).flags = {"12345"}
    /\ Got("txt", TxtFoundCases[3]).cas = 333

(* A body of another size than the header says; flags or a size that is no *)
(* number.                                                                 *)
TxtBadSize == Case(Get, GetLine,
    <<ValueLine({}, 3, 0)>> \o Chars(Abc \o Abc) \o Footer, "ok")
TxtBadNumbers == Cases(Get, GetLine, <<<<<<Line("VALUE", NotANumber)>>, "syntax">>>>)

TxtSet == StorageCommand("set", Key, Abc, NoOpts)
TxtCas == StorageCommand("cas", Key, Abc, Opts(0, {}, 3))

StorageLine(name, cas) ==
    [line |-> name, key |-> Key, flags |-> {}, expiration |-> 0, bytes |-> 3,
     cas |-> cas, data |-> Abc]

TxtSetCases == Cases(TxtSet, StorageLine("set", 0),
    <<<<Word(""), "empty">>, <<Word("invalid-response"), "unrecognized">>,
      <<Word("ERROR"), "error">>, <<Word("STORED"), "stored">>,
      <<Word("NOT_STORED"), "not_stored">>>>)

TxtCasCases == Cases(TxtCas, StorageLine("cas", 3),
    <<<<Word("EXISTS"), "exists">>, <<Word("NOT_FOUND"), "not_found">>>>)

TxtIncrCases ==
    Cases(IncrDecrCommand("incr", Key, 3, NoOpts),
          [line |-> "incr", key |-> Key, value |-> 3],
          <<<<Word(""), "empty">>, <<Word("invalid-response"), "unrecognized">>,
            <<Word("ERROR"), "error">>, <<<<NumberLine(33)>>, "ok">>,
            <<Word("NOT_FOUND"), "not_found">>>>)

TxtTouchCases ==
    Cases(TouchCommand(Key, 3), [line |-> "touch", key |-> Key, value |-> 3],
          <<<<Word("TOUCHED"), "touched">>>>)

TxtDelCases ==
    Cases(DeleteCommand(Key), [line |-> "del", key |-> Key],
          <<<<Word(""), "empty">>, <<Word("invalid-response"), "unrecognized">>,
            <<Word("ERROR"), "error">>, <<Word("DELETED"), "deleted">>,
            <<Word("NOT_FOUND"), "not_found">>>>)

TxtFlushCases ==
    Cases(FlushAllCommand(0), [line |-> "flush_all", expiration |-> 0],
          <<<<Word(""), "empty">>, <<Word("ERROR"), "error">>>>)
    \o
    Cases(FlushAllCommand(3), [line |-> "flush_all", expiration |-> 3],
          <<<<Word("invalid-response"), "unrecognized">>, <<Word("OK"), "ok">>>>)

TxtTests ==
    /\ AllPass("txt", TxtErrors \o TxtGetCodes \o TxtBadNumbers)
    /\ TxtFoundTests
    /\ LeftOver("txt", Get, TxtBadSize.reply) # 0
    /\ AllPass("txt", TxtSetCases \o TxtCasCases)
    /\ AllPass("txt", TxtIncrCases \o TxtTouchCases)
    /\ Got("txt", TxtIncrCases[4]).data = <<"3", "3">>
    /\ AllPass("txt", TxtDelCases \o TxtFlushCases)

ASSUME TxtTests

-----------------------------------------------------------------------------
(* The binary protocol                                                     *)

(* packet_t: a request                                                     *)
Packet(opcode, cas, key, extras, extras_len, data) ==
    [opcode |-> opcode, key_len |-> key.len, extras_len |-> extras_len,
     body_len |-> key.len + extras_len + Len(data), cas |-> cas,
     extras |-> extras, key |-> key, data |-> data]

(* packet_t: a response with a key, extras and a body, each in units       *)
Reply(status, cas, key, extras, body) ==
    <<HeadWith(status, Len(key), Len(extras), Len(key) + Len(extras) + Len(body), cas)>>
    \o extras \o key \o body

Nothing   == <<[kind |-> "empty"]>>                     \* packet_t()
BadMagic  == <<[HeadOf("ok", 0, 0) EXCEPT !.magic = FALSE]>>
Bare(status) == Reply(status, 0, <<>>, <<>>, <<>>)
Described(status) == Reply(status, 0, <<>>, <<Field("message")>>, <<>>)

GetPacket == Packet(0, 0, Key, <<>>, 0, <<>>)

BinErrors == Cases(Get, GetPacket,
    <<<<Described("unknown_command"), "error">>,
      <<Bare("non_numeric_value"), "client_error">>,
      <<Bare("out_of_memory"), "server_error">>>>)

BinGetCodes == Cases(Get, GetPacket,
    <<<<Nothing, "empty">>, <<BadMagic, "unrecognized">>,
      <<Described("unknown_command"), "error">>,
      <<Described("not_found"), "not_found">>>>)

BinFound(name, flags, cas, key) ==
    Case(RetrieveCommand(name, Key), GetPacket,
         Reply("ok", cas, key, <<FlagsField(flags)>>, Chars(Abc)), "ok")

BinFoundCases ==
    <<BinFound("get", {}, 0, <<>>), BinFound("get", {}, 0, <<Field("key")>>),
      BinFound("get", CafeBabe, 123456, <<>>), BinFound("gets", {}, 333, <<>>)>>

(* The flags and a key, if there is one, are cut off.                      *)
BinFoundTests ==
    /\ AllPass("bin", BinFoundCases)
    /\ \A i \in 1 .. 4 : Got("bin", BinFoundCases[i]).data = Abc
    /\ Got("bin", BinFoundCases[3]).flags = CafeBabe
    /\ Got("bin", BinFoundCases[4]).cas = 333

(* What is left in the connection does not matter here.                    *)
BinWithoutExtras ==
    Case(Get, GetPacket, Reply("ok", 0, <<>>, <<>>, Chars(Abc)), "invalid")

BinSetCases ==
    Cases(StorageCommand("set", Key, Abc, Opts(BadCafe, CafeBabe, 0)),
          Packet(1, 0, Key, [flags |-> CafeBabe, expiration |-> BadCafe], 8, Abc),
          <<<<Nothing, "empty">>, <<BadMagic, "unrecognized">>,
            <<Described("unknown_command"), "error">>, <<Bare("ok"), "stored">>,
            <<Bare("not_stored"), "not_stored">>, <<Bare("exists"), "exists">>,
            <<Bare("not_found"), "not_found">>>>)

(* The first of these is a set with a cas identifier.                      *)
BinCasCases ==
    Cases(StorageCommand("set", Key, Abc, Opts(0, {}, DeadCode)),
          Packet(1, DeadCode, Key, [flags |-> {}, expiration |-> 0], 8, Abc),
          <<<<Bare("ok"), "stored">>, <<Bare("exists"), "exists">>>>)

BinPrependCases ==
    Cases(StorageCommand("prepend", Key, Abc, Opts(BadCafe, {}, 0)),
          Packet(15, 0, Key, <<>>, 0, Abc), <<<<Bare("ok"), "stored">>>>)

Incr == IncrDecrCommand("incr", Key, DeadBeef, Opts(BadCafe, {}, DeadCode))
IncrPacket ==
    Packet(5, 0, Key, [value |-> DeadBeef, initial |-> DeadCode,
                       expiration |-> BadCafe], 20, <<>>)

BinIncrCases ==
    Cases(Incr, IncrPacket,
          <<<<Nothing, "empty">>, <<BadMagic, "unrecognized">>,
            <<Bare("unknown_command"), "error">>,
            <<Reply("ok", 0, <<>>, <<>>, <<NumberField(33)>>), "ok">>,
            <<Bare("not_found"), "not_found">>>>)

(* A body of another size than a number has.                               *)
BinBadNumber ==
    Case(Incr, IncrPacket, Reply("ok", 0, Chars(Abc), <<>>, <<>>), "invalid")

BinDelCases ==
    Cases(DeleteCommand(Key), Packet(4, 0, Key, <<>>, 0, <<>>),
          <<<<Nothing, "empty">>, <<BadMagic, "unrecognized">>,
            <<Bare("unknown_command"), "error">>, <<Bare("ok"), "deleted">>,
            <<Bare("not_found"), "not_found">>>>)

BinTouchCases ==
    Cases(TouchCommand(Key, DeadBeef),
          Packet(28, 0, Key, [expiration |-> DeadBeef], 4, <<>>),
          <<<<Nothing, "empty">>, <<BadMagic, "unrecognized">>,
            <<Bare("unknown_command"), "error">>, <<Bare("ok"), "touched">>>>)

BinFlushCases ==
    Cases(FlushAllCommand(DeadBeef),
          Packet(8, 0, NoKey, [expiration |-> DeadBeef], 4, <<>>),
          <<<<Nothing, "empty">>, <<BadMagic, "unrecognized">>,
            <<Bare("unknown_command"), "error">>, <<Bare("ok"), "ok">>>>)

BinTests ==
    /\ AllPass("bin", BinErrors \o BinGetCodes)
    /\ BinFoundTests
    /\ Got("bin", BinWithoutExtras).code = BinWithoutExtras.code
    /\ AllPass("bin", BinSetCases \o BinCasCases \o BinPrependCases)
    /\ AllPass("bin", BinIncrCases)
    /\ Got("bin", BinBadNumber).code = BinBadNumber.code
    /\ Got("bin", BinIncrCases[4]).data = <<"3", "3">>
    /\ AllPass("bin", BinDelCases \o BinTouchCases \o BinFlushCases)

ASSUME BinTests

=============================================================================

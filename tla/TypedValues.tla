----------------------------- MODULE TypedValues -----------------------------
(***************************************************************************)
(* One item of a memcache server, used by a program in Python              *)
(* (python/mcache.cc, which speaks the binary protocol) and by programs in *)
(* C++ of either protocol (client.h and its conversions), each of which    *)
(* stores and reads typed values.                                          *)
(*                                                                         *)
(* An object is of one of Python's types: a string, an integer, a float or *)
(* anything else, which is pickled.  A C++ program stores strings and      *)
(* numbers, and has to know of what type an item is.  A float counts       *)
(* thirds of the last place that printf prints.                            *)
(*                                                                         *)
(* A call of a method is one step here: what servers, failures and         *)
(* competing calls do to it is in ClientRun and AtomicUpdate.              *)
(***************************************************************************)
EXTENDS Commands

CONSTANTS
    Characters,     \* what strings consist of
    Strings,        \* strings that programs store
    Longs,          \* integers they store
    Floats,         \* floats they store, in thirds of the last place
    Amounts,        \* amounts of incr and decr
    Initial,        \* initial value of incr and decr
    UserFlags,      \* sets of flags that callers pass
    DefaultIters,   \* iterations of atomic_update: 64 in the code
    MaxLen          \* bound: no item grows longer

CasIds == 1 .. 4

(* No character is the end of a block.  Longs are the code's signed        *)
(* numbers, and its unsigned ones hold amounts, initial values and, as     *)
(* they share a field, identifiers.  An item has room for any of them.     *)
ASSUME ObjectAssumption ==
    /\ Strings \subseteq Seq(Characters) /\ BlockEnd \notin Characters
    /\ Longs \subseteq -(MaxSigned + 1) .. MaxSigned
    /\ Floats \subseteq Nat

ASSUME FieldAssumption ==
    /\ Amounts \cup CasIds \cup {Initial} \subseteq 0 .. MaxWord
    /\ MaxLen \in Nat
    /\ \A n \in 0 .. MaxWord : Len(Text[n]) <= MaxLen

VARIABLES
    item,       \* what the server has: data, flags and cas, or NoItem
    token,      \* the cas identifier of Python's last gets, 0 if none
    update,     \* Python's atomic_update: where it is and what it read
    meaning,    \* history: the object the item stands for, and who says so
    blended,    \* history: compressed data were appended, or appended to
    told        \* history: the number incr or decr told, until the next write

vars == <<item, token, update, meaning, blended, told>>

-----------------------------------------------------------------------------
(* Objects and their conversion                                            *)

Object(type, text, number) == [type |-> type, text |-> text, number |-> number]
Str(text)     == Object("STRING", text, 0)
Long(n)       == Object("LONG", <<>>, n)
Float(thirds) == Object("DOUBLE", <<>>, thirds)
Pickled(text) == Object("PICKLED", text, 0)
None          == Object("NONE", <<>>, 0)
Unreadable    == Object("THROWS", <<>>, 0)

(* pickle's dumps and loads                                                *)
Dumps(text) == <<"P">> \o text
Loads(data) ==
    IF data # <<>> /\ data[1] = "P" THEN Pickled(Tail(data)) ELSE Unreadable

(* printf's %f, of a single decimal here, and strtold.                     *)
FloatText(thirds) ==
    LET places == (thirds + 1) \div 3
    IN  Text[places \div 10] \o <<".">> \o Text[places % 10]
AsFloat(text) ==
    LET whole == Leading(text, IsDigit)
        rest  == After(text, whole)
        place == IF Len(rest) > 1 /\ rest[1] = "." /\ IsDigit(rest[2])
                 THEN Number(<<rest[2]>>) ELSE 0
    IN  3 * (10 * Number(whole) + place)

(* cnv<type_t>::as, both ways                                              *)
ToText(object) ==
    CASE object.type = "STRING"  -> object.text
      [] object.type = "LONG"    -> SignedText(object.number)
      [] object.type = "DOUBLE"  -> FloatText(object.number)
      [] object.type = "PICKLED" -> Dumps(object.text)

FromText(type, data) ==
    CASE type = "PICKLED" -> Loads(data)
      [] type = "DOUBLE"  -> Float(AsFloat(data))
      [] type = "LONG"    -> Long(AsSigned(data))
      [] OTHER            -> Str(data)

(* The flags that mark a type: a string has none.                          *)
MASK == {"PICKLED", "DOUBLE", "LONG"}

MarkOf(object) == {object.type} \cap MASK

(* to_string marks the type, after it has refused flags that are marks.    *)
(* Fault: an integer has no mark of its own.                               *)
MarkedButLong(object, opts) ==
    [opts EXCEPT !.flags = @ \cup (MarkOf(object) \ {"LONG"})]

Marked(object, opts) == [opts EXCEPT !.flags = @ \cup MarkOf(object)]

(* Fault: the flags are not looked at.                                     *)
MarkableAlways(opts) == TRUE

Markable(opts) == opts.flags \cap MASK = {}

(* data_from_string: marks that are of no type mean a string.              *)
DataFromString(data, flags) ==
    LET marks == flags \cap MASK
    IN  IF Cardinality(marks) = 1
        THEN FromText(CHOOSE mark \in marks : TRUE, data)
        ELSE Str(data)

(* The same object, a float up to the places that are printed.             *)
Same(a, b) ==
    /\ a.type = b.type /\ a.text = b.text
    /\ IF a.type = "DOUBLE" THEN a.number - b.number \in -1 .. 1
       ELSE a.number = b.number

-----------------------------------------------------------------------------
(* The memcache server                                                     *)

NoItem == [data |-> <<>>, flags |-> {}, cas |-> 0]
Present == item.cas # 0

(* An identifier that neither the item nor a reader has.                   *)
NewCas == CHOOSE id \in CasIds : id \notin {item.cas, token, update.cas}

Stored(data, flags) == [data |-> data, flags |-> flags, cas |-> NewCas]

(* What a number in an item is followed by: decr keeps its length.         *)
IsNumber(data) ==
    LET digits == Leading(data, IsDigit)
    IN  /\ digits # <<>> /\ Number(data) <= MaxWord
        /\ \A i \in 1 .. Len(After(data, digits)) : After(data, digits)[i] = " "

Counted(verb, number, value) ==
    IF verb = "incr" THEN (number + value) % (MaxWord + 1)
    ELSE Max({number - value, 0})

Padded(text, data) ==
    text \o [i \in 1 .. Max({Len(data) - Len(text), 0}) |-> " "]

(* The outcome in Protocol's words, the item after it, and a number.       *)
Effect(outcome, after, number) ==
    [outcome |-> outcome, item |-> after, number |-> number]
Unchanged(outcome) == Effect(outcome, item, 0)

(* memcached takes any storage command that has an identifier for a cas.   *)
StoreEffect(verb, cas, flags, data) ==
    CASE cas # 0 /\ ~Present -> Unchanged("missing")
      [] Present /\ cas \notin {0, item.cas} -> Unchanged("changed")
      [] cas = 0 /\ verb = "add" /\ Present -> Unchanged("present")
      [] cas = 0 /\ verb = "replace" /\ ~Present -> Unchanged("missing")
      [] OTHER -> Effect("done", Stored(data, flags), 0)

(* append and prepend leave the flags alone.                               *)
JoinEffect(verb, cas, data) ==
    CASE ~Present -> Unchanged("missing")
      [] Present /\ cas \notin {0, item.cas} -> Unchanged("changed")
      [] OTHER -> Effect("done",
                         Stored(IF verb = "append" THEN item.data \o data
                                ELSE data \o item.data, item.flags), 0)

CountEffect(verb, value, initials) ==
    LET number == Counted(verb, Number(item.data), value)
    IN  CASE ~Present /\ initials = {} -> Unchanged("missing")
          [] ~Present /\ initials # {} ->
                LET initial == CHOOSE n \in initials : TRUE
                IN  Effect("done", Stored(Text[initial], {}), initial)
          [] Present /\ ~IsNumber(item.data) -> Unchanged("refused")
          [] OTHER -> Effect("done",
                             Stored(Padded(Text[number], item.data), item.flags),
                             number)

(* What a request does: in the text protocol only cas looks at identifiers *)
(* and incr has no initial value.                                          *)
TxtEffect(verb, request) ==
    CASE verb \in Retrieve -> Unchanged(IF Present THEN "done" ELSE "missing")
      [] verb \in {"append", "prepend"} -> JoinEffect(verb, 0, request.data)
      [] verb \in Storage \ {"append", "prepend"} ->
            StoreEffect(verb, IF verb = "cas" THEN request.cas ELSE 0,
                        request.flags, request.data)
      [] verb \in Numeric -> CountEffect(verb, request.value, {})
      [] verb = "del" -> IF Present THEN Effect("done", NoItem, 0)
                         ELSE Unchanged("missing")

BinEffect(verb, request) ==
    CASE verb \in Retrieve -> Unchanged(IF Present THEN "done" ELSE "missing")
      [] verb \in {"append", "prepend"} -> JoinEffect(verb, request.cas, request.data)
      [] verb \in Storage \ {"append", "prepend"} ->
            StoreEffect(verb, request.cas, request.extras.flags, request.data)
      [] verb \in Numeric -> CountEffect(verb, request.extras.value,
                                         {request.extras.initial})
      [] verb = "del" -> IF Present THEN Effect("done", NoItem, 0)
                         ELSE Unchanged("missing")

(* The reply to it                                                         *)
Answer(proto, verb, effect) ==
    CASE verb \in Retrieve /\ effect.outcome = "done" ->
            IF proto = "txt"
            THEN <<ValueLine(item.flags, Len(item.data), item.cas)>>
                 \o Chars(item.data) \o Footer
            ELSE <<HeadWith("ok", 0, FlagsSize, FlagsSize + Len(item.data), item.cas),
                   FlagsField(item.flags)>> \o Chars(item.data)
      [] verb \in Numeric /\ effect.outcome = "done" ->
            IF proto = "txt" THEN <<NumberLine(effect.number)>>
            ELSE <<HeadWith("ok", 0, 0, NumberSize, 0), NumberField(effect.number)>>
      [] OTHER -> CHOOSE reply \in Replies(proto, verb, effect.outcome, 0) : TRUE

-----------------------------------------------------------------------------
(* A call of a method of the C++ client: the command goes to the server    *)
(* and back.                                                               *)

EffectOf(proto, c) ==
    IF proto = "txt" THEN TxtEffect(c.name, Serialize(proto, c))
    ELSE BinEffect(c.name, Serialize(proto, c))

ResponseTo(proto, c) == Receive(proto, c, Answer(proto, c.name, EffectOf(proto, c)))

TheKey == KeyOf(1, TRUE)

Found(proto) == ResponseTo(proto, RetrieveCommand("gets", TheKey))

CanStore(name, opts) == name = "cas" => opts.id # 0

(* Bound: an item holds MaxLen characters.                                 *)
Fits(c) ==
    (IF c.name \in {"append", "prepend"} THEN Len(item.data) ELSE 0) + Len(c.data)
        <= MaxLen

(* Who stored an object: Python marks its type, C++ does not.              *)
Says(by, object) == [by |-> by, object |-> object]
Unknown == Says("nobody", None)

Joined(name, object) ==
    IF meaning.object.type # "STRING" THEN Unknown
    ELSE Says(meaning.by,
              Str(IF name = "append" THEN meaning.object.text \o ToText(object)
                  ELSE ToText(object) \o meaning.object.text))

(* A storage command with an object, and what its caller may think of the  *)
(* item when it is told yes.                                               *)
Store(by, proto, name, object, opts) ==
    LET c == StorageCommand(name, TheKey, ToText(object), opts)
        yes == Told(name, ResponseTo(proto, c).code) = "yes"
    IN  /\ CanStore(name, opts)
        /\ Constructs(proto, c)
        /\ Fits(c)
        /\ item' = EffectOf(proto, c).item
        /\ IF ~yes THEN UNCHANGED <<meaning, blended, told>>
           ELSE /\ told' = {}
                /\ IF name \in {"append", "prepend"}
                   THEN /\ meaning' = Joined(name, object)
                        /\ blended' = (\/ blended
                                       \/ Builtin \subseteq item.flags \cup opts.flags)
                   ELSE /\ meaning' = Says(by, object)
                        /\ blended' = FALSE

(* What a number becomes: one that Python cannot hold, or that was not an  *)
(* integer before, has no meaning here.                                    *)
Renumbered(by, number) ==
    IF number > MaxSigned THEN Unknown
    ELSE IF ~Present THEN Says(by, Long(number))
    ELSE IF meaning.object.type = "LONG" THEN Says(meaning.by, Long(number))
    ELSE Unknown

(* incr and decr of the C++ client: an item that they make has no mark.    *)
Count(proto, name, value, opts) ==
    LET c == IncrDecrCommand(name, TheKey, value, opts)
        effect == EffectOf(proto, c)
        response == ResponseTo(proto, c)
    IN  /\ Constructs(proto, c)
        /\ item' = effect.item
        /\ IF Told(name, response.code) # "yes" THEN UNCHANGED <<meaning, blended, told>>
           ELSE /\ told' = {AsUnsigned(response.data)}
                /\ meaning' = Renumbered("C++", effect.number)
                /\ blended' = FALSE
        /\ UNCHANGED <<token, update>>

-----------------------------------------------------------------------------
(* The Python wrapper                                                      *)

(* opts_from_python_dict: the flag of compression has an entry of its own, *)
(* and the three numbers share a field.  What a dict does not contain is 0 *)
(* here.                                                                   *)
NoDict == [flags |-> {}, compress |-> FALSE, cas |-> 0, iters |-> 0, initial |-> 0]

Dicts ==
    {NoDict, [NoDict EXCEPT !.cas = token], [NoDict EXCEPT !.iters = 1],
     [NoDict EXCEPT !.cas = token, !.initial = Initial],
     [NoDict EXCEPT !.initial = Initial]}
    \cup [flags : UserFlags, compress : BOOLEAN, cas : {0}, iters : {0}, initial : {0}]

Convertible(dict) == dict.flags \cap Builtin = {}

OptsFromDict(dict) ==
    Opts(0, dict.flags \cup (IF dict.compress THEN Builtin ELSE {}),
         IF dict.cas # 0 THEN dict.cas
         ELSE IF dict.iters # 0 THEN dict.iters ELSE dict.initial)

(* seto, addo, replaceo, appendo, prependo and cas                         *)
PyStore(name, object, dict) ==
    LET opts == OptsFromDict(dict)
    IN  /\ Convertible(dict)
        /\ Markable(opts)
        /\ Store("Python", "bin", name, object, Marked(object, opts))
        /\ UNCHANGED <<token, update>>

(* incrio and decrio: the mark they add is not sent.                       *)
PyCount(name, value, dict) ==
    /\ Convertible(dict)
    /\ LET opts == OptsFromDict(dict)
       IN  Count("bin", name, value, [opts EXCEPT !.flags = @ \cup {"LONG"}])

(* gets: the caller keeps the identifier.                                  *)
PyGets ==
    /\ update.at = "idle"
    /\ token' = Found("bin").cas
    /\ UNCHANGED <<item, update, meaning, blended, told>>

Idle == [at |-> "idle", left |-> 0, argument |-> None, cas |-> 0]

(* atomic_updateo: of the options the iterations are used.  Bound: the     *)
(* caller forgets the identifier it had.                                   *)
UpdateStart(dict) ==
    /\ update.at = "idle"
    /\ Convertible(dict)
    /\ LET opts == OptsFromDict(dict)
       IN  update' = [Idle EXCEPT !.at = "gets",
                         !.left = IF opts.id = 0 THEN DefaultIters ELSE opts.id]
    /\ token' = 0
    /\ UNCHANGED <<item, meaning, blended, told>>

(* What the callback is given: nothing, when the item is empty and has no  *)
(* flags.                                                                  *)
Argument(data, flags) ==
    IF data = <<>> /\ flags = {} THEN None ELSE DataFromString(data, flags)

UpdateGets ==
    LET response == Found("bin")
        argument == Argument(response.data, response.flags)
    IN  /\ update.at = "gets"
        /\ update' =
              IF Told("gets", response.code) = "no"
              THEN [update EXCEPT !.at = "add", !.argument = None]
              ELSE IF response.code # "ok" \/ argument = Unreadable THEN Idle
              ELSE [update EXCEPT !.at = "cas", !.argument = argument,
                                  !.cas = response.cas]
        /\ UNCHANGED <<item, token, meaning, blended, told>>

(* Fault: the identifier is read when the callback has returned.           *)
SwapOptsBlind(object) ==
    Opts(0, MarkOf(object), IF update.cas = 0 THEN 0 ELSE item.cas)

(* The callback returns an object; it is stored with the mark of its type  *)
(* and no other flags.                                                     *)
SwapOpts(object) == Opts(0, MarkOf(object), update.cas)


UpdateSwap(object) ==
    LET opts == SwapOpts(object)
        c == StorageCommand(update.at, TheKey, ToText(object), opts)
        answer == Told(update.at, ResponseTo("bin", c).code)
    IN  /\ update.at \in {"cas", "add"}
        /\ Store("Python", "bin", update.at, object, opts)
        /\ update' = IF answer = "yes" THEN [Idle EXCEPT !.at = "done"]
                     ELSE IF update.left = 1 THEN Idle
                     ELSE [update EXCEPT !.at = "gets", !.left = @ - 1,
                                         !.argument = None, !.cas = 0]
        /\ UNCHANGED token

UpdateReturn ==
    /\ update.at = "done"
    /\ update' = Idle
    /\ UNCHANGED <<item, token, meaning, blended, told>>

-----------------------------------------------------------------------------
(* The C++ programs, and the server on its own                             *)

CxxStore(proto, name, object, flags) ==
    /\ update.at = "idle"
    /\ Store("C++", proto, name, object, Opts(0, flags, 0))
    /\ UNCHANGED <<token, update>>

CxxDelete(proto) ==
    /\ item' = EffectOf(proto, DeleteCommand(TheKey)).item
    /\ meaning' = Unknown
    /\ blended' = FALSE
    /\ told' = {}
    /\ UNCHANGED <<token, update>>

Objects == {Str(text) : text \in Strings} \cup {Long(n) : n \in Longs}
           \cup {Float(x) : x \in Floats}
           \cup {Pickled(text) : text \in Strings \ {<<>>}}

CxxObjects == {object \in Objects : object.type # "PICKLED"}

(* Bound: what programs append and prepend are strings.                    *)
Storable(name, objects) ==
    {object \in objects : name \in {"append", "prepend"} => object.type = "STRING"}

(* Bound: the calls that come between two steps of atomic_update have no   *)
(* options.                                                                *)
DictsNow == IF update.at = "idle" THEN Dicts ELSE {NoDict}

(* Bound: nobody passes atomic_update what it has no use for.  A cas or an *)
(* initial value would be taken for a number of iterations.                *)
UpdateDicts == {dict \in Dicts : dict.cas = 0 /\ dict.initial = 0}

Init ==
    /\ item = NoItem
    /\ token = 0
    /\ update = Idle
    /\ meaning = Unknown
    /\ blended = FALSE
    /\ told = {}

Next ==
    \/ \E name \in Storage, dict \in DictsNow :
          \E object \in Storable(name, Objects) : PyStore(name, object, dict)
    \/ \E name \in Numeric, value \in Amounts, dict \in DictsNow :
          PyCount(name, value, dict)
    \/ PyGets
    \/ \E dict \in UpdateDicts : UpdateStart(dict)
    \/ UpdateGets
    \/ \E object \in Objects : UpdateSwap(object)
    \/ UpdateReturn
    \/ \E proto \in Protocols, name \in Storage \ {"cas"}, flags \in {{}, Builtin} :
          \E object \in Storable(name, CxxObjects) :
             CxxStore(proto, name, object, flags)
    \/ \E proto \in Protocols, name \in Numeric, value \in Amounts :
          Count(proto, name, value, NoOpts)
    \/ \E proto \in Protocols : CxxDelete(proto)

Spec == Init /\ [][Next]_vars

-----------------------------------------------------------------------------
(* Properties                                                              *)

(* Every variable keeps its type; an item has one mark of a type at most,  *)
(* which is what the check at the head of to_string is for.                *)
TypeOK ==
    /\ item.cas \in 0 .. 4 /\ Len(item.data) <= MaxLen
    /\ Cardinality(item.flags \cap MASK) <= 1
    /\ token \in 0 .. 4
    /\ update.at \in {"idle", "gets", "cas", "add", "done"}
    /\ blended \in BOOLEAN
    /\ told \subseteq 0 .. MaxWord

Reads(object) ==
    /\ \A proto \in Protocols :
          Same(object, FromText(meaning.object.type, Found(proto).data))
    /\ meaning.by = "Python" =>
          Same(object, DataFromString(Found("bin").data, Found("bin").flags))

(* Whatever was stored, appended, counted up or down through either client *)
(* and either protocol, compressed or not, is read back as that object:    *)
(* by a C++ program that knows the type, and by Python if Python stored    *)
(* it.  Data that were joined with compressed data are left out.           *)
TypedRead == meaning # Unknown /\ ~blended => Reads(meaning.object)

(* append's comment says "@return true if value was appended": an item     *)
(* that was stored compressed is read as what was stored and all that was  *)
(* joined to it, of which true was told.                                   *)
AppendedIsRead ==
    meaning # Unknown /\ Builtin \subseteq item.flags => Reads(meaning.object)

(* The number incr or decr tells is the number the item then has, as long  *)
(* as a signed number can hold it.                                         *)
IncrTells ==
    \A number \in told :
        \/ Number(item.data) = number
        \/ number = MaxSigned /\ Number(item.data) > MaxSigned

(* What Python's atomic_update replaces is what its callback was given: by *)
(* cas the item it has read, by add nothing.                               *)
Given(object) ==
    IF ~Present THEN object = None
    ELSE Same(object, Argument(Found("bin").data, Found("bin").flags))

UpdateSeesItem ==
    [][update.at # "done" /\ update'.at = "done" => Given(update.argument)]_vars

=============================================================================

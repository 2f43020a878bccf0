--------------------------- MODULE ConnectionProofs ---------------------------
(***************************************************************************)
(* What the proofs about both connections rest on: the socket and its      *)
(* deadline, for any timeouts and whatever uses them; the buffers; and     *)
(* the responses of a server, for values of any length.                    *)
(***************************************************************************)
EXTENDS AsioSocket, Protocol, SequenceTheorems, TLAPS

(* An open socket has a deadline; one that is due has passed, and one that *)
(* was acted upon is gone until the next operation.                        *)
DeadlineOK ==
    /\ left = 0 => passed
    /\ timeouted => passed /\ left = Infinite
    /\ open => left # Infinite

SockInv ==
    /\ SockTypeOK
    /\ OneWait
    /\ DeadlineOK
    /\ op = "pending" => open

LEMMA InitSock == SockInit => SockInv
<1> SUFFICES ASSUME SockInit PROVE SockInv
  OBVIOUS
<1>1. /\ alive \in BOOLEAN /\ open \in BOOLEAN
      /\ timeouted \in BOOLEAN /\ passed \in BOOLEAN
  BY Zenon DEF SockInit
<1>2. ~alive /\ ~open /\ ~timeouted
  BY Zenon DEF SockInit
<1>3. left = Infinite /\ waits = 0 /\ fired = 0 /\ op = "none"
  BY Zenon DEF SockInit
<1> QED
  BY <1>1, <1>2, <1>3 DEF SockInv, SockTypeOK, OneWait, DeadlineOK, Infinite

(* An operation starts: one deadline handler is left, and it is ready.     *)
LEMMA ConnectKeeps ==
  ASSUME SockInv, NEW timeout \in Nat, Connect(timeout)
  PROVE  SockInv'
<1>1. /\ alive' \in BOOLEAN /\ open' \in BOOLEAN
      /\ timeouted' \in BOOLEAN /\ passed' \in BOOLEAN
  BY Zenon DEF Connect
<1>2. alive' /\ open' /\ ~timeouted' /\ (passed' <=> timeout = 0)
  BY Zenon DEF Connect
<1>3. left' = timeout /\ waits' = 0 /\ fired' = 1 /\ op' = "pending"
  BY Zenon DEF Connect
<1> QED
  BY <1>1, <1>2, <1>3 DEF SockInv, SockTypeOK, OneWait, DeadlineOK, Infinite

LEMMA BeginKeeps ==
  ASSUME SockInv, NEW timeout \in Nat, Begin(timeout) \/ BeginWithInput(timeout)
  PROVE  SockInv'
<1>1. /\ UNCHANGED <<alive, open>>
      /\ timeouted' = FALSE
      /\ passed' = (timeout = 0)
  BY Zenon DEF Begin, BeginWithInput, SetDeadline, socket
<1>2. /\ alive' \in BOOLEAN /\ open' \in BOOLEAN
      /\ timeouted' \in BOOLEAN /\ passed' \in BOOLEAN
  BY <1>1, Zenon DEF SockInv, SockTypeOK
<1>3. /\ alive' <=> alive
      /\ open' <=> open
      /\ ~timeouted'
      /\ passed' <=> timeout = 0
  BY <1>1, Zenon
<1>4. left' = timeout /\ waits' = 0 /\ fired' = fired + waits
  BY Zenon DEF Begin, BeginWithInput, SetDeadline
<1>5. \/ op' = "pending" /\ open
      \/ op' \in {"failed", "done"}
  BY Zenon DEF Begin, BeginWithInput, StartCall
<1> QED
  BY <1>2, <1>3, <1>4, <1>5 DEF SockInv, SockTypeOK, OneWait, DeadlineOK, Infinite

(* The one handler that is left goes with the connection.                  *)
LEMMA DestroyKeeps ==
  ASSUME SockInv, Destroy
  PROVE  SockInv'
<1>1. UNCHANGED passed /\ alive' = FALSE /\ open' = FALSE /\ timeouted' = FALSE
  BY Zenon DEF Destroy
<1>2. /\ alive' \in BOOLEAN /\ open' \in BOOLEAN
      /\ timeouted' \in BOOLEAN /\ passed' \in BOOLEAN
  BY <1>1, Zenon DEF SockInv, SockTypeOK
<1>3. ~alive' /\ ~open' /\ ~timeouted'
  BY <1>1, Zenon
<1>4. left' = Infinite /\ waits' = 0 /\ fired' = 0 /\ op' = "none"
  BY Zenon DEF Destroy
<1> QED
  BY <1>2, <1>3, <1>4 DEF SockInv, SockTypeOK, OneWait, DeadlineOK, Infinite

(* Where the deadline has passed the handler closes the socket and fails   *)
(* the call with it; in any case it renews the wait it was called for.     *)
LEMMA HandleDeadlineKeeps ==
  ASSUME SockInv, HandleDeadline
  PROVE  SockInv'
<1>1. UNCHANGED <<alive, passed>> /\ fired > 0
  BY Zenon DEF HandleDeadline
<1>2. CASE left = 0
  <2>1. open' = FALSE /\ timeouted' = TRUE
    BY <1>2, Zenon DEF HandleDeadline
  <2>2. /\ alive' \in BOOLEAN /\ open' \in BOOLEAN
        /\ timeouted' \in BOOLEAN /\ passed' \in BOOLEAN
    BY <1>1, <2>1, Zenon DEF SockInv, SockTypeOK
  <2>3. (alive' <=> alive) /\ (passed' <=> passed) /\ ~open' /\ timeouted'
    BY <1>1, <2>1, Zenon
  <2>4. left' = Infinite /\ waits' = 1 /\ fired' = fired - 1 + waits
    BY <1>2, Zenon DEF HandleDeadline
  <2>5. op' = IF op = "pending" THEN "failed" ELSE op
    BY <1>2, Zenon DEF HandleDeadline
  <2> QED
    BY <1>1, <1>2, <2>2, <2>3, <2>4, <2>5
       DEF SockInv, SockTypeOK, OneWait, DeadlineOK, Infinite
<1>3. CASE left # 0
  <2>1. UNCHANGED <<open, op, left, timeouted>>
    BY <1>3, Zenon DEF HandleDeadline
  <2>2. /\ alive' \in BOOLEAN /\ open' \in BOOLEAN
        /\ timeouted' \in BOOLEAN /\ passed' \in BOOLEAN
    BY <1>1, <2>1, Zenon DEF SockInv, SockTypeOK
  <2>3. /\ alive' <=> alive
        /\ passed' <=> passed
        /\ open' <=> open
        /\ timeouted' <=> timeouted
    BY <1>1, <2>1, Zenon
  <2>4. waits' = waits + 1 /\ fired' = fired - 1
    BY <1>3, Zenon DEF HandleDeadline
  <2> QED
    BY <1>1, <1>3, <2>1, <2>2, <2>3, <2>4
       DEF SockInv, SockTypeOK, OneWait, DeadlineOK, Infinite
<1> QED BY <1>2, <1>3

(* The wait that is over becomes a handler that is ready.                  *)
LEMMA DeadlinePassesKeeps ==
  ASSUME SockInv, DeadlinePasses
  PROVE  SockInv'
<1>1. UNCHANGED <<alive, open, left, timeouted, passed, op>>
  BY Zenon DEF DeadlinePasses, socket
<1>2. waits > 0 /\ waits' = waits - 1 /\ fired' = fired + 1
  BY Zenon DEF DeadlinePasses
<1>3. SockTypeOK'
  BY <1>1, <1>2 DEF SockInv, SockTypeOK
<1>4. OneWait'
  BY <1>1, <1>2 DEF SockInv, SockTypeOK, OneWait
<1> QED
  BY <1>1, <1>3, <1>4 DEF SockInv, DeadlineOK, Infinite

LEMMA TickKeeps ==
  ASSUME SockInv, Tick
  PROVE  SockInv'
<1>1. UNCHANGED <<alive, open, timeouted, waits, fired, op>>
  BY Zenon DEF Tick, socket
<1>2. left > 0 /\ left' = left - 1
  BY Zenon DEF Tick
<1>3. passed' \in BOOLEAN /\ (passed' <=> left = 1)
  BY Zenon DEF Tick
<1>4. left' \in Nat /\ (left' = 0 => passed')
  BY <1>2, <1>3 DEF SockInv, SockTypeOK, Infinite
<1>5. ~timeouted
  BY <1>2 DEF SockInv, DeadlineOK, Infinite
<1> QED
  BY <1>1, <1>3, <1>4, <1>5
     DEF SockInv, SockTypeOK, OneWait, DeadlineOK, Infinite

(* What only the call's handler does leaves deadline and socket alone.     *)
LEMMA CallKeeps ==
  ASSUME SockInv, \/ GoOn
                  \/ End
                  \/ \E how \in {"partial", "done", "failed"} : CallBecomes(how)
                  \/ UNCHANGED sock
  PROVE  SockInv'
<1>1. UNCHANGED <<alive, open, left, timeouted, waits, fired, passed>>
  BY Zenon DEF GoOn, End, CallBecomes, sock, socket, deadline
<1>2. \/ op' = "pending" /\ open
      \/ op' \in {"none", "partial", "done", "failed"}
      \/ op' = op
  BY Zenon DEF GoOn, StartCall, End, CallBecomes, sock
<1>3. SockTypeOK'
  BY <1>1, <1>2, Zenon DEF SockInv, SockTypeOK
<1>4. OneWait'
  BY <1>1 DEF SockInv, OneWait
<1>5. DeadlineOK'
  BY <1>1 DEF SockInv, DeadlineOK, Infinite
<1>6. op' = "pending" => open'
  BY <1>1, <1>2 DEF SockInv
<1> QED BY <1>3, <1>4, <1>5, <1>6 DEF SockInv

LEMMA StepSock ==
  ASSUME SockInv, [SockNext]_sock
  PROVE  SockInv'
  BY ConnectKeeps, BeginKeeps, DestroyKeeps, HandleDeadlineKeeps, CallKeeps,
     DeadlinePassesKeeps, TickKeeps, Zenon DEF SockNext

(* What the runs check of the socket holds of it alone.                    *)
LEMMA InvMeans ==
  ASSUME SockInv
  PROVE  OneWait /\ TimeoutMeansDeadline /\ PendingHasDeadline
  BY Zenon DEF SockInv, DeadlineOK, TimeoutMeansDeadline, PendingHasDeadline

(* However timers, completions and operations follow each other, a living  *)
(* connection has one deadline handler, a timeout is one of this very      *)
(* operation and no call is left without a deadline: of anything that      *)
(* uses the socket by the operations of AsioSocket.                        *)
THEOREM SocketSafe ==
  SockSpec => [](OneWait /\ TimeoutMeansDeadline /\ PendingHasDeadline)
<1>1. SockInv /\ [SockNext]_sock => SockInv'
  BY StepSock
<1>2. SockInv => OneWait /\ TimeoutMeansDeadline /\ PendingHasDeadline
  BY InvMeans
<1> QED BY <1>1, <1>2, InitSock, PTL DEF SockSpec

-----------------------------------------------------------------------------
(* Buffers                                                                 *)

LEMMA LenIs ==
    ASSUME NEW S, NEW s \in Seq(S)
    PROVE  /\ Len(s) \in Nat
           /\ s = <<>> <=> Len(s) = 0
           /\ DOMAIN s = 1 .. Len(s)
           /\ \A i \in 1 .. Len(s) : s[i] \in S
  BY LenProperties, EmptySeq

LEMMA Consumed ==
    ASSUME NEW S, NEW s \in Seq(S), NEW n \in 0 .. Len(s)
    PROVE  /\ SubSeq(s, n + 1, Len(s)) \in Seq(S)
           /\ Len(SubSeq(s, n + 1, Len(s))) = Len(s) - n
           /\ n = Len(s) => SubSeq(s, n + 1, Len(s)) = <<>>
           /\ n # Len(s) => SubSeq(s, n + 1, Len(s))[1] = s[n + 1]
<1> DEFINE r == SubSeq(s, n + 1, Len(s))
<1>1. Len(s) \in Nat /\ \A i \in n + 1 .. Len(s) : s[i] \in S
  BY LenIs
<1>2. n + 1 \in Int /\ Len(s) \in Int
  BY <1>1
<1>3. r \in Seq(S) /\ Len(r) = IF n + 1 <= Len(s) THEN Len(s) - (n + 1) + 1 ELSE 0
  BY <1>1, <1>2, SubSeqProperties
<1>4. \A i \in 1 .. Len(s) - (n + 1) + 1 : r[i] = s[(n + 1) + i - 1]
  BY <1>1, <1>2, SubSeqProperties
<1> HIDE DEF r
<1>5. Len(r) = Len(s) - n
  BY <1>1, <1>3
<1>6. n # Len(s) => r[1] = s[n + 1]
  BY <1>1, <1>4
<1>7. n = Len(s) => r = <<>>
  BY <1>3, <1>5, LenIs
<1> QED BY <1>3, <1>5, <1>6, <1>7 DEF r

LEMMA Front ==
    ASSUME NEW S, NEW s \in Seq(S), NEW n \in 1 .. Len(s)
    PROVE  /\ SubSeq(s, 1, n) \in Seq(S)
           /\ Len(SubSeq(s, 1, n)) = n
           /\ SubSeq(s, 1, n)[1] = s[1]
<1> DEFINE r == SubSeq(s, 1, n)
<1>1. Len(s) \in Nat /\ \A i \in 1 .. n : s[i] \in S
  BY LenIs
<1>2. r \in Seq(S) /\ Len(r) = IF 1 <= n THEN n - 1 + 1 ELSE 0
  BY <1>1, SubSeqProperties
<1>3. \A i \in 1 .. n - 1 + 1 : r[i] = s[1 + i - 1]
  BY <1>1, SubSeqProperties
<1> HIDE DEF r
<1>4. Len(r) = n /\ r[1] = s[1]
  BY <1>1, <1>2, <1>3
<1> QED BY <1>2, <1>4 DEF r

LEMMA Joined ==
    ASSUME NEW S, NEW s \in Seq(S), NEW t \in Seq(S)
    PROVE  /\ s \o t \in Seq(S)
           /\ Len(s \o t) = Len(s) + Len(t)
           /\ s # <<>> => (s \o t)[1] = s[1]
           /\ s = <<>> => s \o t = t
<1> DEFINE r == s \o t
<1>1. Len(s) \in Nat /\ Len(t) \in Nat /\ (s # <<>> => Len(s) > 0)
  BY LenIs
<1>2. r \in Seq(S) /\ Len(r) = Len(s) + Len(t)
  BY ConcatProperties
<1>3. \A i \in 1 .. Len(s) + Len(t) :
         r[i] = IF i <= Len(s) THEN s[i] ELSE t[i - Len(s)]
  BY ConcatProperties
<1>4. s = <<>> => r = t
  BY ConcatEmptySeq
<1> HIDE DEF r
<1>5. s # <<>> => r[1] = s[1]
  BY <1>1, <1>3
<1> QED BY <1>2, <1>4, <1>5 DEF r

-----------------------------------------------------------------------------
(* Responses                                                               *)

Words ==
    {"\r\n", "VALUE", "END", "NUMBER", "ERROR", "SERVER_ERROR", "CLIENT_ERROR",
     "STORED", "NOT_STORED", "EXISTS", "NOT_FOUND", "TOUCHED", "DELETED", "OK"}

Statuses ==
    {"ok", "not_found", "exists", "not_stored", "value_too_large",
     "invalid_arguments", "unknown_command"}

Units ==
    [kind : {"line"}, word : Words, bytes : Nat \cup {NotANumber}]
    \cup [kind : {"head"}, magic : BOOLEAN, status : Statuses,
          extras : Nat, body : Nat]
    \cup [kind : {"field"}, name : {"datum", "flags", "number", "message"}]

(* What a code makes the client tell is what became of the command.        *)
Tells(cmd, code, outcome) ==
    /\ Told(cmd, code) \in {"yes", "no", "throws"}
    /\ Told(cmd, code) = "yes" <=> outcome = "done"
    /\ cmd \notin {"replace", "flush_all"} =>
          (Told(cmd, code) = "no" <=> outcome \in {"missing", "present"})

(* What a header means for a response that goes on with rest units.        *)
Means(cmd, outcome, header, rest) ==
    /\ header.code \in DOMAIN Value
    /\ header.bytes \in Nat
    /\ header.bytes <= rest
    /\ Understood(header.code) => header.bytes = rest
    /\ Tells(cmd, header.code, outcome)

(* A response that is read to its end, in its own words: its first unit is *)
(* a header and says how many units follow, and what the server did.       *)
Reply(proto, cmd, outcome, reply) ==
    /\ reply \in Seq(Units)
    /\ Len(reply) > 0
    /\ proto = "txt" => /\ reply[1].kind = "line"
                        /\ reply[1].word = "\r\n" => outcome = "garbled"
    /\ Means(cmd, outcome, DeserializeHeader(proto, cmd, reply[1]), Len(reply) - 1)

(* The units of a response as they travel, each with its request.          *)
Pieces(requests) == [of : requests, unit : Units]

LEMMA StampIs ==
    ASSUME NEW r, NEW units \in Seq(Units)
    PROVE  LET stamped == [i \in DOMAIN units |-> [of |-> r, unit |-> units[i]]]
           IN  /\ stamped \in Seq(Pieces({r}))
               /\ Len(stamped) = Len(units)
               /\ units # <<>> => stamped[1].unit = units[1]
<1> DEFINE stamped == [i \in 1 .. Len(units) |-> [of |-> r, unit |-> units[i]]]
<1>1. /\ Len(units) \in Nat /\ DOMAIN units = 1 .. Len(units)
      /\ \A i \in 1 .. Len(units) : units[i] \in Units
      /\ units = <<>> <=> Len(units) = 0
  BY LenIs
<1>2. \A i \in 1 .. Len(units) : [of |-> r, unit |-> units[i]] \in Pieces({r})
  BY <1>1 DEF Pieces
<1> DEFINE S == Pieces({r})
<1> HIDE DEF S
<1>3. stamped \in Seq(S)
  <2>1. stamped \in [1 .. Len(units) -> S]
    BY <1>2 DEF S
  <2> HIDE DEF stamped
  <2> QED BY <1>1, <2>1, SeqDef
<1>4. DOMAIN stamped = 1 .. Len(units)
  OBVIOUS
<1>5. Len(stamped) = Len(units)
  BY <1>1, <1>3, <1>4, LenIs
<1>6. units # <<>> => stamped[1].unit = units[1]
  BY <1>1
<1> QED BY <1>1, <1>3, <1>5, <1>6 DEF S

-----------------------------------------------------------------------------
(* What the client tells for a code                                        *)

LEMMA Codes ==
    /\ {"ok", "stored", "deleted", "touched", "not_stored", "exists", "not_found",
        "error", "client_error", "server_error", "empty", "syntax", "invalid",
        "unrecognized"} = DOMAIN Value
    /\ \A code \in DOMAIN Value :
          Understood(code) <=> code \in {"ok", "stored", "deleted", "touched",
                                         "not_stored", "exists", "not_found"}
  BY DEF Value, Understood

LEMMA DoneTold ==
    ASSUME NEW cmd \in Commands, NEW code \in DOMAIN Value,
           \/ cmd \in Retrieve \cup Numeric \cup {"flush_all"} /\ code = "ok"
           \/ cmd \in Storage /\ code = "stored"
           \/ cmd = "touch" /\ code = "touched"
           \/ cmd = "del" /\ code = "deleted"
    PROVE  Tells(cmd, code, "done")
  BY DEF Tells, Told, YesCodes, NoCodes, Commands, Storage, Retrieve, Numeric

LEMMA ErrorTold ==
    ASSUME NEW cmd \in Commands, NEW code \in DOMAIN Value, ~Understood(code),
           NEW outcome \in {"refused", "garbled"}
    PROVE  Tells(cmd, code, outcome)
  BY DEF Tells, Told, YesCodes, NoCodes, Commands, Storage, Retrieve, Numeric,
         Value, Understood

LEMMA AbsenceTold ==
    ASSUME NEW cmd \in Commands \ {"set", "add", "flush_all"},
           NEW code \in {"not_found", "not_stored"},
           cmd \in {"append", "prepend"} => code = "not_stored",
           cmd \in Retrieve \cup Numeric \cup {"cas", "touch", "del"} =>
              code = "not_found"
    PROVE  Tells(cmd, code, "missing")
  BY DEF Tells, Told, YesCodes, NoCodes, Commands, Storage, Retrieve, Numeric

LEMMA PresenceTold ==
    ASSUME NEW code \in {"exists", "not_stored"}
    PROVE  Tells("add", code, "present")
  BY DEF Tells, Told, YesCodes, NoCodes, Commands, Storage, Retrieve, Numeric

LEMMA ChangeTold == Tells("cas", "exists", "changed")
  BY DEF Tells, Told, YesCodes, NoCodes, Commands, Storage, Retrieve, Numeric

-----------------------------------------------------------------------------
(* The units of a response                                                 *)

LEMMA LineIs ==
    ASSUME NEW word \in Words, NEW n \in Nat \cup {NotANumber}
    PROVE  /\ Line(word, n) \in Units
           /\ Line(word, n).kind = "line"
           /\ Line(word, n).word = word
           /\ Line(word, n).bytes = n
  BY DEF Line, Units

LEMMA HeadIs ==
    ASSUME NEW status \in Statuses, NEW extras \in Nat, NEW size \in Nat
    PROVE  LET head == HeadOf(status, extras, size)
           IN  /\ head \in Units
               /\ head.kind = "head" /\ head.magic
               /\ head.status = status /\ head.extras = extras /\ head.body = size
  BY DEF HeadOf, Units

LEMMA FieldIs ==
    ASSUME NEW name \in {"datum", "flags", "number", "message"}
    PROVE  Field(name) \in Units
  BY DEF Field, Units

LEMMA DatumIs ==
    ASSUME NEW n \in Nat
    PROVE  Datum(n) \in Seq(Units) /\ Len(Datum(n)) = n
<1>1. \A i \in 1 .. n : Field("datum") \in Units
  BY FieldIs
<1>2. Datum(n) \in Seq(Units)
  BY <1>1, IsASeq DEF Datum
<1>3. DOMAIN Datum(n) = 1 .. n
  BY DEF Datum
<1> QED BY <1>2, <1>3, LenProperties

LEMMA FooterIs == Footer \in Seq(Units) /\ Len(Footer) = 2
<1>1. Line("\r\n", 0) \in Units /\ Line("END", 0) \in Units
  BY LineIs DEF Words
<1> QED BY <1>1 DEF Footer

(* A response that begins with a unit.                                     *)
LEMMA BeginsWith ==
    ASSUME NEW unit \in Units, NEW rest \in Seq(Units)
    PROVE  LET whole == <<unit>> \o rest
           IN  /\ whole \in Seq(Units)
               /\ Len(whole) = 1 + Len(rest)
               /\ whole[1] = unit
  BY ConcatProperties

-----------------------------------------------------------------------------
(* Responses of the text protocol                                          *)

(* The words that each kind of command has for itself.                     *)
LEMMA WordsOf ==
    ASSUME NEW cmd \in Commands
    PROVE  /\ cmd \in Retrieve => TxtWords(cmd) = [END |-> "not_found"]
           /\ cmd \in Storage =>
                 TxtWords(cmd) = [EXISTS |-> "exists", NOT_FOUND |-> "not_found",
                                  NOT_STORED |-> "not_stored", STORED |-> "stored"]
           /\ cmd \in Numeric \cup {"touch"} =>
                 TxtWords(cmd) = [TOUCHED |-> "touched", NOT_FOUND |-> "not_found",
                                  NUMBER |-> "ok"]
           /\ cmd = "del" =>
                 TxtWords(cmd) = [DELETED |-> "deleted", NOT_FOUND |-> "not_found"]
           /\ cmd = "flush_all" => TxtWords(cmd) = [OK |-> "ok"]
           /\ \/ cmd \in Retrieve
              \/ cmd \in Storage
              \/ cmd \in Numeric \cup {"touch"}
              \/ cmd \in {"del", "flush_all"}
  BY DEF TxtWords, Retrieve, Storage, Numeric, Commands

(* The words of an answer are those the command knows.                     *)
LEMMA WordsKnown ==
    ASSUME NEW cmd \in Commands
    PROVE  /\ TxtCode(cmd, "ERROR") = "error"
           /\ TxtCode(cmd, "CLIENT_ERROR") = "client_error"
           /\ TxtCode(cmd, "SERVER_ERROR") = "server_error"
           /\ TxtCode(cmd, "\r\n") = "unrecognized"
           /\ TxtCode(cmd, "") = "empty"
           /\ cmd \notin Retrieve => TxtCode(cmd, "VALUE") = "unrecognized"
           /\ cmd \in Storage => /\ TxtCode(cmd, "STORED") = "stored"
                                 /\ TxtCode(cmd, "NOT_STORED") = "not_stored"
                                 /\ TxtCode(cmd, "EXISTS") = "exists"
           /\ cmd \in Retrieve => TxtCode(cmd, "END") = "not_found"
           /\ cmd \in Storage \cup Numeric \cup {"touch", "del"} =>
                 TxtCode(cmd, "NOT_FOUND") = "not_found"
           /\ cmd \in Numeric => TxtCode(cmd, "NUMBER") = "ok"
           /\ cmd = "touch" => TxtCode(cmd, "TOUCHED") = "touched"
           /\ cmd = "del" => TxtCode(cmd, "DELETED") = "deleted"
           /\ cmd = "flush_all" => TxtCode(cmd, "OK") = "ok"
<1>1. cmd \in Retrieve => cmd \notin Storage \cup Numeric \cup {"touch", "del"}
  BY DEF Retrieve, Storage, Numeric
<1> QED BY <1>1, WordsOf DEF TxtCode, TxtGeneral

(* A single line.                                                          *)
LEMMA LineReply ==
    ASSUME NEW cmd, NEW outcome, NEW word \in Words \ {"VALUE"},
           NEW code \in DOMAIN Value, code = TxtCode(cmd, word),
           word = "\r\n" => outcome = "garbled",
           Tells(cmd, code, outcome)
    PROVE  Reply("txt", cmd, outcome, <<Line(word, 0)>>)
<1> DEFINE line == Line(word, 0)
<1>1. line \in Units /\ line.kind = "line" /\ line.word = word
  BY LineIs
<1>2. DeserializeHeader("txt", cmd, line) = Parsed(code, 0)
  BY <1>1 DEF DeserializeHeader, TxtHeader
<1>3. Means(cmd, outcome, Parsed(code, 0), 0)
  BY DEF Means, Parsed
<1> HIDE DEF line
<1>4. <<line>> \in Seq(Units) /\ Len(<<line>>) = 1 /\ <<line>>[1] = line
  BY <1>1
<1>5. Reply("txt", cmd, outcome, <<line>>)
  BY <1>1, <1>2, <1>3, <1>4 DEF Reply
<1> QED BY <1>5 DEF line

(* A value has as many units as its line says, and a footer.               *)
LEMMA ValueReply ==
    ASSUME NEW cmd \in Retrieve, NEW n \in Nat
    PROVE  Reply("txt", cmd, "done", <<Line("VALUE", n)>> \o Datum(n) \o Footer)
<1> DEFINE line == Line("VALUE", n)
           value == <<line>> \o Datum(n)
           reply == value \o Footer
<1>1. line \in Units /\ line.kind = "line" /\ line.word = "VALUE" /\ line.bytes = n
  BY LineIs DEF Words
<1>2. DeserializeHeader("txt", cmd, line) = Parsed("ok", n + 2)
  BY <1>1, FooterIs DEF DeserializeHeader, TxtHeader, TxtValue, FooterSize,
                        NotANumber
<1>3. Means(cmd, "done", Parsed("ok", n + 2), n + 2)
  BY DoneTold, Codes DEF Means, Parsed, Commands
<1> HIDE DEF line
<1>4. value \in Seq(Units) /\ Len(value) = 1 + n /\ value[1] = line
  BY <1>1, DatumIs, BeginsWith
<1> HIDE DEF value
<1>5. reply \in Seq(Units) /\ Len(reply) = n + 3
  <2>1. reply \in Seq(Units)
    BY <1>4, FooterIs, ConcatProperties
  <2>2. Len(reply) = Len(value) + Len(Footer)
    BY <1>4, FooterIs, ConcatProperties
  <2> QED BY <2>1, <2>2, <1>4, FooterIs
<1>6. reply[1] = value[1]
  BY <1>4, FooterIs, ConcatProperties
<1> HIDE DEF reply
<1>7. Reply("txt", cmd, "done", reply)
  BY <1>1, <1>2, <1>3, <1>4, <1>5, <1>6 DEF Reply
<1> QED BY <1>7 DEF reply, value, line

(* An error, whatever follows it.                                          *)
LEMMA ErrorReply ==
    ASSUME NEW cmd \in Commands, NEW word \in Words \ {"\r\n"}, NEW bytes \in Nat \cup {NotANumber},
           NEW rest \in Seq(Units),
           NEW outcome \in {"refused", "garbled"},
           \/ word = "CLIENT_ERROR"
           \/ word = "VALUE" /\ bytes = NotANumber
    PROVE  Reply("txt", cmd, outcome, <<Line(word, bytes)>> \o rest)
<1> DEFINE line == Line(word, bytes)
           reply == <<line>> \o rest
           header == DeserializeHeader("txt", cmd, line)
<1>1. line \in Units /\ line.kind = "line" /\ line.word = word /\ line.bytes = bytes
  BY LineIs
<1>2. \E code \in {"client_error", "syntax", "unrecognized"} :
         header = Parsed(code, 0)
  BY <1>1, WordsKnown DEF DeserializeHeader, TxtHeader, TxtValue
<1>3. Means(cmd, outcome, header, Len(rest))
  BY <1>2, Codes, ErrorTold DEF Means, Parsed
<1> HIDE DEF line
<1>4. reply \in Seq(Units) /\ Len(reply) = 1 + Len(rest) /\ reply[1] = line
      /\ Len(rest) \in Nat
  BY <1>1, BeginsWith
<1> HIDE DEF reply
<1>5. Reply("txt", cmd, outcome, reply)
  BY <1>1, <1>3, <1>4 DEF Reply
<1> QED BY <1>5 DEF reply, line

LEMMA TxtReplyIs ==
    ASSUME NEW cmd \in Commands, NEW outcome \in Outcomes(cmd), NEW n \in Nat,
           NEW reply \in TxtReplies(cmd, outcome, n)
    PROVE  Reply("txt", cmd, outcome, reply)
<1>1. CASE outcome = "done" /\ cmd \in Retrieve
  <2>1. reply = <<Line("VALUE", n)>> \o Datum(n) \o Footer
    BY <1>1 DEF TxtReplies
  <2> QED BY <1>1, <2>1, ValueReply
<1>2. CASE outcome = "done" /\ cmd \notin Retrieve
  <2> DEFINE word == TxtDone(cmd)
             code == TxtCode(cmd, word)
  <2>1. reply = <<Line(word, 0)>>
    BY <1>2 DEF TxtReplies
  <2>2. \/ cmd \in Storage /\ word = "STORED"
        \/ cmd \in Numeric /\ word = "NUMBER"
        \/ cmd = "touch" /\ word = "TOUCHED"
        \/ cmd = "del" /\ word = "DELETED"
        \/ cmd = "flush_all" /\ word = "OK"
    BY <1>2 DEF TxtDone, Commands, Retrieve, Storage, Numeric
  <2>3. word \in Words \ {"VALUE", "\r\n"}
    BY <2>2 DEF Words
  <2>4. code \in DOMAIN Value /\ Tells(cmd, code, "done")
    BY <1>2, <2>2, WordsKnown, Codes, DoneTold
  <2> QED BY <1>2, <2>1, <2>3, <2>4, LineReply
<1>3. CASE outcome = "missing"
  <2> DEFINE word == TxtMissing(cmd)
             code == TxtCode(cmd, word)
  <2>1. reply = <<Line(word, 0)>>
    BY <1>3 DEF TxtReplies
  <2>2. cmd \notin {"set", "add", "flush_all"}
    BY <1>3 DEF Outcomes
  <2>3. \/ cmd \in Retrieve /\ word = "END" /\ code = "not_found"
        \/ /\ cmd \in {"replace", "append", "prepend"}
           /\ word = "NOT_STORED" /\ code = "not_stored"
        \/ /\ cmd \in Numeric \cup {"cas", "touch", "del"}
           /\ word = "NOT_FOUND" /\ code = "not_found"
    BY <2>2, WordsKnown DEF TxtMissing, Commands, Retrieve, Storage, Numeric
  <2>4. word \in Words \ {"VALUE", "\r\n"}
    BY <2>3 DEF Words
  <2>5. code \in DOMAIN Value /\ Tells(cmd, code, "missing")
    BY <2>2, <2>3, Codes, AbsenceTold DEF Retrieve, Numeric
  <2> QED BY <1>3, <2>1, <2>4, <2>5, LineReply
<1>4. CASE outcome = "present"
  <2>1. cmd = "add" /\ reply = <<Line("NOT_STORED", 0)>>
    BY <1>4 DEF TxtReplies, Outcomes
  <2>2. TxtCode(cmd, "NOT_STORED") = "not_stored"
    BY <2>1, WordsKnown DEF Storage
  <2>3. "NOT_STORED" \in Words \ {"VALUE", "\r\n"} /\ "not_stored" \in DOMAIN Value
    BY Codes DEF Words
  <2>4. Tells(cmd, "not_stored", "present")
    BY <2>1, PresenceTold
  <2> QED BY <1>4, <2>1, <2>2, <2>3, <2>4, LineReply
<1>5. CASE outcome = "changed"
  <2>1. cmd = "cas" /\ reply = <<Line("EXISTS", 0)>>
    BY <1>5 DEF TxtReplies, Outcomes
  <2>2. TxtCode(cmd, "EXISTS") = "exists"
    BY <2>1, WordsKnown DEF Storage
  <2>3. "EXISTS" \in Words \ {"VALUE", "\r\n"} /\ "exists" \in DOMAIN Value
    BY Codes DEF Words
  <2>4. Tells(cmd, "exists", "changed")
    BY <2>1, ChangeTold
  <2> QED BY <1>5, <2>1, <2>2, <2>3, <2>4, LineReply
<1>6. CASE outcome = "refused"
  <2>1. reply \in {<<Line("ERROR", 0)>>, <<Line("SERVER_ERROR", 0)>>,
                   <<Line("CLIENT_ERROR", 0), Line("ERROR", 0)>>}
    BY <1>6 DEF TxtReplies
  <2>2. ASSUME NEW word \in {"ERROR", "SERVER_ERROR"}
        PROVE  Reply("txt", cmd, outcome, <<Line(word, 0)>>)
    <3> DEFINE code == TxtCode(cmd, word)
    <3>1. code \in {"error", "server_error"}
      BY WordsKnown
    <3>2. code \in DOMAIN Value /\ Tells(cmd, code, outcome)
      BY <1>6, <3>1, Codes, ErrorTold
    <3> QED BY <3>2, LineReply DEF Words
  <2>3. CASE reply = <<Line("CLIENT_ERROR", 0), Line("ERROR", 0)>>
    <3> DEFINE rest == <<Line("ERROR", 0)>>
    <3>1. rest \in Seq(Units)
      BY LineIs DEF Words
    <3>2. reply = <<Line("CLIENT_ERROR", 0)>> \o rest
      BY <2>3
    <3> HIDE DEF rest
    <3> QED BY <1>6, <3>1, <3>2, ErrorReply DEF Words
  <2> QED BY <2>1, <2>2, <2>3
<1>7. CASE outcome = "garbled"
  <2>1. reply \in {<<Line("\r\n", 0)>>, <<Line("VALUE", NotANumber)>> \o Datum(n)}
    BY <1>7 DEF TxtReplies
  <2>2. Reply("txt", cmd, outcome, <<Line("\r\n", 0)>>)
    <3>1. TxtCode(cmd, "\r\n") = "unrecognized"
      BY WordsKnown
    <3>2. "unrecognized" \in DOMAIN Value /\ Tells(cmd, "unrecognized", outcome)
      BY <1>7, Codes, ErrorTold
    <3> QED BY <1>7, <3>1, <3>2, LineReply DEF Words
  <2>3. Reply("txt", cmd, outcome, <<Line("VALUE", NotANumber)>> \o Datum(n))
    BY <1>7, DatumIs, ErrorReply DEF Words, NotANumber
  <2> QED BY <2>1, <2>2, <2>3
<1> QED
  BY <1>1, <1>2, <1>3, <1>4, <1>5, <1>6, <1>7 DEF Outcomes

-----------------------------------------------------------------------------
(* Responses of the binary protocol: a head, and what it announces.        *)

HeadAnd(head, size, reply) ==
    reply \in Seq(Units) /\ Len(reply) = 1 + size /\ reply[1] = head

LEMMA HeadAndIs ==
    ASSUME NEW head \in Units, NEW n \in Nat,
           NEW name \in {"datum", "flags", "number", "message"}
    PROVE  /\ HeadAnd(head, 0, <<head>>)
           /\ HeadAnd(head, 1, <<head, Field(name)>>)
           /\ HeadAnd(head, n, <<head>> \o Datum(n))
           /\ HeadAnd(head, 1 + n, <<head, Field(name)>> \o Datum(n))
<1> DEFINE field == Field(name)
           two == <<head, field>>
           datum == Datum(n)
<1>1. field \in Units
  BY FieldIs
<1> HIDE DEF field
<1>2. two \in Seq(Units) /\ Len(two) = 2 /\ two[1] = head
  BY <1>1
<1>3. datum \in Seq(Units) /\ Len(datum) = n
  BY DatumIs
<1> HIDE DEF two, datum
<1>4. HeadAnd(head, 0, <<head>>) /\ HeadAnd(head, 1, two)
  BY <1>2 DEF HeadAnd
<1>5. HeadAnd(head, n, <<head>> \o datum)
  BY <1>3, BeginsWith DEF HeadAnd
<1>6. HeadAnd(head, 1 + n, two \o datum)
  <2>1. two \o datum \in Seq(Units)
    BY <1>2, <1>3, ConcatProperties
  <2>2. Len(two \o datum) = Len(two) + Len(datum)
    BY <1>2, <1>3, ConcatProperties
  <2>3. (two \o datum)[1] = two[1]
    BY <1>2, <1>3, ConcatProperties
  <2> QED BY <2>1, <2>2, <2>3, <1>2, <1>3 DEF HeadAnd
<1> QED BY <1>4, <1>5, <1>6 DEF two, datum, field

LEMMA HeadReply ==
    ASSUME NEW cmd, NEW outcome, NEW head, NEW size \in Nat, NEW reply,
           HeadAnd(head, size, reply),
           Means(cmd, outcome, BinHeader(cmd, head), size)
    PROVE  Reply("bin", cmd, outcome, reply)
  BY DEF HeadAnd, Reply, DeserializeHeader

(* A failure tells the same with its message and without.                  *)
LEMMA FailureReply ==
    ASSUME NEW cmd, NEW outcome, NEW status \in Statuses \ {"ok"},
           Tells(cmd, Translate(status), outcome),
           NEW reply \in BinFailure(status)
    PROVE  Reply("bin", cmd, outcome, reply)
<1>1. Translate(status) \in DOMAIN Value
  BY Codes DEF Translate
<1>2. ASSUME NEW size \in {0, 1}
      PROVE  /\ HeadOf(status, 0, size) \in Units
             /\ Means(cmd, outcome, BinHeader(cmd, HeadOf(status, 0, size)), size)
  <2>1. BinHeader(cmd, HeadOf(status, 0, size)) = Parsed(Translate(status), size)
    BY HeadIs DEF BinHeader
  <2> QED BY <1>1, <2>1, HeadIs DEF Means, Parsed
<1>3. CASE reply = <<HeadOf(status, 0, 0)>>
  BY <1>2, <1>3, HeadAndIs, HeadReply
<1>4. CASE reply = <<HeadOf(status, 0, 1), Field("message")>>
  BY <1>2, <1>4, HeadAndIs, HeadReply
<1> QED BY <1>3, <1>4 DEF BinFailure

(* A success, by the kind of the command.                                  *)
LEMMA DoneReply ==
    ASSUME NEW cmd \in Commands, NEW n \in Nat, NEW reply \in BinDone(cmd, n)
    PROVE  Reply("bin", cmd, "done", reply)
<1> DEFINE Ok(extras, size) == HeadOf("ok", extras, size)
<1>1. ASSUME NEW extras \in Nat, NEW size \in Nat
      PROVE  /\ Ok(extras, size) \in Units
             /\ BinHeader(cmd, Ok(extras, size)) = BinSuccess(cmd, Ok(extras, size))
             /\ Ok(extras, size).extras = extras
             /\ Ok(extras, size).body = size
  BY HeadIs DEF BinHeader, Statuses
<1>2. CASE cmd \in Retrieve
  <2> DEFINE head == Ok(1, 1 + n)
  <2> HIDE DEF Ok
  <2>1. reply = <<head, Field("flags")>> \o Datum(n)
    BY <1>2 DEF BinDone, Retrieve, Numeric, FlagsSize, Ok
  <2>2. /\ BinHeader(cmd, head) = BinSuccess(cmd, head) /\ head \in Units
        /\ head.extras = 1 /\ head.body = 1 + n
    BY <1>1
  <2> HIDE DEF head
  <2>3. BinHeader(cmd, head) = Parsed("ok", 1 + n)
    BY <2>2, <1>2 DEF BinSuccess, FlagsSize, Retrieve, Numeric, Storage
  <2>4. Means(cmd, "done", BinHeader(cmd, head), 1 + n)
    BY <1>2, <2>3, DoneTold, Codes DEF Means, Parsed
  <2>5. HeadAnd(head, 1 + n, reply)
    BY <2>1, <2>2, HeadAndIs
  <2> QED BY <2>4, <2>5, HeadReply
<1>3. CASE cmd \in Numeric
  <2> DEFINE head == HeadOf("ok", 0, NumberSize)
  <2>1. reply = <<head, Field("number")>>
    BY <1>3 DEF BinDone, Retrieve, Numeric
  <2>2. BinHeader(cmd, head) = Parsed("ok", 1) /\ head \in Units
    BY <1>1, <1>3 DEF BinSuccess, NumberSize, Retrieve, Numeric, Storage
  <2>3. Means(cmd, "done", BinHeader(cmd, head), 1)
    BY <1>3, <2>2, DoneTold, Codes DEF Means, Parsed
  <2> QED BY <2>1, <2>2, <2>3, HeadAndIs, HeadReply
<1>4. CASE cmd = "touch"
  <2>1. reply \in {<<HeadOf("ok", 0, 0)>>, <<HeadOf("ok", 1, 1), Field("flags")>>}
    BY <1>4 DEF BinDone, Retrieve, Numeric, FlagsSize
  <2>2. ASSUME NEW size \in {0, 1}
        PROVE  /\ HeadOf("ok", size, size) \in Units
               /\ Means(cmd, "done", BinHeader(cmd, HeadOf("ok", size, size)), size)
    <3>1. BinHeader(cmd, HeadOf("ok", size, size)) = Parsed("touched", size)
      BY <1>1, <1>4 DEF BinSuccess, Retrieve, Numeric, Storage
    <3> QED BY <1>1, <1>4, <3>1, DoneTold, Codes DEF Means, Parsed
  <2> QED BY <2>1, <2>2, HeadAndIs, HeadReply
<1>5. CASE cmd \in Storage \cup {"del", "flush_all"}
  <2> DEFINE head == Ok(0, 0)
  <2>1. reply = <<head>>
    BY <1>5 DEF BinDone, Retrieve, Numeric, Storage
  <2>2. BinHeader(cmd, head) = BinSuccess(cmd, head) /\ head \in Units
    BY <1>1
  <2> HIDE DEF head
  <2>3. PICK code \in {"stored", "deleted", "ok"} :
           /\ BinHeader(cmd, head) = Parsed(code, 0)
           /\ cmd \in Storage => code = "stored"
           /\ cmd = "del" => code = "deleted"
           /\ cmd = "flush_all" => code = "ok"
    BY <1>5, <2>2 DEF BinSuccess, Retrieve, Numeric, Storage
  <2>4. Tells(cmd, code, "done") /\ code \in DOMAIN Value
    BY <1>5, <2>3, DoneTold, Codes
  <2>5. Means(cmd, "done", BinHeader(cmd, head), 0)
    BY <2>3, <2>4 DEF Means, Parsed
  <2>6. HeadAnd(head, 0, reply)
    BY <2>1, <2>2, HeadAndIs
  <2> QED BY <2>5, <2>6, HeadReply
<1> QED BY <1>2, <1>3, <1>4, <1>5 DEF Commands

(* A response that is none: a wrong magic number, or a body of a size the  *)
(* command does not have.                                                  *)
LEMMA GarbledReply ==
    ASSUME NEW cmd \in Commands, NEW n \in Nat,
           NEW reply \in BinReplies(cmd, "garbled", n)
    PROVE  Reply("bin", cmd, "garbled", reply)
<1> DEFINE wrong == [HeadOf("ok", 0, n) EXCEPT !.magic = FALSE]
           long == HeadOf("ok", 0, n + 2)
<1>1. \/ reply = <<wrong>> \o Datum(n)
      \/ cmd \in Retrieve \cup Numeric /\ reply = <<long>> \o Datum(n + 2)
  BY DEF BinReplies
<1>2. wrong \in Units /\ wrong.kind = "head" /\ ~wrong.magic
  <2> DEFINE head == HeadOf("ok", 0, n)
  <2>1. head \in [kind : {"head"}, magic : BOOLEAN, status : Statuses,
                  extras : Nat, body : Nat]
    BY DEF HeadOf, Statuses
  <2> HIDE DEF head
  <2>2. [head EXCEPT !.magic = FALSE] \in
           [kind : {"head"}, magic : {FALSE}, status : Statuses,
            extras : Nat, body : Nat]
    BY <2>1
  <2> QED BY <2>2 DEF Units, head
<1> HIDE DEF wrong
<1>3. BinHeader(cmd, wrong) = Parsed("unrecognized", 0)
  BY <1>2 DEF BinHeader
<1>4. Means(cmd, "garbled", Parsed("unrecognized", 0), n)
  BY ErrorTold, Codes DEF Means, Parsed
<1>5. CASE reply = <<wrong>> \o Datum(n)
  <2>1. Means(cmd, "garbled", BinHeader(cmd, wrong), n)
    BY <1>3, <1>4
  <2>2. HeadAnd(wrong, n, <<wrong>> \o Datum(n))
    BY <1>2, HeadAndIs
  <2> QED BY <1>5, <2>1, <2>2, HeadReply
<1>6. CASE cmd \in Retrieve \cup Numeric /\ reply = <<long>> \o Datum(n + 2)
  <2>1. long \in Units /\ long.kind = "head" /\ long.magic /\ long.status = "ok"
        /\ long.extras = 0 /\ long.body = n + 2
    BY HeadIs DEF Statuses
  <2> HIDE DEF long
  <2>2. BinHeader(cmd, long) = Parsed("invalid", 0)
    BY <1>6, <2>1 DEF BinHeader, BinSuccess, FlagsSize, NumberSize, Retrieve,
                      Numeric, Storage
  <2>3. Means(cmd, "garbled", BinHeader(cmd, long), n + 2)
    BY <2>2, ErrorTold, Codes DEF Means, Parsed
  <2>4. HeadAnd(long, n + 2, <<long>> \o Datum(n + 2))
    <3>1. n + 2 \in Nat
      OBVIOUS
    <3> QED BY <2>1, <3>1, HeadAndIs
  <2> QED BY <1>6, <2>3, <2>4, HeadReply DEF long
<1> QED BY <1>1, <1>5, <1>6 DEF wrong

LEMMA BinReplyIs ==
    ASSUME NEW cmd \in Commands, NEW outcome \in Outcomes(cmd), NEW n \in Nat,
           NEW reply \in BinReplies(cmd, outcome, n)
    PROVE  Reply("bin", cmd, outcome, reply)
<1>1. CASE outcome = "done"
  BY <1>1, DoneReply DEF BinReplies
<1>2. CASE outcome = "missing"
  <2>1. reply \in BinFailure(BinMissing(cmd))
    BY <1>2 DEF BinReplies
  <2>2. cmd \in Commands \ {"set", "add", "flush_all"}
    BY <1>2 DEF Outcomes
  <2>3. /\ BinMissing(cmd) \in Statuses \ {"ok"}
        /\ Translate(BinMissing(cmd)) = BinMissing(cmd)
    BY DEF BinMissing, Statuses, Translate
  <2>4. Tells(cmd, BinMissing(cmd), "missing")
    BY <2>2, AbsenceTold DEF BinMissing, Retrieve, Numeric
  <2> QED BY <1>2, <2>1, <2>3, <2>4, FailureReply
<1>3. CASE outcome \in {"present", "changed"}
  <2>1. reply \in BinFailure("exists")
    BY <1>3 DEF BinReplies
  <2>2. Tells(cmd, "exists", outcome)
    BY <1>3, PresenceTold, ChangeTold DEF Outcomes
  <2>3. "exists" \in Statuses \ {"ok"} /\ Translate("exists") = "exists"
    BY DEF Statuses, Translate
  <2> QED BY <2>1, <2>2, <2>3, FailureReply
<1>4. CASE outcome = "refused"
  <2>1. PICK status \in {"value_too_large", "invalid_arguments", "unknown_command"} :
           reply \in BinFailure(status)
    BY <1>4 DEF BinReplies
  <2>2. Translate(status) \in {"server_error", "client_error", "error"}
    BY <2>1 DEF Translate
  <2>3. Tells(cmd, Translate(status), outcome)
    BY <1>4, <2>2, ErrorTold, Codes
  <2> QED BY <2>1, <2>3, FailureReply DEF Statuses
<1>5. CASE outcome = "garbled"
  BY <1>5, GarbledReply
<1> QED BY <1>1, <1>2, <1>3, <1>4, <1>5 DEF Outcomes

-----------------------------------------------------------------------------
(* Any unit where a header should be, of whatever response it is a part    *)

LEMMA CodeTyped ==
    ASSUME NEW cmd \in Commands, NEW word
    PROVE  TxtCode(cmd, word) \in DOMAIN Value
<1> DEFINE Own == DOMAIN TxtWords(cmd)
<1>1. word \in Own => TxtWords(cmd)[word] \in DOMAIN Value
  <2>1. CASE cmd \in Retrieve
    BY <2>1, WordsOf, Codes
  <2>2. CASE cmd \in Storage
    BY <2>2, WordsOf, Codes
  <2>3. CASE cmd \in Numeric \cup {"touch"}
    BY <2>3, WordsOf, Codes
  <2>4. CASE cmd \in {"del", "flush_all"}
    BY <2>4, WordsOf, Codes
  <2> QED BY <2>1, <2>2, <2>3, <2>4, WordsOf
<1>2. word \in DOMAIN TxtGeneral => TxtGeneral[word] \in DOMAIN Value
  BY Codes DEF TxtGeneral
<1> QED BY <1>1, <1>2, Codes DEF TxtCode

LEMMA TxtHeaderTyped ==
    ASSUME NEW cmd \in Commands, NEW unit,
           unit.kind = "line" => unit.bytes \in Nat \cup {NotANumber}
    PROVE  /\ TxtHeader(cmd, unit).code \in DOMAIN Value
           /\ TxtHeader(cmd, unit).bytes \in Nat
<1>1. TxtCode(cmd, unit.word) \in DOMAIN Value
  BY CodeTyped
<1> QED
  BY <1>1, Codes, FooterIs DEF TxtHeader, TxtValue, FooterSize, Parsed, NotANumber

LEMMA BinHeaderTyped ==
    ASSUME NEW cmd \in Commands, NEW unit,
           unit.kind = "head" => unit.body \in Nat
    PROVE  /\ BinHeader(cmd, unit).code \in DOMAIN Value
           /\ BinHeader(cmd, unit).bytes \in Nat
<1>1. Translate(unit.status) \in DOMAIN Value
  BY Codes DEF Translate
<1>2. ASSUME unit.body \in Nat
      PROVE  \E code \in {"ok", "invalid", "stored", "touched", "deleted"},
                bytes \in Nat : BinSuccess(cmd, unit) = Parsed(code, bytes)
  BY <1>2 DEF BinSuccess, Commands, Retrieve, Storage, Numeric
<1> QED BY <1>1, <1>2, Codes DEF BinHeader, Parsed

(* Every response a server may give, in both protocols: its header tells   *)
(* the size of what follows and, to a caller, what became of the command.  *)
THEOREM ReplyIs ==
    ASSUME NEW proto \in Protocols, NEW cmd \in Commands,
           NEW outcome \in Outcomes(cmd), NEW n \in Nat,
           NEW reply \in Replies(proto, cmd, outcome, n)
    PROVE  Reply(proto, cmd, outcome, reply)
  BY TxtReplyIs, BinReplyIs DEF Protocols, Replies

=============================================================================

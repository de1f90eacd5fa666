------------------------- MODULE ParamChannelProofs -------------------------
(***************************************************************************)
(* Proofs about ParamChannel: as long as the shadow UI is the only client, *)
(* what a blocking call of it reports is so, for any number of calls, any  *)
(* width of the ids and any timeouts, with SETs fired and forgotten        *)
(* between its blocking calls.  That ids differ is not needed: a mailbox   *)
(* that is found idle is the caller's alone until its request is written.  *)
(***************************************************************************)
EXTENDS ParamChannel, TLAPS

JsRecord ==
  [pc : {"idle", "wait", "key", "value", "header", "type", "answer", "read",
         "done", "failed"},
   op : {"none", "set", "get"}, key : Keys \cup {NoKey}, n : Nat, id : Nat,
   blocking : BOOLEAN]

SpiRecord ==
  [pc : {"idle", "key", "act", "check", "answer", "free"},
   op : {"none", "set", "get"}, id : Nat, key : Keys \cup {NoKey}]

TypesInv ==
  /\ request_type \in {"none", "set", "get"}
  /\ request_id \in Nat /\ value \in Nat /\ key \in Keys \cup {NoKey}
  /\ params \in [Keys -> Nat]
  /\ js \in JsRecord /\ js_seq \in Nat
  /\ spi \in SpiRecord
  /\ asked \in Seq(Keys) /\ forgotten \in BOOLEAN

(* A call has a name and a kind, and waits only if it blocks.              *)
CallInv ==
  /\ js.pc # "idle" => js.op \in {"set", "get"} /\ js.key \in Keys
  /\ js.pc \in {"wait", "answer", "read", "done"} => js.blocking
  /\ js.pc = "read" => js.op = "get"

(* The SPI thread works on a request until it clears it.                   *)
BusyInv == request_type = "none" => spi.pc = "idle"

(* A blocking call writes its request into an idle mailbox.                *)
WritingInv ==
  js.blocking /\ js.pc \in {"key", "value", "header", "type"} =>
    /\ request_type = "none"
    /\ js.pc # "key" => key = js.key
    /\ js.pc \in {"header", "type"} => value = js.n
    /\ js.pc = "type" => request_id = js.id /\ ~response_ready

Effect ==
  /\ js.op = "set" => params[js.key] = js.n
  /\ js.op = "get" => value = params[js.key]

(* The request is in the mailbox, or the SPI thread has it in hand.        *)
Pending ==
  /\ js.pc = "answer" /\ ~response_ready
  /\ \/ spi.pc = "idle" /\ request_type = js.op
     \/ /\ spi.pc \in {"key", "act", "check", "answer"}
        /\ spi.id = js.id /\ spi.op = js.op
        /\ spi.pc # "key" => spi.key = js.key
        /\ spi.pc \in {"check", "answer"} => Effect

(* The SPI thread has nothing left to do but to clear it.                  *)
Settled == spi.pc = "free" \/ (spi.pc = "idle" /\ request_type = "none")

AnswerInv ==
  js.pc \in {"answer", "read"} =>
    /\ key = js.key /\ request_id = js.id
    /\ js.op = "set" => value = js.n
    /\ Pending \/ (Effect /\ Settled)

DoneInv == js.pc = "done" => params[js.key] = js.n /\ Settled

Asked(n, k) == n \in 1 .. Len(asked) /\ asked[n] = k

(* While every call blocks, a value in the mailbox or in a parameter is    *)
(* under the name it was asked for.                                        *)
AskedInv ==
  ~forgotten =>
    /\ js.blocking
    /\ \A k \in Keys : params[k] > 0 => Asked(params[k], k)
    /\ js.op = "set" /\ js.pc \in {"wait", "key", "value", "header", "type"} =>
         Asked(js.n, js.key)
    /\ request_type = "set" => Asked(value, key)
    /\ spi.pc # "idle" => request_type = spi.op
    /\ spi.pc = "act" => spi.key = key

(* What the shadow UI relies on while it is alone. *)
LoneInv ==
  /\ TypesInv /\ CallInv /\ BusyInv /\ WritingInv /\ AnswerInv /\ DoneInv
  /\ AskedInv

ChannelInv ==
  /\ web_calls \in Nat
  /\ Alone => web.pc = "idle" /\ LoneInv

(* At the start nothing has been asked.                                    *)
LEMMA ChannelInvInit == Init => ChannelInv
<1> SUFFICES ASSUME Init PROVE ChannelInv
  OBVIOUS
<1> USE DEF Init
<1>1. js.pc = "idle" /\ js.op = "none" /\ spi.pc = "idle" /\ js.blocking
  OBVIOUS
<1>2. TypesInv
  <2>1. FirstSeq \in Nat /\ asked \in Seq(Keys)
    BY ChannelAssumption
  <2>2. js \in JsRecord /\ spi \in SpiRecord
    BY DEF JsRecord, SpiRecord
  <2> QED
    BY <2>1, <2>2 DEF TypesInv
<1>3. CallInv /\ BusyInv /\ WritingInv /\ AnswerInv /\ DoneInv
  BY <1>1 DEF CallInv, BusyInv, WritingInv, AnswerInv, DoneInv
<1>4. AskedInv
  BY <1>1 DEF AskedInv
<1> QED
  BY <1>2, <1>3, <1>4 DEF ChannelInv, LoneInv

(* One step of a process changes where it is, and nothing else of it.      *)
LEMMA JsMoves ==
  ASSUME TypesInv, NEW from, NEW to, JsGoes(from, to),
         to \in {"key", "value", "header", "type", "answer", "read", "done",
                "idle", "failed"}
  PROVE  /\ js.pc = from /\ js' \in JsRecord /\ js'.pc = to
         /\ js'.op = js.op /\ js'.key = js.key /\ js'.n = js.n
         /\ js'.id = js.id /\ js'.blocking = js.blocking
  BY DEF JsGoes, TypesInv, JsRecord

(* So does one step of the SPI thread.                                     *)
LEMMA SpiMoves ==
  ASSUME TypesInv, NEW from, NEW to, SpiGoes(from, to),
         to \in {"act", "check", "answer", "free", "idle"}
  PROVE  /\ spi.pc = from /\ spi' \in SpiRecord /\ spi'.pc = to
         /\ spi'.op = spi.op /\ spi'.key = spi.key /\ spi'.id = spi.id
  BY DEF SpiGoes, TypesInv, SpiRecord

(* A caller that finds the mailbox idle finds the SPI thread idle too.     *)
LEMMA JsSeesIdleKeeps == LoneInv /\ JsSeesIdle => LoneInv'
<1> SUFFICES ASSUME LoneInv, JsSeesIdle PROVE LoneInv'
  OBVIOUS
<1> USE DEF LoneInv
<1>1. JsGoes("wait", "key")
  BY DEF JsSeesIdle
<1>2. /\ js.pc = "wait" /\ js' \in JsRecord /\ js'.pc = "key"
      /\ js'.op = js.op /\ js'.key = js.key /\ js'.id = js.id
      /\ js'.n = js.n /\ js'.blocking = js.blocking
  BY <1>1, JsMoves
<1>3. TypesInv'
  BY <1>2 DEF JsSeesIdle, TypesInv, mailbox
<1>4. CallInv' /\ BusyInv' /\ WritingInv'
  BY <1>2 DEF JsSeesIdle, CallInv, BusyInv, WritingInv, mailbox
<1>5. AnswerInv' /\ DoneInv'
  BY <1>2 DEF AnswerInv, DoneInv
<1>6. AskedInv'
  BY <1>2 DEF JsSeesIdle, AskedInv, Asked, mailbox
<1> QED
  BY <1>3, <1>4, <1>5, <1>6

(* A blocking caller writes its key while nobody reads it.                 *)
LEMMA JsWriteKeyKeeps == LoneInv /\ JsWriteKey => LoneInv'
<1> SUFFICES ASSUME LoneInv, JsWriteKey PROVE LoneInv'
  OBVIOUS
<1> USE DEF LoneInv
<1>1. JsGoes("key", "value")
  BY DEF JsWriteKey
<1>2. /\ js.pc = "key" /\ js' \in JsRecord /\ js'.pc = "value"
      /\ js'.op = js.op /\ js'.key = js.key /\ js'.id = js.id
      /\ js'.n = js.n /\ js'.blocking = js.blocking
  BY <1>1, JsMoves
<1>3. TypesInv'
  BY <1>2 DEF JsWriteKey, TypesInv, CallInv
<1>4. CallInv' /\ BusyInv' /\ WritingInv'
  BY <1>2 DEF JsWriteKey, CallInv, BusyInv, WritingInv
<1>5. AnswerInv' /\ DoneInv'
  BY <1>2 DEF AnswerInv, DoneInv
<1>6. AskedInv'
  BY <1>2 DEF JsWriteKey, AskedInv, Asked, BusyInv, WritingInv
<1> QED
  BY <1>3, <1>4, <1>5, <1>6

(* Likewise its value, which stays with the key.                           *)
LEMMA JsWriteValueKeeps == LoneInv /\ JsWriteValue => LoneInv'
<1> SUFFICES ASSUME LoneInv, JsWriteValue PROVE LoneInv'
  OBVIOUS
<1> USE DEF LoneInv
<1>1. JsGoes("value", "header")
  BY DEF JsWriteValue
<1>2. /\ js.pc = "value" /\ js' \in JsRecord /\ js'.pc = "header"
      /\ js'.op = js.op /\ js'.key = js.key /\ js'.id = js.id
      /\ js'.n = js.n /\ js'.blocking = js.blocking
  BY <1>1, JsMoves
<1>3. TypesInv'
  BY <1>2 DEF JsWriteValue, TypesInv, JsRecord
<1>4. CallInv' /\ BusyInv' /\ WritingInv'
  BY <1>2 DEF JsWriteValue, CallInv, BusyInv, WritingInv
<1>5. AnswerInv' /\ DoneInv'
  BY <1>2 DEF AnswerInv, DoneInv
<1>6. AskedInv'
  BY <1>2 DEF JsWriteValue, AskedInv, Asked, WritingInv
<1> QED
  BY <1>3, <1>4, <1>5, <1>6

(* The request is handed over, whole if its caller has waited.             *)
LEMMA JsWriteTypeKeeps == LoneInv /\ JsWriteType => LoneInv'
<1> SUFFICES ASSUME LoneInv, JsWriteType PROVE LoneInv'
  OBVIOUS
<1> USE DEF LoneInv
<1> DEFINE next == IF js.blocking THEN "answer" ELSE "idle"
<1>1. JsGoes("type", next)
  BY DEF JsWriteType
<1>2. /\ js.pc = "type" /\ js' \in JsRecord /\ js'.pc = next
      /\ js'.op = js.op /\ js'.key = js.key /\ js'.id = js.id
      /\ js'.n = js.n /\ js'.blocking = js.blocking
  BY <1>1, JsMoves
<1>3. TypesInv'
  BY <1>2 DEF JsWriteType, TypesInv, CallInv
<1>4. CallInv' /\ BusyInv' /\ WritingInv'
  BY <1>2 DEF JsWriteType, CallInv, BusyInv, WritingInv
<1>5. AnswerInv' /\ DoneInv'
  BY <1>2 DEF JsWriteType, AnswerInv, DoneInv, BusyInv, WritingInv, Pending
<1>6. AskedInv'
  BY <1>2 DEF JsWriteType, AskedInv, Asked, BusyInv, WritingInv
<1> QED
  BY <1>3, <1>4, <1>5, <1>6

(* An answer under the caller's id is found only once it is settled.       *)
LEMMA JsAnsweredKeeps == LoneInv /\ JsAnswered => LoneInv'
<1> SUFFICES ASSUME LoneInv, JsAnswered PROVE LoneInv'
  OBVIOUS
<1> USE DEF LoneInv
<1> DEFINE next == IF js.op = "get" THEN "read" ELSE "done"
<1>1. JsGoes("answer", next)
  BY DEF JsAnswered
<1>2. /\ js.pc = "answer" /\ js' \in JsRecord /\ js'.pc = next
      /\ js'.op = js.op /\ js'.key = js.key /\ js'.id = js.id
      /\ js'.n = js.n /\ js'.blocking = js.blocking
  BY <1>1, JsMoves
<1>3. TypesInv'
  BY <1>2 DEF JsAnswered, TypesInv, mailbox
<1>4. CallInv' /\ BusyInv' /\ WritingInv'
  BY <1>2 DEF JsAnswered, CallInv, BusyInv, WritingInv, mailbox
<1>5. AnswerInv' /\ DoneInv'
  BY <1>2 DEF JsAnswered, AnswerInv, DoneInv, CallInv, Pending, Effect,
     Settled, mailbox
<1>6. AskedInv'
  BY <1>2 DEF JsAnswered, AskedInv, Asked, mailbox
<1> QED
  BY <1>3, <1>4, <1>5, <1>6

(* It has the effect that was asked for.                                   *)
LEMMA SpiActKeeps == LoneInv /\ SpiAct => LoneInv'
<1> SUFFICES ASSUME LoneInv, SpiAct PROVE LoneInv'
  OBVIOUS
<1> USE DEF LoneInv
<1>1. SpiGoes("act", "check")
  BY DEF SpiAct
<1>2. /\ spi.pc = "act" /\ spi' \in SpiRecord /\ spi'.pc = "check"
      /\ spi'.op = spi.op /\ spi'.key = spi.key /\ spi'.id = spi.id
  BY <1>1, SpiMoves
<1>3. TypesInv'
  BY <1>2 DEF SpiAct, TypesInv, jsVars
<1>4. CallInv' /\ BusyInv' /\ WritingInv'
  BY <1>2 DEF SpiAct, CallInv, BusyInv, WritingInv, jsVars
<1>5. AnswerInv' /\ DoneInv'
  <2>1. DoneInv'
    BY <1>2 DEF SpiAct, DoneInv, Settled, jsVars
  <2>2. js.pc \in {"answer", "read"} => Pending /\ spi.key = js.key
    BY <1>2 DEF AnswerInv, Pending, Settled
  <2>3. js.pc \in {"answer", "read"} => Effect'
    <3> SUFFICES ASSUME js.pc \in {"answer", "read"} PROVE Effect'
      OBVIOUS
    <3>1. /\ spi.op = js.op /\ spi.key = js.key /\ js.key \in Keys
          /\ js' = js /\ (js.op = "set" => value = js.n)
      BY <1>2, <2>2 DEF SpiAct, AnswerInv, CallInv, Pending, jsVars
    <3>2. js.op = "set" => params'[js.key] = js.n
      BY <3>1 DEF SpiAct, TypesInv
    <3>3. js.op = "get" => value' = params'[js.key]
      BY <3>1 DEF SpiAct
    <3> QED
      BY <3>1, <3>2, <3>3 DEF Effect
  <2> QED
    BY <1>2, <2>1, <2>2, <2>3 DEF SpiAct, AnswerInv, Pending, jsVars
<1>6. AskedInv'
  <2> SUFFICES ASSUME ~forgotten PROVE AskedInv'
    BY DEF SpiAct, AskedInv, jsVars
  <2>1. /\ UNCHANGED <<js, asked, request_type, key>> /\ request_type = spi.op
        /\ spi.op = "set" => UNCHANGED value
    BY <1>2 DEF SpiAct, AskedInv, jsVars
  <2>2. \A k \in Keys : params'[k] > 0 => Asked(params'[k], k)
    BY <1>2, <2>1 DEF SpiAct, AskedInv, TypesInv
  <2> QED
    BY <1>2, <2>1, <2>2 DEF AskedInv, Asked
<1> QED
  BY <1>3, <1>4, <1>5, <1>6

(* It answers only what it has done.                                       *)
LEMMA SpiAnswerKeeps == LoneInv /\ SpiAnswer => LoneInv'
<1> SUFFICES ASSUME LoneInv, SpiAnswer PROVE LoneInv'
  OBVIOUS
<1> USE DEF LoneInv
<1>1. SpiGoes("answer", "free")
  BY DEF SpiAnswer
<1>2. /\ spi.pc = "answer" /\ spi' \in SpiRecord /\ spi'.pc = "free"
      /\ spi'.op = spi.op /\ spi'.key = spi.key /\ spi'.id = spi.id
  BY <1>1, SpiMoves
<1>3. TypesInv'
  BY <1>2 DEF SpiAnswer, TypesInv, jsVars
<1>4. CallInv' /\ BusyInv' /\ WritingInv'
  BY <1>2 DEF SpiAnswer, CallInv, BusyInv, WritingInv, jsVars
<1>5. AnswerInv' /\ DoneInv'
  BY <1>2 DEF SpiAnswer, AnswerInv, DoneInv, Pending, Effect, Settled, jsVars
<1>6. AskedInv'
  BY <1>2 DEF SpiAnswer, AskedInv, Asked, jsVars
<1> QED
  BY <1>3, <1>4, <1>5, <1>6

(* It clears the mailbox after the answer.                                 *)
LEMMA SpiFreeKeeps == LoneInv /\ SpiFree => LoneInv'
<1> SUFFICES ASSUME LoneInv, SpiFree PROVE LoneInv'
  OBVIOUS
<1> USE DEF LoneInv
<1>1. SpiGoes("free", "idle")
  BY DEF SpiFree
<1>2. /\ spi.pc = "free" /\ spi' \in SpiRecord /\ spi'.pc = "idle"
      /\ spi'.op = spi.op /\ spi'.key = spi.key /\ spi'.id = spi.id
  BY <1>1, SpiMoves
<1>3. TypesInv'
  BY <1>2 DEF SpiFree, TypesInv, jsVars
<1>4. CallInv' /\ BusyInv' /\ WritingInv'
  BY <1>2 DEF SpiFree, CallInv, BusyInv, WritingInv, jsVars
<1>5. AnswerInv' /\ DoneInv'
  BY <1>2 DEF SpiFree, AnswerInv, DoneInv, Pending, Effect, Settled, jsVars
<1>6. AskedInv'
  BY <1>2 DEF SpiFree, AskedInv, Asked, jsVars
<1> QED
  BY <1>3, <1>4, <1>5, <1>6

(* It drops no answer to a caller that still waits.                        *)
LEMMA SpiCheckKeeps == LoneInv /\ SpiCheck => LoneInv'
<1> SUFFICES ASSUME LoneInv, SpiCheck PROVE LoneInv'
  OBVIOUS
<1> USE DEF LoneInv
<1> DEFINE next == IF request_id = spi.id THEN "answer" ELSE "idle"
<1>1. SpiGoes("check", next)
  BY DEF SpiCheck
<1>2. /\ spi.pc = "check" /\ spi' \in SpiRecord /\ spi'.pc = next
      /\ spi'.op = spi.op /\ spi'.key = spi.key /\ spi'.id = spi.id
  BY <1>1, SpiMoves
<1>3. TypesInv'
  BY <1>2 DEF SpiCheck, TypesInv, mailbox, jsVars
<1>4. CallInv' /\ BusyInv' /\ WritingInv'
  BY <1>2 DEF SpiCheck, CallInv, BusyInv, WritingInv, mailbox, jsVars
<1>5. AnswerInv' /\ DoneInv'
  BY <1>2 DEF SpiCheck, AnswerInv, DoneInv, Pending, Effect, Settled,
     mailbox, jsVars
<1>6. AskedInv'
  BY <1>2 DEF SpiCheck, AskedInv, Asked, mailbox, jsVars
<1> QED
  BY <1>3, <1>4, <1>5, <1>6

(* The value read is the parameter's: nobody has written since.            *)
LEMMA JsReadValueKeeps == LoneInv /\ JsReadValue => LoneInv'
<1> SUFFICES ASSUME LoneInv, JsReadValue PROVE LoneInv'
  OBVIOUS
<1> USE DEF LoneInv
<1>1. js.pc = "read" /\ js' = [js EXCEPT !.pc = "done", !.n = value]
  BY DEF JsReadValue
<1>2. /\ js.pc = "read" /\ js' \in JsRecord /\ js'.pc = "done"
      /\ js'.op = js.op /\ js'.key = js.key /\ js'.n = value
      /\ js'.id = js.id /\ js'.blocking = js.blocking
  BY <1>1 DEF TypesInv, JsRecord
<1>3. TypesInv'
  BY <1>2 DEF JsReadValue, TypesInv, mailbox
<1>4. CallInv' /\ BusyInv' /\ WritingInv'
  BY <1>2 DEF JsReadValue, CallInv, BusyInv, WritingInv, mailbox
<1>5. AnswerInv' /\ DoneInv'
  BY <1>2 DEF JsReadValue, AnswerInv, DoneInv, CallInv, Pending, Effect,
     Settled, mailbox
<1>6. AskedInv'
  BY <1>2 DEF JsReadValue, AskedInv, Asked, mailbox
<1> QED
  BY <1>3, <1>4, <1>5, <1>6

(* The header takes back the last answer before it gives the new id.       *)
LEMMA JsWriteHeaderKeeps == LoneInv /\ JsWriteHeader => LoneInv'
<1> SUFFICES ASSUME LoneInv, JsWriteHeader PROVE LoneInv'
  OBVIOUS
<1> USE DEF LoneInv
<1>1. /\ js.pc = "header"
      /\ js' = [js EXCEPT !.pc = "type", !.id = NextRequestId]
      /\ NextRequestId \in Nat
  BY DEF JsWriteHeader, NextRequestId, TypesInv
<1>2. /\ js.pc = "header" /\ js' \in JsRecord /\ js'.pc = "type"
      /\ js'.op = js.op /\ js'.key = js.key /\ js'.n = js.n
      /\ js'.id = NextRequestId /\ js'.blocking = js.blocking
      /\ NextRequestId \in Nat
  BY <1>1 DEF TypesInv, JsRecord
<1>3. TypesInv'
  BY <1>2 DEF JsWriteHeader, TypesInv
<1>4. CallInv' /\ BusyInv' /\ WritingInv'
  BY <1>2 DEF JsWriteHeader, CallInv, BusyInv, WritingInv
<1>5. AnswerInv' /\ DoneInv'
  BY <1>2 DEF AnswerInv, DoneInv
<1>6. AskedInv'
  BY <1>2 DEF JsWriteHeader, AskedInv, Asked
<1> QED
  BY <1>3, <1>4, <1>5, <1>6

(* The SPI thread takes the request that is in the mailbox.                *)
LEMMA SpiBeginKeeps == LoneInv /\ SpiBegin => LoneInv'
<1> SUFFICES ASSUME LoneInv, SpiBegin PROVE LoneInv'
  OBVIOUS
<1> USE DEF LoneInv
<1>1. /\ spi.pc = "idle" /\ request_type # "none"
      /\ spi' = [pc |-> "key", op |-> request_type, id |-> request_id,
                key |-> NoKey]
  BY DEF SpiBegin
<1>2. /\ spi.pc = "idle" /\ spi' \in SpiRecord /\ spi'.pc = "key"
      /\ spi'.op = request_type /\ spi'.id = request_id
  BY <1>1 DEF TypesInv, SpiRecord
<1>3. TypesInv'
  BY <1>2 DEF SpiBegin, TypesInv, mailbox, jsVars
<1>4. CallInv' /\ BusyInv' /\ WritingInv'
  BY <1>2 DEF SpiBegin, CallInv, BusyInv, WritingInv, mailbox, jsVars
<1>5. AnswerInv' /\ DoneInv'
  BY <1>2 DEF SpiBegin, AnswerInv, DoneInv, Pending, Settled, mailbox, jsVars
<1>6. AskedInv'
  BY <1>2 DEF SpiBegin, AskedInv, Asked, mailbox, jsVars
<1> QED
  BY <1>3, <1>4, <1>5, <1>6

(* It reads the key of the request that it took, if that one blocks.       *)
LEMMA SpiReadKeyKeeps == LoneInv /\ SpiReadKey => LoneInv'
<1> SUFFICES ASSUME LoneInv, SpiReadKey PROVE LoneInv'
  OBVIOUS
<1> USE DEF LoneInv
<1>1. /\ spi.pc = "key" /\ spi' = [spi EXCEPT !.pc = "act", !.key = key]
  BY DEF SpiReadKey
<1>2. /\ spi.pc = "key" /\ spi' \in SpiRecord /\ spi'.pc = "act"
      /\ spi'.op = spi.op /\ spi'.id = spi.id /\ spi'.key = key
  BY <1>1 DEF TypesInv, SpiRecord
<1>3. TypesInv'
  BY <1>2 DEF SpiReadKey, TypesInv, mailbox, jsVars
<1>4. CallInv' /\ BusyInv' /\ WritingInv'
  BY <1>2 DEF SpiReadKey, CallInv, BusyInv, WritingInv, mailbox, jsVars
<1>5. AnswerInv' /\ DoneInv'
  BY <1>2 DEF SpiReadKey, AnswerInv, DoneInv, Pending, Settled, mailbox,
     jsVars
<1>6. AskedInv'
  BY <1>2 DEF SpiReadKey, AskedInv, Asked, mailbox, jsVars
<1> QED
  BY <1>3, <1>4, <1>5, <1>6

(* A caller that gives up leaves its request where it is.                  *)
LEMMA JsTimesOutKeeps == LoneInv /\ JsTimesOut => LoneInv'
<1> SUFFICES ASSUME LoneInv, JsTimesOut PROVE LoneInv'
  OBVIOUS
<1> USE DEF LoneInv
<1>1. JsGoes("wait", "failed") \/ JsGoes("answer", "failed")
  BY DEF JsTimesOut
<1>2. /\ js.pc \in {"wait", "answer"} /\ js' \in JsRecord /\ js'.pc = "failed"
      /\ js'.op = js.op /\ js'.key = js.key /\ js'.id = js.id
      /\ js'.n = js.n /\ js'.blocking = js.blocking
  BY <1>1, JsMoves
<1>3. TypesInv'
  BY <1>2 DEF JsTimesOut, TypesInv, mailbox
<1>4. CallInv' /\ BusyInv' /\ WritingInv'
  BY <1>2 DEF JsTimesOut, CallInv, BusyInv, WritingInv, mailbox
<1>5. AnswerInv' /\ DoneInv'
  BY <1>2 DEF AnswerInv, DoneInv
<1>6. AskedInv'
  BY <1>2 DEF JsTimesOut, AskedInv, Asked, mailbox
<1> QED
  BY <1>3, <1>4, <1>5, <1>6

(* A new call is a new value, with the key that it was asked for.          *)
LEMMA JsCallKeeps == LoneInv /\ JsCall => LoneInv'
<1> SUFFICES ASSUME LoneInv, JsCall PROVE LoneInv'
  OBVIOUS
<1> USE DEF LoneInv
<1>1. PICK k \in Keys :
        \/ /\ \E b \in Blocking :
                /\ js' = [pc |-> IF b THEN "wait" ELSE "key", op |-> "set",
                          key |-> k, n |-> Len(asked) + 1, id |-> 0,
                          blocking |-> b]
                /\ forgotten' = (forgotten \/ ~b)
           /\ asked' = Append(asked, k)
        \/ /\ js' = [pc |-> "wait", op |-> "get", key |-> k, n |-> 0,
                     id |-> 0, blocking |-> TRUE]
           /\ UNCHANGED <<asked, forgotten>>
  BY DEF JsCall
<1>2. UNCHANGED <<request_type, request_id, response_id, response_ready, key,
                  value, params, js_seq, spi>>
  BY DEF JsCall, mailbox
<1>3. asked \in Seq(Keys) /\ Len(asked) \in Nat
  BY DEF TypesInv
<1>4. CASE /\ js' = [pc |-> "wait", op |-> "get", key |-> k, n |-> 0,
                     id |-> 0, blocking |-> TRUE]
           /\ UNCHANGED <<asked, forgotten>>
  <2>1. TypesInv'
    BY <1>2, <1>4 DEF TypesInv, JsRecord
  <2>2. CallInv' /\ BusyInv' /\ WritingInv' /\ AnswerInv' /\ DoneInv'
    BY <1>2, <1>4 DEF CallInv, BusyInv, WritingInv, AnswerInv, DoneInv
  <2>3. AskedInv'
    BY <1>2, <1>4 DEF AskedInv, Asked
  <2> QED
    BY <2>1, <2>2, <2>3
<1>5. ASSUME NEW b \in Blocking,
             js' = [pc |-> IF b THEN "wait" ELSE "key", op |-> "set",
                    key |-> k, n |-> Len(asked) + 1, id |-> 0,
                    blocking |-> b],
             forgotten' = (forgotten \/ ~b), asked' = Append(asked, k)
      PROVE  LoneInv'
  <2>1. b \in BOOLEAN
    BY ChannelAssumption
  <2>2. /\ js'.pc \in {"wait", "key"} /\ (js'.pc = "wait" => b)
        /\ js'.op = "set" /\ js'.key = k /\ js'.n = Len(asked) + 1
        /\ (js'.blocking <=> b) /\ (b => js'.pc = "wait")
    BY <1>5, <2>1
  <2>3. /\ asked' \in Seq(Keys) /\ Len(asked') = Len(asked) + 1
        /\ asked'[Len(asked) + 1] = k
        /\ \A i \in 1 .. Len(asked) : asked'[i] = asked[i]
    BY <1>3, <1>5
  <2>4. \A n, x : Asked(n, x) => Asked(n, x)'
    BY <1>3, <2>3 DEF Asked
  <2>5. TypesInv'
    <3>1. js' \in JsRecord
      BY <1>3, <1>5, <2>1 DEF JsRecord
    <3>2. forgotten' \in BOOLEAN
      BY <1>5
    <3> QED
      BY <1>2, <2>3, <3>1, <3>2 DEF TypesInv
  <2>6. CallInv' /\ BusyInv' /\ WritingInv' /\ AnswerInv' /\ DoneInv'
    BY <1>2, <2>2 DEF CallInv, BusyInv, WritingInv, AnswerInv, DoneInv
  <2>7. AskedInv'
    <3> SUFFICES ASSUME ~forgotten' PROVE AskedInv'
      BY DEF AskedInv
    <3>1. ~forgotten /\ b
      BY <1>5, <2>1
    <3>2. Asked(js.n, js.key)'
      BY <1>3, <2>2, <2>3 DEF Asked
    <3>3. \A x \in Keys : params'[x] > 0 => Asked(params[x], x)'
      BY <1>2, <2>4, <3>1 DEF AskedInv
    <3>4. request_type' = "set" => Asked(value, key)'
      BY <1>2, <2>4, <3>1 DEF AskedInv
    <3> QED
      BY <1>2, <2>2, <3>1, <3>2, <3>3, <3>4 DEF AskedInv
  <2> QED
    BY <2>5, <2>6, <2>7
<1> QED
  BY <1>1, <1>4, <1>5

(* Every step keeps ChannelInv: the first call of the web manager ends the *)
(* shadow UI's being alone.                                                *)
LEMMA ChannelInvStep ==
  ASSUME ChannelInv, [Next]_vars
  PROVE  ChannelInv'
<1>1. CASE WebCall
  BY <1>1 DEF WebCall, ChannelInv, Alone
<1>2. CASE WebStep
  <2>1. web.pc # "idle" /\ UNCHANGED web_calls
    BY <1>2 DEF WebStep, WebGoes, WebSeesIdle, WebGivesUp, WebWriteHeader,
       WebWriteKey, WebWriteValue, WebWriteType, WebAnswered, WebTimesOut,
       WebClears
  <2> QED
    BY <2>1 DEF ChannelInv, Alone
<1>3. CASE JsCall \/ JsStep \/ SpiStep
  <2>1. UNCHANGED <<web, web_calls>>
    BY <1>3 DEF JsCall, JsStep, SpiStep, JsSeesIdle, JsTimesOut, JsWriteKey,
       JsWriteValue, JsWriteHeader, JsWriteType, JsAnswered, JsReadValue,
       SpiBegin, SpiReadKey, SpiAct, SpiCheck, SpiAnswer, SpiFree, webVars
  <2>2. LoneInv => LoneInv'
    BY <1>3, JsCallKeeps, JsSeesIdleKeeps, JsTimesOutKeeps, JsWriteKeyKeeps,
       JsWriteValueKeeps, JsWriteHeaderKeeps, JsWriteTypeKeeps,
       JsAnsweredKeeps, JsReadValueKeeps, SpiBeginKeeps, SpiReadKeyKeeps,
       SpiActKeeps, SpiCheckKeeps, SpiAnswerKeeps, SpiFreeKeeps
       DEF JsStep, SpiStep
  <2> QED
    BY <2>1, <2>2 DEF ChannelInv, Alone
<1>4. CASE UNCHANGED vars
  BY <1>4 DEF vars, mailbox, jsVars, webVars, ChannelInv, Alone, LoneInv,
     TypesInv, CallInv, BusyInv, WritingInv, AnswerInv, DoneInv, AskedInv,
     Pending, Settled, Effect, Asked
<1> QED
  BY <1>1, <1>2, <1>3, <1>4 DEF Next

(* So it holds for ever.                                                   *)
LEMMA ChannelInvariance == Spec => []ChannelInv
  BY ChannelInvInit, ChannelInvStep, PTL DEF Spec

-----------------------------------------------------------------------------

(* A blocking SET of the shadow UI that returns true has been applied and  *)
(* stands until its next call, whatever timed out or was fired and         *)
(* forgotten before it.                                                    *)
THEOREM TrueAlwaysMeansApplied == Spec => []TrueMeansApplied
<1>1. ChannelInv => TrueMeansApplied
  BY DEF ChannelInv, LoneInv, DoneInv, TrueMeansApplied
<1> QED
  BY <1>1, ChannelInvariance, PTL

(* A GET of the shadow UI that returns a value returns the parameter's     *)
(* own, current one.                                                       *)
THEOREM AlwaysReadsCurrent == Spec => []ReadsCurrent
<1>1. ChannelInv => ReadsCurrent
  BY DEF ChannelInv, LoneInv, DoneInv, ReadsCurrent
<1> QED
  BY <1>1, ChannelInvariance, PTL

(* As long as every SET blocks, no timeout brings a value under the name   *)
(* of another call.                                                        *)
THEOREM AloneWritesAlwaysAsked == Spec => []AloneWritesWereAsked
<1>1. ChannelInv => AloneWritesWereAsked
  BY DEF ChannelInv, LoneInv, AskedInv, Asked, AloneWritesWereAsked,
     WritesWereAsked
<1> QED
  BY <1>1, ChannelInvariance, PTL
=============================================================================

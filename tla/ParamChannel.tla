---------------------------- MODULE ParamChannel ----------------------------
(***************************************************************************)
(* The parameter mailbox shadow_param_t: one request at a time, written by *)
(* the shadow UI process (shadow_ui.c) or by the web manager               *)
(* (schwung-manager/shmparams.go) and answered by the SPI thread           *)
(* (host/shadow_chain_mgmt.c).  Each action is one access, or one run of   *)
(* accesses nobody can tell apart, to the shared memory.                   *)
(*                                                                         *)
(* The n-th SET writes the value n: a value tells which call it came from. *)
(***************************************************************************)
EXTENDS Integers, Sequences

CONSTANTS
  Keys,      \* parameter names
  Blocking,  \* the values of !overtake_fire_and_forget the SETs may take
  IdSpan,    \* request ids of the shadow UI, 0 included: 2^32
  FirstSeq,  \* reads the shadow UI has made, and got answered, at the start
  MaxCalls,  \* bound on the calls of the shadow UI
  WebOps,    \* the calls of the web manager: "get", "set", "fast"
  MaxWeb     \* bound on them

ASSUME ChannelAssumption ==
  /\ Blocking \subseteq BOOLEAN
  /\ WebOps \subseteq {"get", "set", "fast"}
  /\ IdSpan \in Nat \ {0, 1}
  /\ FirstSeq \in 0 .. IdSpan - 1
  /\ MaxCalls \in Nat
  /\ MaxWeb \in 0 .. IdSpan - 1

VARIABLES
  request_type,    \* "none", "set" or "get"
  request_id,
  response_id,
  response_ready,
  key,
  value,
  params,          \* what the chain's set_param has been given, by name
  js,              \* the shadow UI's call: pc, op, key, n, id, blocking
  js_seq,          \* shadow_param_request_seq
  asked,           \* history: the key of each SET so far
  calls,           \* history: its calls so far
  forgotten,       \* history: it has fired and forgotten a SET
  web,             \* the web manager's call: pc, op, key, n, id
  web_seq,         \* nextReqID
  web_calls,       \* history: the web manager's calls so far
  spi              \* the SPI thread's handler: pc, op, id, key

mailbox == <<request_type, request_id, response_id, response_ready, key, value>>
jsVars  == <<js, js_seq, asked, calls, forgotten>>
webVars == <<web, web_seq, web_calls>>
vars    == <<mailbox, params, jsVars, webVars, spi>>

NoKey == "none"

Init ==
  /\ request_type = "none"
  /\ request_id = FirstSeq
  /\ response_id = FirstSeq
  /\ response_ready = (FirstSeq > 0)
  /\ key = NoKey
  /\ value = 0
  /\ params = [k \in Keys |-> 0]
  /\ js = [pc |-> "idle", op |-> "none", key |-> NoKey, n |-> 0, id |-> 0,
           blocking |-> TRUE]
  /\ js_seq = FirstSeq
  /\ forgotten = FALSE
  /\ asked = <<>>
  /\ calls = 0
  /\ web = [pc |-> "idle", op |-> "get", key |-> NoKey, n |-> 0, id |-> 0]
  /\ web_seq = 0
  /\ web_calls = 0
  /\ spi = [pc |-> "idle", op |-> "none", id |-> 0, key |-> NoKey]

-----------------------------------------------------------------------------
(* The shadow UI: shadow_set_param_common and js_shadow_get_param.         *)

JsGoes(from, to) == js.pc = from /\ js' = [js EXCEPT !.pc = to]

(* A SET in overtake mode does not wait for the channel to be idle. *)
JsCall ==
  /\ js.pc \in {"idle", "failed", "done"}
  /\ calls < MaxCalls
  /\ calls' = calls + 1
  /\ \E k \in Keys :
       \/ /\ \E b \in Blocking :
               /\ js' = [pc |-> IF b THEN "wait" ELSE "key", op |-> "set",
                         key |-> k, n |-> Len(asked) + 1, id |-> 0,
                         blocking |-> b]
               /\ forgotten' = (forgotten \/ ~b)
          /\ asked' = Append(asked, k)
       \/ /\ js' = [pc |-> "wait", op |-> "get", key |-> k, n |-> 0,
                    id |-> 0, blocking |-> TRUE]
          /\ UNCHANGED <<asked, forgotten>>
  /\ UNCHANGED <<mailbox, params, js_seq, webVars, spi>>

(* Mutant: the channel is not waited for. *)
JsAssumesIdle ==
  /\ JsGoes("wait", "key")
  /\ UNCHANGED <<mailbox, params, js_seq, asked, calls, forgotten, webVars, spi>>

JsSeesIdle ==
  /\ request_type = "none"
  /\ JsGoes("wait", "key")
  /\ UNCHANGED <<mailbox, params, js_seq, asked, calls, forgotten, webVars, spi>>

(* Either poll loop may run out of polls. *)
JsTimesOut ==
  /\ JsGoes("wait", "failed") \/ JsGoes("answer", "failed")
  /\ UNCHANGED <<mailbox, params, js_seq, asked, calls, forgotten, webVars, spi>>

JsWriteKey ==
  /\ JsGoes("key", "value")
  /\ key' = js.key
  /\ UNCHANGED <<request_type, request_id, response_id, response_ready, value,
                 params, js_seq, asked, calls, forgotten, webVars, spi>>

(* A GET clears the value. *)
JsWriteValue ==
  /\ JsGoes("value", "header")
  /\ value' = js.n
  /\ UNCHANGED <<request_type, request_id, response_id, response_ready, key,
                 params, js_seq, asked, calls, forgotten, webVars, spi>>

(* shadow_param_next_request_id: 0 is never an id. *)
NextRequestId == IF js_seq + 1 = IdSpan THEN 1 ELSE js_seq + 1

(* Mutant: the answer to the last request is left standing, under its id.  *)
JsKeepsAnswer ==
  /\ js.pc = "header"
  /\ js_seq' = js_seq
  /\ js' = [js EXCEPT !.pc = "type", !.id = js_seq]
  /\ request_id' = js_seq
  /\ UNCHANGED <<request_type, response_id, response_ready, key, value, params,
                 asked, calls, forgotten, webVars, spi>>

JsWriteHeader ==
  /\ js.pc = "header"
  /\ js_seq' = NextRequestId
  /\ js' = [js EXCEPT !.pc = "type", !.id = NextRequestId]
  /\ response_ready' = FALSE
  /\ response_id' = 0
  /\ request_id' = NextRequestId
  /\ UNCHANGED <<request_type, key, value, params, asked, calls,
                 forgotten, webVars, spi>>

JsWriteType ==
  /\ JsGoes("type", IF js.blocking THEN "answer" ELSE "idle")
  /\ request_type' = js.op
  /\ UNCHANGED <<request_id, response_id, response_ready, key, value, params,
                 js_seq, asked, calls, forgotten, webVars, spi>>

JsAnswered ==
  /\ response_ready /\ response_id = js.id
  /\ JsGoes("answer", IF js.op = "get" THEN "read" ELSE "done")
  /\ UNCHANGED <<mailbox, params, js_seq, asked, calls, forgotten, webVars, spi>>

(* The result of a GET is the mailbox's value after the wait. *)
JsReadValue ==
  /\ js.pc = "read"
  /\ js' = [js EXCEPT !.pc = "done", !.n = value]
  /\ UNCHANGED <<mailbox, params, js_seq, asked, calls, forgotten, webVars, spi>>

JsStep ==
  \/ JsSeesIdle \/ JsTimesOut \/ JsWriteKey \/ JsWriteValue \/ JsWriteHeader
  \/ JsWriteType \/ JsAnswered \/ JsReadValue

-----------------------------------------------------------------------------
(* The web manager: GetParam, TryGetParam, SetParam and SetParamFast; its  *)
(* mutex makes them one call at a time.                                    *)

WebGoes(from, to) == web.pc = from /\ web' = [web EXCEPT !.pc = to]

WebCall ==
  /\ web.pc = "idle"
  /\ web_calls < MaxWeb
  /\ \E k \in Keys, o \in WebOps :
       /\ web' = [pc |-> "wait", op |-> o, key |-> k,
                  n |-> IF o = "get" THEN 0 ELSE Len(asked) + 1,
                  id |-> 0]
       /\ asked' = IF o = "get" THEN asked ELSE Append(asked, k)
  /\ web_calls' = web_calls + 1
  /\ UNCHANGED <<mailbox, params, js, js_seq, calls, forgotten, web_seq, spi>>

(* The id is taken once the channel is idle. *)
WebSeesIdle ==
  /\ web.pc = "wait"
  /\ request_type = "none"
  /\ web_seq' = web_seq + 1
  /\ web' = [web EXCEPT !.pc = "header", !.id = web_seq + 1]
  /\ UNCHANGED <<mailbox, params, jsVars, web_calls, spi>>

WebGivesUp ==
  /\ WebGoes("wait", "idle")
  /\ UNCHANGED <<mailbox, params, jsVars, web_seq, web_calls, spi>>

WebWriteHeader ==
  /\ WebGoes("header", "key")
  /\ response_ready' = FALSE
  /\ request_id' = web.id
  /\ UNCHANGED <<request_type, response_id, key, value, params, jsVars,
                 web_seq, web_calls, spi>>

WebWriteKey ==
  /\ WebGoes("key", IF web.op = "get" THEN "type" ELSE "value")
  /\ key' = web.key
  /\ UNCHANGED <<request_type, request_id, response_id, response_ready, value,
                 params, jsVars, web_seq, web_calls, spi>>

WebWriteValue ==
  /\ WebGoes("value", "type")
  /\ value' = web.n
  /\ UNCHANGED <<request_type, request_id, response_id, response_ready, key,
                 params, jsVars, web_seq, web_calls, spi>>

(* SetParamFast returns as soon as it has asked. *)
WebWriteType ==
  /\ WebGoes("type", IF web.op = "fast" THEN "idle" ELSE "answer")
  /\ request_type' = IF web.op = "get" THEN "get" ELSE "set"
  /\ UNCHANGED <<request_id, response_id, response_ready, key, value, params,
                 jsVars, web_seq, web_calls, spi>>

(* Answered or timed out, the manager clears request_type when it is done. *)
WebAnswered ==
  /\ response_ready /\ response_id = web.id
  /\ WebGoes("answer", "clear")
  /\ UNCHANGED <<mailbox, params, jsVars, web_seq, web_calls, spi>>

WebTimesOut ==
  /\ WebGoes("answer", "clear")
  /\ UNCHANGED <<mailbox, params, jsVars, web_seq, web_calls, spi>>

WebClears ==
  /\ WebGoes("clear", "idle")
  /\ request_type' = "none"
  /\ UNCHANGED <<request_id, response_id, response_ready, key, value, params,
                 jsVars, web_seq, web_calls, spi>>

WebStep ==
  \/ WebSeesIdle \/ WebGivesUp \/ WebWriteHeader \/ WebWriteKey
  \/ WebWriteValue \/ WebWriteType \/ WebAnswered \/ WebTimesOut \/ WebClears

-----------------------------------------------------------------------------
(* The SPI thread: shadow_inprocess_handle_param_request, once a frame.    *)

SpiGoes(from, to) == spi.pc = from /\ spi' = [spi EXCEPT !.pc = to]

SpiBegin ==
  /\ spi.pc = "idle"
  /\ request_type # "none"
  /\ spi' = [pc |-> "key", op |-> request_type, id |-> request_id,
             key |-> NoKey]
  /\ UNCHANGED <<mailbox, params, jsVars, webVars>>

SpiReadKey ==
  /\ spi.pc = "key"
  /\ spi' = [spi EXCEPT !.pc = "act", !.key = key]
  /\ UNCHANGED <<mailbox, params, jsVars, webVars>>

(* The handler of a key nobody knows sets an error and changes nothing. *)
SpiAct ==
  /\ SpiGoes("act", "check")
  /\ IF spi.op = "set" /\ spi.key \in Keys
     THEN params' = [params EXCEPT ![spi.key] = value]
     ELSE UNCHANGED params
  /\ IF spi.op = "get" /\ spi.key \in Keys
     THEN value' = params[spi.key]
     ELSE UNCHANGED value
  /\ UNCHANGED <<request_type, request_id, response_id, response_ready, key,
                 jsVars, webVars>>

(* shadow_param_publish_response drops the answer to a request that is no  *)
(* longer the one in the mailbox.                                          *)
SpiCheck ==
  /\ SpiGoes("check", IF request_id = spi.id THEN "answer" ELSE "idle")
  /\ UNCHANGED <<mailbox, params, jsVars, webVars>>

SpiAnswer ==
  /\ SpiGoes("answer", "free")
  /\ response_id' = spi.id
  /\ response_ready' = TRUE
  /\ UNCHANGED <<request_type, request_id, key, value, params, jsVars, webVars>>

(* Mutant: the request is answered but stays in the mailbox. *)
SpiKeeps ==
  /\ SpiGoes("free", "idle")
  /\ UNCHANGED <<mailbox, params, jsVars, webVars>>

SpiFree ==
  /\ SpiGoes("free", "idle")
  /\ request_type' = "none"
  /\ UNCHANGED <<request_id, response_id, response_ready, key, value, params,
                 jsVars, webVars>>

SpiStep ==
  SpiBegin \/ SpiReadKey \/ SpiAct \/ SpiCheck \/ SpiAnswer \/ SpiFree

-----------------------------------------------------------------------------

Next == JsCall \/ JsStep \/ WebCall \/ WebStep \/ SpiStep

Spec == Init /\ [][Next]_vars

(* The SPI thread serves the mailbox in every frame. *)
FairSpec == Spec /\ WF_vars(SpiStep)

-----------------------------------------------------------------------------
(* Properties *)

Ids == 0 .. IdSpan - 1

MaxSets == MaxCalls + MaxWeb

TypeOK ==
  /\ request_type \in {"none", "set", "get"}
  /\ request_id \in Ids /\ response_id \in Ids
  /\ response_ready \in BOOLEAN
  /\ key \in Keys \cup {NoKey}
  /\ value \in 0 .. MaxSets
  /\ params \in [Keys -> 0 .. MaxSets]
  /\ js \in [pc : {"idle", "wait", "key", "value", "header", "type", "answer",
                   "read", "done", "failed"},
             op : {"none", "set", "get"}, key : Keys \cup {NoKey},
             n : 0 .. MaxSets, id : Ids, blocking : BOOLEAN]
  /\ js_seq \in Ids
  /\ asked \in Seq(Keys)
  /\ calls \in 0 .. MaxCalls /\ forgotten \in BOOLEAN
  /\ web \in [pc : {"idle", "wait", "header", "key", "value", "type", "answer",
                    "clear"},
              op : {"get", "set", "fast"}, key : Keys \cup {NoKey},
              n : 0 .. MaxSets, id : Ids]
  /\ web_seq \in 0 .. MaxWeb /\ web_calls \in 0 .. MaxWeb
  /\ spi \in [pc : {"idle", "key", "act", "check", "answer", "free"},
              op : {"none", "set", "get"}, id : Ids, key : Keys \cup {NoKey}]

(* "Only one request can be in-flight at a time": no write takes its key   *)
(* from one request and its value from another.                            *)
WritesWereAsked ==
  \A k \in Keys : params[k] > 0 => asked[params[k]] = k

(* The shadow UI is the only client so far. *)
Alone == web_calls = 0

(* A blocking SET that reports success has been applied, and nothing else  *)
(* has come over it: a SET that timed out earlier, or one that was fired   *)
(* and forgotten, is not applied late on top of it.                        *)
TrueMeansApplied ==
  Alone /\ js.pc = "done" /\ js.op = "set" => params[js.key] = js.n

(* A GET that returns a value returns that parameter's current value:      *)
(* never the value of another key, never the answer to a request that had  *)
(* timed out.                                                              *)
ReadsCurrent ==
  Alone /\ js.pc = "done" /\ js.op = "get" => params[js.key] = js.n

(* What is written to a parameter is what a SET asked to write to that     *)
(* parameter: a SET that times out never meets the key of the next one.    *)
AloneWritesWereAsked == Alone /\ ~forgotten => WritesWereAsked

(* Every request leaves the mailbox: nobody finds it busy for ever.        *)
ChannelFrees == request_type # "none" ~> request_type = "none"
=============================================================================

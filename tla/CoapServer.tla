----------------------------- MODULE CoapServer -----------------------------
(***************************************************************************)
(* Practica 6: the mote that serves a temperature and a LED over CoAP      *)
(* (practicas/p6-coap-mqtt/coap-server.c, resources/res-temp.c,            *)
(* resources/res-led.c), and the client that asks for them from the other  *)
(* side of the border router.                                              *)
(*                                                                         *)
(* The client sends a request again until it is answered or gives up, and  *)
(* copies may be lost or come late.  The CoAP engine of Contiki-NG calls   *)
(* the handler for every copy: it does not recognise a repeated request.   *)
(*                                                                         *)
(* Of a PUT's body only what the handler tells apart is kept: it begins    *)
(* with "led=on", with "led=off", or with neither.  A temperature is       *)
(* answered as the two numbers of the format "%d.%d".                      *)
(***************************************************************************)
EXTENDS Integers, Sequences

CONSTANTS
  StartTemp,     \* first temperature, in tenths of a degree: 250 in the code
  Steps,         \* sizes of a step of the walk, up or down: 0 .. 5 in the code
  MaxWalk,       \* bound: how far the walk goes from StartTemp
  MaxRequests    \* bound: requests of the client

ASSUME CoapAssumption ==
  /\ StartTemp \in Int
  /\ Steps \subseteq Nat
  /\ MaxWalk \in Nat
  /\ MaxRequests \in Nat

VARIABLES
  led_state,
  leds,          \* the red LED is lit
  temp,
  requests,      \* copies of requests that may still arrive
  response,      \* the answer on its way to the client, or None
  ops,           \* what the client has asked for, request by request
  waiting,       \* the client waits for an answer to its last request
  acked,         \* history: the last command the client saw acknowledged
  read,          \* history: the last LED state the client was told
  newest,        \* history: the newest command the server has obeyed
  overtaken      \* history: it obeyed an older one after a newer one

server == <<led_state, leds, temp>>
coapClient == <<ops, waiting, acked, read>>
order == <<newest, overtaken>>
coapVars == <<server, requests, response, coapClient, order>>

\* No answer.
None == [code |-> ""]

Puts == {"led=on", "led=off", "other"}
Gets == {"actuators/led", "sensors/temp"}
Temps == StartTemp - MaxWalk .. StartTemp + MaxWalk

\* C's / and %: the quotient is cut towards zero.
Quotient(a, b) == IF a < 0 THEN -((-a) \div b) ELSE a \div b
Remainder(a, b) == a - b * Quotient(a, b)

Numbers == 1 .. Len(ops)

CoapTypeOK ==
  /\ led_state \in {0, 1}
  /\ leds \in BOOLEAN
  /\ temp \in Temps
  /\ ops \in Seq(Puts \cup Gets)
  /\ \A m \in requests : m.num \in Numbers /\ m.op = ops[m.num]
  /\ waiting \in BOOLEAN
  /\ acked \in Numbers \cup {0}
  /\ newest \in Numbers \cup {0}
  /\ overtaken \in BOOLEAN

CoapInit ==
  /\ led_state = 0
  /\ leds = FALSE
  /\ temp = StartTemp
  /\ requests = {}
  /\ response = None
  /\ ops = <<>>
  /\ waiting = FALSE
  /\ acked = 0
  /\ read = [num |-> 0, led |-> 0]
  /\ newest = 0
  /\ overtaken = FALSE

-----------------------------------------------------------------------------
(* The server.                                                             *)

\* Of several answers on their way to the client at most one comes through;
\* it takes none for a request that it does not wait for.
Respond(m, answer) ==
  IF waiting /\ m.num = Len(ops)
  THEN response' \in {answer, response}
  ELSE UNCHANGED response

\* A plausible slip: led=off turns the LED off and leaves led_state alone.
res_put_handlerForgets(m) ==
  /\ m.op \in Puts
  /\ IF m.op = "other"
     THEN UNCHANGED <<led_state, leds, order>>
     ELSE /\ led_state' = IF m.op = "led=on" THEN 1 ELSE led_state
          /\ leds' = (m.op = "led=on")
          /\ newest' = IF m.num > newest THEN m.num ELSE newest
          /\ overtaken' = (overtaken \/ m.num < newest)
  /\ Respond(m, [code |-> IF m.op = "other" THEN "4.00" ELSE "2.04"])
  /\ UNCHANGED temp

\* A body that is no command changes nothing and is answered with 4.00.
res_put_handler(m) ==
  /\ m.op \in Puts
  /\ IF m.op = "other"
     THEN UNCHANGED <<led_state, leds, order>>
     ELSE /\ led_state' = IF m.op = "led=on" THEN 1 ELSE 0
          /\ leds' = (m.op = "led=on")
          /\ newest' = IF m.num > newest THEN m.num ELSE newest
          /\ overtaken' = (overtaken \/ m.num < newest)
  /\ Respond(m, [code |-> IF m.op = "other" THEN "4.00" ELSE "2.04"])
  /\ UNCHANGED temp

res_led_get_handler(m) ==
  /\ m.op = "actuators/led"
  /\ Respond(m, [code |-> "2.05", led |-> led_state])
  /\ UNCHANGED <<server, order>>

\* The walk takes a step whenever the temperature is read.
read_temperature ==
  \E s \in Steps : temp' \in Temps \cap {temp - s, temp + s}

\* A plausible slip, to avoid the second sign: the digit is made positive.
TextUnsigned(t) ==
  [whole |-> Quotient(t, 10),
   tenth |-> IF t < 0 THEN Remainder(-t, 10) ELSE Remainder(t, 10)]

\* snprintf(..., "%d.%d", temp / 10, temp % 10)
Text(t) == [whole |-> Quotient(t, 10), tenth |-> Remainder(t, 10)]

\* The answer also holds, for the properties, the temperature it stands for.
res_temp_get_handler(m) ==
  /\ m.op = "sensors/temp"
  /\ read_temperature
  /\ Respond(m, [code |-> "2.05", text |-> Text(temp'), of |-> temp'])
  /\ UNCHANGED <<led_state, leds, order>>

\* A copy of a request arrives; others of it may still be on their way.
Arrive ==
  \E m \in requests :
    /\ requests' \in {requests, requests \ {m}}
    /\ res_put_handler(m) \/ res_led_get_handler(m) \/ res_temp_get_handler(m)
    /\ UNCHANGED coapClient

-----------------------------------------------------------------------------
(* The client.                                                             *)

Request(op) ==
  /\ ~waiting
  /\ Len(ops) < MaxRequests
  /\ ops' = Append(ops, op)
  /\ waiting' = TRUE
  /\ requests' = requests \cup {[num |-> Len(ops) + 1, op |-> op]}
  /\ response' = None
  /\ UNCHANGED <<server, acked, read, order>>

Retransmit ==
  /\ waiting
  /\ requests' = requests \cup {[num |-> Len(ops), op |-> ops[Len(ops)]]}
  /\ UNCHANGED <<server, response, coapClient, order>>

GiveUp ==
  /\ waiting
  /\ waiting' = FALSE
  /\ response' = None
  /\ UNCHANGED <<server, requests, ops, acked, read, order>>

Answered ==
  /\ response # None
  /\ waiting' = FALSE
  /\ response' = None
  /\ acked' = IF response.code = "2.04" THEN Len(ops) ELSE acked
  /\ read' = IF "led" \in DOMAIN response
             THEN [num |-> Len(ops), led |-> response.led] ELSE read
  /\ UNCHANGED <<server, requests, ops, order>>

Client ==
  \/ \E op \in Puts \cup Gets : Request(op)
  \/ Retransmit \/ GiveUp \/ Answered

CoapNext == Arrive \/ Client

CoapSpec == CoapInit /\ [][CoapNext]_coapVars

-----------------------------------------------------------------------------

\* What the LED may be when the client makes request n: what the last command
\* it saw acknowledged before asks for, or one that it gave up on since.
Possible(n) ==
  LET since == {k \in 1 .. n - 1 : k >= acked /\ ops[k] \in {"led=on", "led=off"}}
  IN  {IF ops[k] = "led=on" THEN 1 ELSE 0 : k \in since}
        \cup (IF acked = 0 THEN {0} ELSE {})

\* An acknowledged command holds until a later one is sent, and a read of the
\* LED shows it, however often requests are repeated, lost or given up: as
\* long as no copy of a command comes after a later command.
ReadsOwnWrites ==
  ~overtaken =>
    /\ led_state \in Possible(Len(ops) + 1)
    /\ leds = (led_state = 1)
    /\ read.num > acked => read.led \in Possible(read.num)

\* What a reader makes of a temperature: the tenth has no sign in a number.
IsNumber(text) == text.tenth >= 0
Value(text) ==
  10 * text.whole + (IF text.whole < 0 THEN -text.tenth ELSE text.tenth)

\* The temperature answered is a number, and the temperature that was read,
\* unless it is below zero and not a whole degree: that is rendered with a
\* sign in its tenths, and no JSON parser takes it for a number.
TemperatureReadsBack ==
  "text" \in DOMAIN response =>
    IF IsNumber(response.text)
    THEN Value(response.text) = response.of
    ELSE response.of < 0 /\ response.of % 10 # 0
=============================================================================
